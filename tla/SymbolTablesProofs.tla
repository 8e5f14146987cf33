------------------------- MODULE SymbolTablesProofs -------------------------
(***************************************************************************)
(* Theorems about SymbolTables, for every program, session and order of    *)
(* lookups: type correctness; that a private global stays in its module;   *)
(* and that what lookups answer is what the rules of import give.          *)
(***************************************************************************)
EXTENDS SymbolTables, DataLemmas

(***************************************************************************)
(* The inductive invariant.                                                *)
(***************************************************************************)
(* The declarations: what a line may add to keeps the shape of a program. *)
Declarations ==
    /\ globals \in [Modules -> [Names -> Visibility \cup {None}]]
    /\ imports \in [Modules -> Seq(Imports)]
    /\ interactive \in BOOLEAN
    /\ importedNames \in [Modules -> SUBSET Names]
    /\ \A m \in Modules : \A i \in 1 .. Len(imports[m]) :
          imports[m][i].kind = "member" =>
              imports[m][i].member \in Names /\ imports[m][i].as \in Names

TablesOK ==
    /\ symbols \in [Tables -> [Modules -> [Names -> SUBSET Objects]]]
    /\ loaded \in [Tables -> SUBSET Modules]
    /\ busy \in [Tables -> SUBSET Modules]

Control ==
    /\ stack \in Seq(Frame)
    /\ query \in Query
    /\ answer \in [query : Query, objects : SUBSET Objects]
    /\ phase \in {"load", "idle", "lookup", "failed"}
    /\ error \in Errors
    /\ lines \in 0 .. MaxLines

(* A table holds no global that is not declared: a later declaration of that
   name could not be told from a leak. *)
OnlyDeclared ==
    \A t \in Tables : \A m \in Modules : \A n \in Names :
        \A o \in symbols[t][m][n] : o[2] # Itself => globals[o[1]][o[2]] # None

Inv == Declarations /\ TablesOK /\ Control /\ OnlyDeclared /\ PrivateStaysPrivate

LEMMA InvTypeOK == Inv => TypeOK
  <1> SUFFICES ASSUME Inv PROVE TypeOK
    OBVIOUS
  <1>1. /\ DOMAIN symbols = Tables
        /\ \A t \in Tables :
              /\ DOMAIN symbols[t] = Modules
              /\ \A m \in Modules : DOMAIN symbols[t][m] = Names
              /\ \A m \in Modules : \A n \in Names : symbols[t][m][n] \subseteq Objects
    BY DEF Inv, TablesOK
  <1>2. answer.query \in Query /\ answer.objects \subseteq Objects
    BY DEF Inv, Control
  <1> QED
    BY <1>1, <1>2 DEF Inv, Declarations, TablesOK, Control, TypeOK

LEMMA InitInv == Init => Inv
  <1> SUFFICES ASSUME Init PROVE Inv
    OBVIOUS
  <1>1. Declarations
    BY SymbolAssumption DEF Init, Declarations
  <1>2. TablesOK
    BY DEF Init, TablesOK
  <1>3. Control
    <2>1. (CHOOSE n \in Names : TRUE) \in Names
      BY SymbolAssumption
    <2>2. query \in Query
      BY <2>1, SymbolAssumption DEF Init, Query, Tables
    <2>3. answer \in [query : Query, objects : SUBSET Objects]
      BY <2>2 DEF Init
    <2> QED
      BY <2>2, <2>3, SymbolAssumption DEF Init, Control, Errors
  <1>4. OnlyDeclared /\ PrivateStaysPrivate
    BY DEF Init, OnlyDeclared, PrivateStaysPrivate
  <1> QED
    BY <1>1, <1>2, <1>3, <1>4 DEF Inv

(***************************************************************************)
(* What the operations preserve.                                           *)
(***************************************************************************)
LEMMA DeclarationsUnchanged ==
    Declarations /\ UNCHANGED <<program, importedNames>> => Declarations'
  BY DEF Declarations, program

(* The objects in a table: declared, and private ones only at home or forced. *)
Placed(o, t, m) ==
    /\ o \in Objects
    /\ o[2] # Itself =>
          /\ globals[o[1]][o[2]] # None
          /\ globals[o[1]][o[2]] # "PUBLIC" => (o[1] = m /\ t = "all") \/ ForcedFrom(o[1])

LEMMA PlacedObjects ==
    ASSUME Inv, NEW t \in Tables, NEW m \in Modules, NEW n \in Names, NEW o \in symbols[t][m][n]
    PROVE  Placed(o, t, m)
  BY DEF Inv, TablesOK, OnlyDeclared, PrivateStaysPrivate, Placed

(* Tables whose objects are all in their places. *)
LEMMA TablesOfPlaced ==
    ASSUME symbols' \in [Tables -> [Modules -> [Names -> SUBSET Objects]]],
           \A t \in Tables : \A m \in Modules : \A n \in Names :
              \A o \in symbols'[t][m][n] : Placed(o, t, m)'
    PROVE  OnlyDeclared' /\ PrivateStaysPrivate'
  BY DEF OnlyDeclared, PrivateStaysPrivate, Placed

(* Nothing but the tables changes: an object that was in its place still is. *)
LEMMA StillPlaced ==
    ASSUME UNCHANGED program, NEW o, NEW t, NEW m, Placed(o, t, m)
    PROVE  Placed(o, t, m)'
  BY DEF Placed, program, ForcedFrom, ImportsOf

LEMMA SymbolsUnchanged ==
    ASSUME Inv, UNCHANGED <<program, symbols>>
    PROVE  OnlyDeclared' /\ PrivateStaysPrivate'
  <1>1. symbols' = symbols
    OBVIOUS
  <1>2. UNCHANGED program
    OBVIOUS
  <1>3. ASSUME NEW t \in Tables, NEW m \in Modules, NEW n \in Names, NEW o \in symbols'[t][m][n]
        PROVE  Placed(o, t, m)'
    <2>1. Placed(o, t, m)
      BY <1>1, <1>3, PlacedObjects
    <2> QED
      BY <1>2, <2>1, StillPlaced
  <1> QED
    BY <1>1, <1>3, TablesOfPlaced DEF Inv, TablesOK

(* The innermost walk, and the import it is at. *)
LEMMA FrameFacts ==
    ASSUME Inv, stack # <<>>
    PROVE  /\ Frm \in Frame
           /\ Len(stack) \in Nat \ {0}
           /\ Front(stack) \in Seq(Frame)
           /\ Walking => Imp \in Imports
           /\ Walking /\ Imp.kind = "member" => Imp.member \in Names /\ Imp.as \in Names
  <1>1. stack \in Seq(Frame)
    BY DEF Inv, Control
  <1>2. Frm \in Frame /\ Len(stack) \in Nat \ {0} /\ Front(stack) \in Seq(Frame)
    BY <1>1, TopAndBelow DEF Frm
  <1>3. Frm.module \in Modules /\ Frm.next \in Nat \ {0}
    BY <1>2 DEF Frame
  <1>4. imports[Frm.module] \in Seq(Imports)
    BY <1>3 DEF Inv, Declarations
  <1>5. Walking => Frm.next \in 1 .. Len(imports[Frm.module])
    BY <1>3, <1>4 DEF Walking
  <1>6. Walking => Imp \in Imports
    BY <1>4, <1>5 DEF Imp
  <1>7. Walking /\ Imp.kind = "member" => Imp.member \in Names /\ Imp.as \in Names
    BY <1>3, <1>5 DEF Inv, Declarations, Imp
  <1> QED
    BY <1>2, <1>6, <1>7

LEMMA SetFrameOK ==
    ASSUME Inv, stack # <<>>, NEW f \in Frame, SetFrame(f)
    PROVE  stack' \in Seq(Frame)
  BY DEF Inv, Control, SetFrame

LEMMA NextFrameOK ==
    ASSUME NEW r \in Frame, NEW n \in Nat \ {0}, NEW specific \in SUBSET Names
    PROVE  [r EXCEPT !.next = n, !.fetched = 0, !.specific = specific] \in Frame
  <1> DEFINE sets == SUBSET Names
             counts == 0 .. 2
  <1>1. 0 \in counts
    OBVIOUS
  <1>2. specific \in sets
    OBVIOUS
  <1>3. Frame = [table : Tables, module : Modules, next : Nat \ {0}, fetched : counts, specific : sets]
    BY DEF Frame
  <1> HIDE DEF sets, counts
  <1> QED
    BY <1>1, <1>2, <1>3

LEMMA OnwardsOK ==
    ASSUME Inv, stack # <<>>, NEW specific \in SUBSET Names, Onwards(specific)
    PROVE  stack' \in Seq(Frame)
  <1> DEFINE n == Frm.next + 1
             f == [Frm EXCEPT !.next = n, !.fetched = 0, !.specific = specific]
  <1>1. Frm \in Frame
    BY FrameFacts
  <1>2. n \in Nat \ {0}
    BY <1>1 DEF Frame
  <1>3. SetFrame(f)
    BY DEF Onwards
  <1> HIDE DEF n
  <1>4. f \in Frame
    BY <1>1, <1>2, NextFrameOK
  <1> HIDE DEF f
  <1> QED
    BY <1>3, <1>4, SetFrameOK

LEMMA RaiseOK ==
    ASSUME NEW e \in Errors, Raise(e)
    PROVE  /\ stack' \in Seq(Frame)
           /\ phase' \in {"load", "idle", "lookup", "failed"}
           /\ error' \in Errors
  <1>1. stack' = <<>> /\ error' = e /\ phase' \in {"idle", "failed"}
    BY DEF Raise
  <1> QED
    BY <1>1

LEMMA NewFrameOK ==
    ASSUME NEW t \in Tables, NEW m \in Modules
    PROVE  NewFrame(t, m) \in Frame
  BY DEF NewFrame, Frame

(***************************************************************************)
(* One lemma for each action that changes a table or a declaration.        *)
(***************************************************************************)
LEMMA LoadProgramOK == Inv /\ LoadProgram => Inv'
  <1> SUFFICES ASSUME Inv, LoadProgram PROVE Inv'
    OBVIOUS
  <1>1. /\ UNCHANGED program /\ UNCHANGED <<loaded, busy>> /\ UNCHANGED <<stack, query, answer, lines>>
        /\ UNCHANGED <<globals, imports, interactive>>
    BY DEF LoadProgram, program, asking
  <1>2. CASE \E m \in Modules : ImportedTwice(m)
    <2>1. phase' = "failed" /\ error' = "importedAlready" /\ UNCHANGED <<importedNames, symbols>>
      BY <1>2 DEF LoadProgram
    <2>2. OnlyDeclared' /\ PrivateStaysPrivate'
      BY <1>1, <2>1, SymbolsUnchanged
    <2>3. Control'
      BY <1>1, <2>1 DEF Inv, Control, Errors
    <2>4. Declarations' /\ TablesOK'
      BY <1>1, <2>1 DEF Inv, Declarations, TablesOK
    <2> QED
      BY <2>2, <2>3, <2>4 DEF Inv
  <1>3. CASE ~\E m \in Modules : ImportedTwice(m)
    <2> DEFINE named(m) == {i.as : i \in {j \in ImportsOf(m) : j.kind # "star"}} \ {None}
               own(t, m, n) == IF n \in Globals(m) /\ InTable(t, globals[m][n])
                               THEN {<<m, n>>} ELSE {}
    <2>1. /\ phase' = "idle" /\ error' = error
          /\ importedNames' = [m \in Modules |-> named(m)]
          /\ symbols' = [t \in Tables |-> [m \in Modules |-> [n \in Names |->
                 NamedModules(t, m, n) \cup own(t, m, n)]]]
      BY <1>3 DEF LoadProgram, AtFirst
    <2>2. ASSUME NEW m \in Modules
          PROVE  ImportsOf(m) \subseteq Imports
      BY DEF Inv, Declarations, ImportsOf
    <2>3. ASSUME NEW m \in Modules
          PROVE  named(m) \subseteq Names
      BY <2>2 DEF Imports
    <2>4. ASSUME NEW t \in Tables, NEW m \in Modules, NEW n \in Names, NEW o \in NamedModules(t, m, n)
          PROVE  o \in Objects /\ o[2] = Itself
      BY <2>2 DEF NamedModules, Imports, Objects
    <2>5. ASSUME NEW t \in Tables, NEW m \in Modules, NEW n \in Names, NEW o \in own(t, m, n)
          PROVE  /\ o \in Objects /\ o = <<m, n>>
                 /\ globals[m][n] # None /\ (globals[m][n] # "PUBLIC" => t = "all")
      <3>1. o = <<m, n>> /\ n \in Globals(m) /\ InTable(t, globals[m][n])
        BY <2>5
      <3> QED
        BY <3>1 DEF Objects, Globals, InTable
    <2> HIDE DEF named, own
    <2>6. importedNames' \in [Modules -> SUBSET Names]
      BY <2>1, <2>3
    <2>7. symbols' \in [Tables -> [Modules -> [Names -> SUBSET Objects]]]
      BY <2>1, <2>4, <2>5
    <2>8. ASSUME NEW t \in Tables, NEW m \in Modules, NEW n \in Names, NEW o \in symbols'[t][m][n]
          PROVE  Placed(o, t, m)'
      <3>1. o \in NamedModules(t, m, n) \/ o \in own(t, m, n)
        BY <2>1, <2>8
      <3>2. Placed(o, t, m)
        BY <2>4, <2>5, <3>1 DEF Placed
      <3> QED
        BY <1>1, <3>2, StillPlaced
    <2>9. OnlyDeclared' /\ PrivateStaysPrivate'
      BY <2>7, <2>8, TablesOfPlaced
    <2>10. Declarations'
      BY <1>1, <2>6 DEF Inv, Declarations
    <2>11. Control'
      BY <1>1, <2>1 DEF Inv, Control
    <2>12. TablesOK'
      BY <1>1, <2>7 DEF Inv, TablesOK
    <2> QED
      BY <2>9, <2>10, <2>11, <2>12 DEF Inv
  <1> QED
    BY <1>2, <1>3

LEMMA AddStarOK == Inv /\ AddStar => Inv'
  <1> SUFFICES ASSUME Inv, AddStar PROVE Inv'
    OBVIOUS
  <1> DEFINE at == Frm.table
             into == Frm.module
             row == [n \in Names |-> IF Shielded(n) THEN symbols[at][into][n]
                       ELSE symbols[at][into][n] \cup symbols["public"][Imp.from][n]]
  <1>1. /\ stack # <<>> /\ Walking
        /\ UNCHANGED program /\ UNCHANGED importedNames
        /\ UNCHANGED <<loaded, busy>> /\ UNCHANGED <<query, answer, phase, error, lines>>
        /\ Onwards(Frm.specific)
    BY DEF AddStar, Fetched, Walking, asking
  <1>2. Frm \in Frame /\ Imp \in Imports
    BY <1>1, FrameFacts
  <1>3. at \in Tables /\ into \in Modules /\ Frm.specific \in SUBSET Names /\ Imp.from \in Modules
    BY <1>2 DEF Frame, Imports
  <1>4. symbols' = [symbols EXCEPT ![at][into] = row]
    BY DEF AddStar
  <1>5. "public" \in Tables
    BY DEF Tables
  <1>6. symbols \in [Tables -> [Modules -> [Names -> SUBSET Objects]]]
    BY DEF Inv, TablesOK
  <1>7. row \in [Names -> SUBSET Objects]
    BY <1>3, <1>5, <1>6
  <1>8. \A n \in Names : \A o \in row[n] :
           o \in symbols[at][into][n] \/ o \in symbols["public"][Imp.from][n]
    OBVIOUS
  <1> HIDE DEF row
  <1>9. /\ symbols' \in [Tables -> [Modules -> [Names -> SUBSET Objects]]]
        /\ \A t \in Tables : \A m \in Modules : \A n \in Names :
              symbols'[t][m][n] = IF t = at /\ m = into THEN row[n] ELSE symbols[t][m][n]
    BY <1>3, <1>4, <1>6, <1>7
  <1>10. ASSUME NEW t \in Tables, NEW m \in Modules, NEW n \in Names, NEW o \in symbols'[t][m][n]
         PROVE  Placed(o, t, m)'
    <2>1. CASE o \in symbols[t][m][n]
      BY <1>1, <2>1, PlacedObjects, StillPlaced
    <2>2. CASE o \in symbols["public"][Imp.from][n]
      <3>1. Placed(o, "public", Imp.from)
        BY <1>3, <1>5, <2>2, PlacedObjects
      <3>2. Placed(o, t, m)
        BY <3>1 DEF Placed
      <3> QED
        BY <1>1, <3>2, StillPlaced
    <2> QED
      BY <1>8, <1>9, <1>10, <2>1, <2>2
  <1>11. OnlyDeclared' /\ PrivateStaysPrivate'
    BY <1>9, <1>10, TablesOfPlaced
  <1>12. Declarations'
    BY <1>1, DeclarationsUnchanged DEF Inv
  <1>13. stack' \in Seq(Frame)
    BY <1>1, <1>3, OnwardsOK
  <1>14. Control'
    BY <1>1, <1>13 DEF Inv, Control
  <1>15. TablesOK'
    BY <1>1, <1>9 DEF Inv, TablesOK
  <1> QED
    BY <1>11, <1>12, <1>14, <1>15 DEF Inv

(* What is left of the invariant when only the walk, the flags and the lookup move. *)
LEMMA ControlOK ==
    ASSUME Inv, stack' \in Seq(Frame), phase' \in {"load", "idle", "lookup", "failed"},
           error' \in Errors, UNCHANGED <<query, answer, lines>>
    PROVE  Control'
  BY DEF Inv, Control

LEMMA TablesUnmoved ==
    ASSUME Inv, UNCHANGED <<program, importedNames, symbols>>, Control',
           loaded' \in [Tables -> SUBSET Modules], busy' \in [Tables -> SUBSET Modules]
    PROVE  Inv'
  <1>1. UNCHANGED <<program, importedNames>> /\ UNCHANGED <<program, symbols>> /\ symbols' = symbols
    OBVIOUS
  <1>2. Declarations'
    BY <1>1, DeclarationsUnchanged DEF Inv
  <1>3. OnlyDeclared' /\ PrivateStaysPrivate'
    BY <1>1, SymbolsUnchanged
  <1>4. TablesOK'
    BY <1>1 DEF Inv, TablesOK
  <1> QED
    BY <1>2, <1>3, <1>4 DEF Inv

LEMMA FlagsTypes ==
    ASSUME Inv
    PROVE  /\ loaded \in [Tables -> SUBSET Modules]
           /\ busy \in [Tables -> SUBSET Modules]
           /\ stack \in Seq(Frame)
           /\ query \in Query
           /\ phase \in {"load", "idle", "lookup", "failed"}
           /\ error \in Errors
  BY DEF Inv, TablesOK, Control

LEMMA AddMemberOK == Inv /\ AddMember => Inv'
  <1> SUFFICES ASSUME Inv, AddMember PROVE Inv'
    OBVIOUS
  <1> DEFINE at == Frm.table
             into == Frm.module
  <1>1. /\ stack # <<>> /\ Walking /\ Imp.kind = "member"
        /\ UNCHANGED <<program, importedNames>>
        /\ UNCHANGED <<loaded, busy>> /\ UNCHANGED <<query, answer, lines>>
    BY DEF AddMember, Fetched, Walking, asking
  <1>2. Frm \in Frame /\ Imp \in Imports /\ Imp.as \in Names /\ Imp.member \in Names
    BY <1>1, FrameFacts
  <1>3. /\ at \in Tables /\ into \in Modules /\ Frm.specific \in SUBSET Names
        /\ Imp.from \in Modules /\ Frm.next \in Nat \ {0}
    BY <1>2 DEF Frame, Imports
  <1>4. "importedAlready" \in Errors /\ "notFound" \in Errors
    BY DEF Errors
  <1>5. loaded' \in [Tables -> SUBSET Modules] /\ busy' \in [Tables -> SUBSET Modules]
    BY <1>1, FlagsTypes
  <1>6. \/ Raise("importedAlready") \/ Raise("notFound")
        \/ Onwards(Frm.specific) /\ UNCHANGED <<phase, error>>
        \/ Onwards(Frm.specific \cup {Imp.as}) /\ UNCHANGED <<phase, error>>
    BY DEF AddMember
  <1>7. Control'
    <2>1. CASE Raise("importedAlready") \/ Raise("notFound")
      BY <1>1, <1>4, <2>1, RaiseOK, ControlOK
    <2>2. ASSUME NEW specific \in SUBSET Names, Onwards(specific), UNCHANGED <<phase, error>>
          PROVE  Control'
      <3>1. stack' \in Seq(Frame)
        BY <1>1, <2>2, OnwardsOK
      <3>2. phase' \in {"load", "idle", "lookup", "failed"} /\ error' \in Errors
        BY <2>2, FlagsTypes
      <3> QED
        BY <1>1, <3>1, <3>2, ControlOK
    <2>3. Frm.specific \cup {Imp.as} \in SUBSET Names
      BY <1>2, <1>3
    <2> QED
      BY <1>3, <1>6, <2>1, <2>2, <2>3
  <1>8. CASE UNCHANGED symbols
    BY <1>1, <1>5, <1>7, <1>8, TablesUnmoved
  <1>9. CASE \E o \in MemberObjects : symbols' = [symbols EXCEPT ![at][into][Imp.as] = {o}]
    <2>1. PICK o \in MemberObjects : symbols' = [symbols EXCEPT ![at][into][Imp.as] = {o}]
      BY <1>9
    <2>2. MemberTable(Imp) \in Tables
      BY DEF MemberTable, Tables
    <2>3. Placed(o, MemberTable(Imp), Imp.from)
      BY <1>2, <1>3, <2>1, <2>2, PlacedObjects DEF MemberObjects
    <2>4. Imp.forced => ForcedFrom(Imp.from)
      <3>1. imports[into] \in Seq(Imports)
        BY <1>3 DEF Inv, Declarations
      <3>2. Frm.next \in 1 .. Len(imports[into])
        BY <1>1, <1>3, <3>1 DEF Walking
      <3>3. Imp \in ImportsOf(into)
        BY <3>2 DEF Imp, ImportsOf
      <3> QED
        BY <1>1, <1>3, <3>3 DEF ForcedFrom
    <2>5. Placed(o, at, into)
      BY <2>3, <2>4 DEF Placed, MemberTable
    <2>6. o \in Objects
      BY <2>5 DEF Placed
    <2>7. symbols \in [Tables -> [Modules -> [Names -> SUBSET Objects]]]
      BY DEF Inv, TablesOK
    <2>8. /\ symbols' \in [Tables -> [Modules -> [Names -> SUBSET Objects]]]
          /\ \A t \in Tables : \A m \in Modules : \A n \in Names :
                symbols'[t][m][n] = IF t = at /\ m = into /\ n = Imp.as
                                      THEN {o} ELSE symbols[t][m][n]
      BY <1>2, <1>3, <2>1, <2>6, <2>7
    <2>9. ASSUME NEW t \in Tables, NEW m \in Modules, NEW n \in Names, NEW p \in symbols'[t][m][n]
          PROVE  Placed(p, t, m)'
      <3>1. Placed(p, t, m)
        BY <2>5, <2>8, <2>9, PlacedObjects
      <3>2. UNCHANGED program
        BY <1>1
      <3> QED
        BY <3>1, <3>2, StillPlaced
    <2>10. OnlyDeclared' /\ PrivateStaysPrivate'
      BY <2>8, <2>9, TablesOfPlaced
    <2>11. Declarations'
      BY <1>1, DeclarationsUnchanged DEF Inv
    <2>12. TablesOK'
      BY <1>5, <2>8 DEF TablesOK
    <2> QED
      BY <1>7, <2>10, <2>11, <2>12 DEF Inv
  <1>10. UNCHANGED symbols \/ \E o \in MemberObjects :
              symbols' = [symbols EXCEPT ![at][into][Imp.as] = {o}]
    BY DEF AddMember
  <1> QED
    BY <1>8, <1>9, <1>10

(* A line typed at the prompt is a well-formed declaration of the main module. *)
LEMMA TypeImportOK ==
    ASSUME Inv, NEW line \in Lines, TypeImport(line)
    PROVE  Inv'
  <1> DEFINE i == line.import
             named == i.kind # "star" /\ i.as # None
             taken == named /\ i.as \in importedNames[Main]
             row(t) == IF InTable(t, i.visible)
                         THEN symbols[t][Main][i.as] \cup {<<i.from, Itself>>}
                         ELSE symbols[t][Main][i.as]
  <1>1. /\ "import" \in DOMAIN line /\ line \in Lines
        /\ lines < MaxLines /\ lines' = lines + 1
        /\ imports' = [imports EXCEPT ![Main] = Append(imports[Main], i)]
        /\ UNCHANGED <<globals, interactive>> /\ UNCHANGED <<loaded, busy, query, answer>>
    BY DEF TypeImport, Prompt, asking
  <1>2. i \in Imports /\ (i.kind = "member" => i.member \in Names /\ i.as \in Names)
    BY <1>1, SymbolAssumption
  <1>3. Main \in Modules
    BY SymbolAssumption
  <1>4. /\ i.from \in Modules /\ i.visible \in Visibility /\ i.as \in Names \cup {None}
    BY <1>2 DEF Imports
  <1>5. \/ taken /\ Raise("importedAlready") /\ UNCHANGED <<importedNames, symbols>>
        \/ /\ ~taken /\ error' = "none" /\ UNCHANGED <<phase, stack>>
           /\ importedNames' = [importedNames EXCEPT ![Main] =
                  IF named THEN importedNames[Main] \cup {i.as} ELSE importedNames[Main]]
           /\ \/ UNCHANGED symbols
              \/ named /\ symbols' = [t \in Tables |-> [symbols[t] EXCEPT ![Main][i.as] = row(t)]]
    BY DEF TypeImport
  <1> HIDE DEF i
  <1>6. Control'
    <2>1. "importedAlready" \in Errors /\ "none" \in Errors
      BY DEF Errors
    <2>2. /\ stack' \in Seq(Frame)
          /\ phase' \in {"load", "idle", "lookup", "failed"} /\ error' \in Errors
      <3>1. CASE Raise("importedAlready")
        BY <2>1, <3>1, RaiseOK
      <3>2. CASE error' = "none" /\ UNCHANGED <<phase, stack>>
        BY <2>1, <3>2, FlagsTypes
      <3> QED
        BY <1>5, <3>1, <3>2
    <2>3. lines' \in 0 .. MaxLines
      BY <1>1, SymbolAssumption DEF Inv, Control
    <2> QED
      BY <1>1, <2>2, <2>3 DEF Inv, Control
  <1>7. Declarations'
    <2>1. imports \in [Modules -> Seq(Imports)]
      BY DEF Inv, Declarations
    <2>2. /\ Append(imports[Main], i) \in Seq(Imports)
          /\ Len(Append(imports[Main], i)) = Len(imports[Main]) + 1
          /\ Append(imports[Main], i)[Len(imports[Main]) + 1] = i
          /\ \A k \in 1 .. Len(imports[Main]) : Append(imports[Main], i)[k] = imports[Main][k]
      BY <1>2, <1>3, <2>1, Pushed
    <2> DEFINE longer == Append(imports[Main], i)
    <2> HIDE DEF longer
    <2>3. /\ imports' \in [Modules -> Seq(Imports)]
          /\ imports'[Main] = longer
          /\ \A m \in Modules : m # Main => imports'[m] = imports[m]
      BY <1>1, <1>3, <2>1, <2>2 DEF longer
    <2>4. ASSUME NEW m \in Modules, NEW k \in 1 .. Len(imports'[m]),
                 imports'[m][k].kind = "member"
          PROVE  imports'[m][k].member \in Names /\ imports'[m][k].as \in Names
      <3>1. CASE m # Main
        BY <2>3, <2>4, <3>1 DEF Inv, Declarations
      <3>2. CASE m = Main /\ k = Len(imports[Main]) + 1
        BY <1>2, <2>2, <2>3, <2>4, <3>2 DEF longer
      <3>3. CASE m = Main /\ k # Len(imports[Main]) + 1
        <4>1. Len(imports[Main]) \in Nat
          BY <1>3, <2>1
        <4>2. k \in 1 .. Len(imports[Main])
          BY <2>2, <2>3, <3>3, <4>1 DEF longer
        <4>3. imports'[Main][k] = imports[Main][k]
          BY <2>2, <2>3, <4>2 DEF longer
        <4> QED
          BY <1>3, <2>4, <3>3, <4>2, <4>3 DEF Inv, Declarations
      <3> QED
        BY <3>1, <3>2, <3>3
    <2>5. importedNames' \in [Modules -> SUBSET Names]
      <3>1. importedNames \in [Modules -> SUBSET Names]
        BY DEF Inv, Declarations
      <3>2. named => i.as \in Names
        BY <1>4
      <3> HIDE DEF named
      <3> QED
        BY <1>3, <1>5, <3>1, <3>2
    <2> QED
      BY <1>1, <2>3, <2>4, <2>5 DEF Inv, Declarations
  <1>8. \A k : ForcedFrom(k) => ForcedFrom(k)'
    <2> SUFFICES ASSUME NEW k, ForcedFrom(k) PROVE ForcedFrom(k)'
      OBVIOUS
    <2>1. imports \in [Modules -> Seq(Imports)]
      BY DEF Inv, Declarations
    <2>2. PICK m \in Modules : \E j \in ImportsOf(m) : j.kind = "member" /\ j.forced /\ j.from = k
      BY DEF ForcedFrom
    <2>3. PICK p \in 1 .. Len(imports[m]) :
             imports[m][p].kind = "member" /\ imports[m][p].forced /\ imports[m][p].from = k
      BY <2>2 DEF ImportsOf
    <2>4. p \in 1 .. Len(imports'[m]) /\ imports'[m][p] = imports[m][p]
      <3>1. CASE m # Main
        BY <1>1, <2>1, <2>3, <3>1
      <3>2. CASE m = Main
        <4>1. imports'[m] = Append(imports[m], i)
          BY <1>1, <1>3, <2>1, <3>2
        <4>2. /\ Len(Append(imports[m], i)) = Len(imports[m]) + 1
              /\ \A x \in 1 .. Len(imports[m]) : Append(imports[m], i)[x] = imports[m][x]
          BY <1>2, <2>1, Pushed
        <4>3. Len(imports[m]) \in Nat
          BY <2>1
        <4> QED
          BY <2>3, <4>1, <4>2, <4>3
      <3> QED
        BY <3>1, <3>2
    <2>5. imports'[m][p] \in ImportsOf(m)'
      BY <2>4 DEF ImportsOf
    <2> QED
      BY <2>3, <2>4, <2>5 DEF ForcedFrom
  <1>9. ASSUME NEW o, NEW t \in Tables, NEW m \in Modules, Placed(o, t, m)
        PROVE  Placed(o, t, m)'
    BY <1>1, <1>8, <1>9 DEF Placed
  <1>10. symbols \in [Tables -> [Modules -> [Names -> SUBSET Objects]]]
    BY DEF Inv, TablesOK
  <1>11. CASE UNCHANGED symbols
    <2>1. OnlyDeclared' /\ PrivateStaysPrivate'
      BY <1>9, <1>10, <1>11, PlacedObjects, TablesOfPlaced
    <2>2. TablesOK'
      BY <1>1, <1>11 DEF Inv, TablesOK
    <2> QED
      BY <1>6, <1>7, <2>1, <2>2 DEF Inv
  <1>12. CASE named /\ symbols' = [t \in Tables |-> [symbols[t] EXCEPT ![Main][i.as] = row(t)]]
    <2>1. i.as \in Names
      BY <1>4, <1>12
    <2>2. <<i.from, Itself>> \in Objects
      BY <1>4 DEF Objects
    <2>3. \A t \in Tables : /\ row(t) \in SUBSET Objects
                            /\ \A o \in row(t) : o \in symbols[t][Main][i.as] \/ o = <<i.from, Itself>>
      <3> TAKE t \in Tables
      <3> DEFINE before == symbols[t][Main][i.as]
                 module == <<i.from, Itself>>
      <3>1. before \in SUBSET Objects /\ module \in Objects
        BY <1>3, <1>10, <2>1, <2>2
      <3>2. row(t) = before \/ row(t) = before \cup {module}
        OBVIOUS
      <3> HIDE DEF before, module, row
      <3>3. row(t) \in SUBSET Objects /\ \A o \in row(t) : o \in before \/ o = module
        BY <3>1, <3>2
      <3> QED
        BY <3>3 DEF before, module
    <2> HIDE DEF row
    <2>4. /\ symbols' \in [Tables -> [Modules -> [Names -> SUBSET Objects]]]
          /\ \A t \in Tables : \A m \in Modules : \A n \in Names :
                symbols'[t][m][n] = IF m = Main /\ n = i.as THEN row(t) ELSE symbols[t][m][n]
      BY <1>3, <1>10, <1>12, <2>1, <2>3
    <2>5. ASSUME NEW t \in Tables, NEW m \in Modules, NEW n \in Names, NEW o \in symbols'[t][m][n]
          PROVE  Placed(o, t, m)'
      <3>1. o \in symbols[t][m][n] \/ o = <<i.from, Itself>>
        BY <2>3, <2>4, <2>5
      <3>2. Placed(<<i.from, Itself>>, t, m)
        BY <2>2 DEF Placed
      <3> QED
        BY <1>9, <3>1, <3>2, PlacedObjects
    <2>6. OnlyDeclared' /\ PrivateStaysPrivate'
      BY <2>4, <2>5, TablesOfPlaced
    <2>7. TablesOK'
      BY <1>1, <2>4 DEF Inv, TablesOK
    <2> QED
      BY <1>6, <1>7, <2>6, <2>7 DEF Inv
  <1> QED
    BY <1>5, <1>11, <1>12

LEMMA TypeDefinitionOK ==
    ASSUME Inv, NEW line \in Lines, TypeDefinition(line)
    PROVE  Inv'
  <1> DEFINE n == line.define
             v == line.visibility
             row(t) == IF InTable(t, v) THEN symbols[t][Main][n] \cup {<<Main, n>>}
                       ELSE symbols[t][Main][n]
  <1>1. /\ "define" \in DOMAIN line /\ line \in Lines
        /\ lines < MaxLines /\ lines' = lines + 1
        /\ UNCHANGED <<imports, interactive, importedNames>>
        /\ UNCHANGED <<loaded, busy, query, answer>>
    BY DEF TypeDefinition, Prompt, asking
  <1>2. n \in Names /\ v \in Visibility
    BY <1>1, SymbolAssumption
  <1>3. Main \in Modules /\ None \notin Visibility /\ None \notin Names /\ Itself \notin Names
    BY SymbolAssumption DEF Visibility, None
  <1>4. \/ n \in Globals(Main) /\ Raise("redefined") /\ UNCHANGED <<globals, symbols>>
        \/ /\ n \notin Globals(Main) /\ error' = "none" /\ UNCHANGED <<phase, stack>>
           /\ globals' = [globals EXCEPT ![Main][n] = v]
           /\ symbols' = [t \in Tables |-> [symbols[t] EXCEPT ![Main][n] = row(t)]]
    BY DEF TypeDefinition
  <1> HIDE DEF n, v
  <1>5. Control'
    <2>1. "redefined" \in Errors /\ "none" \in Errors
      BY DEF Errors
    <2>2. /\ stack' \in Seq(Frame)
          /\ phase' \in {"load", "idle", "lookup", "failed"} /\ error' \in Errors
      <3>1. CASE Raise("redefined")
        BY <2>1, <3>1, RaiseOK
      <3>2. CASE error' = "none" /\ UNCHANGED <<phase, stack>>
        BY <2>1, <3>2, FlagsTypes
      <3> QED
        BY <1>4, <3>1, <3>2
    <2>3. lines' \in 0 .. MaxLines
      BY <1>1, SymbolAssumption DEF Inv, Control
    <2> QED
      BY <1>1, <2>2, <2>3 DEF Inv, Control
  <1>6. CASE UNCHANGED <<globals, symbols>>
    <2>1. UNCHANGED <<program, importedNames>> /\ UNCHANGED <<program, symbols>>
      BY <1>1, <1>6 DEF program
    <2>2. Declarations' /\ OnlyDeclared' /\ PrivateStaysPrivate'
      BY <2>1, DeclarationsUnchanged, SymbolsUnchanged DEF Inv
    <2>3. TablesOK'
      BY <1>1, <1>6 DEF Inv, TablesOK
    <2> QED
      BY <1>5, <2>2, <2>3 DEF Inv
  <1>7. CASE /\ n \notin Globals(Main)
             /\ globals' = [globals EXCEPT ![Main][n] = v]
             /\ symbols' = [t \in Tables |-> [symbols[t] EXCEPT ![Main][n] = row(t)]]
    <2>1. globals \in [Modules -> [Names -> Visibility \cup {None}]]
      BY DEF Inv, Declarations
    <2>2. /\ globals' \in [Modules -> [Names -> Visibility \cup {None}]]
          /\ globals'[Main][n] = v
          /\ \A m \in Modules : \A x \in Names :
                <<m, x>> # <<Main, n>> => globals'[m][x] = globals[m][x]
      BY <1>2, <1>3, <1>7, <2>1
    <2>3. Declarations'
      BY <1>1, <2>2 DEF Inv, Declarations
    <2>4. \A k : ForcedFrom(k)' = ForcedFrom(k)
      BY <1>1 DEF ForcedFrom, ImportsOf
    \* The new global is in no table yet, for it was not declared.
    <2>5. ASSUME NEW o, NEW t \in Tables, NEW m \in Modules, Placed(o, t, m)
          PROVE  Placed(o, t, m)'
      <3>1. CASE o[2] = Itself
        BY <2>5, <3>1 DEF Placed
      <3>2. CASE o[2] # Itself
        <4>1. /\ o[1] \in Modules /\ o[2] \in Names /\ o = <<o[1], o[2]>>
              /\ globals[o[1]][o[2]] # None
          BY <2>5, <3>2 DEF Placed, Objects
        <4>2. o # <<Main, n>>
          BY <1>2, <1>7, <4>1 DEF Globals
        <4>3. globals'[o[1]][o[2]] = globals[o[1]][o[2]]
          BY <2>2, <4>1, <4>2
        <4> QED
          BY <2>4, <2>5, <4>3 DEF Placed
      <3> QED
        BY <3>1, <3>2
    <2>6. symbols \in [Tables -> [Modules -> [Names -> SUBSET Objects]]]
      BY DEF Inv, TablesOK
    <2>7. <<Main, n>> \in Objects
      BY <1>2, <1>3 DEF Objects
    <2>8. \A t \in Tables : /\ row(t) \in SUBSET Objects
                            /\ \A o \in row(t) : \/ o \in symbols[t][Main][n]
                                                 \/ o = <<Main, n>> /\ InTable(t, v)
      <3> TAKE t \in Tables
      <3> DEFINE before == symbols[t][Main][n]
                 global == <<Main, n>>
      <3>1. before \in SUBSET Objects /\ global \in Objects
        BY <1>2, <1>3, <2>6, <2>7
      <3>2. row(t) = before \/ (InTable(t, v) /\ row(t) = before \cup {global})
        OBVIOUS
      <3> HIDE DEF before, global, row
      <3>3. /\ row(t) \in SUBSET Objects
            /\ \A o \in row(t) : o \in before \/ (o = global /\ InTable(t, v))
        BY <3>1, <3>2
      <3> QED
        BY <3>3 DEF before, global
    <2> HIDE DEF row
    <2>9. /\ symbols' \in [Tables -> [Modules -> [Names -> SUBSET Objects]]]
          /\ \A t \in Tables : \A m \in Modules : \A x \in Names :
                symbols'[t][m][x] = IF m = Main /\ x = n THEN row(t) ELSE symbols[t][m][x]
      BY <1>2, <1>3, <1>7, <2>6, <2>8
    <2>10. ASSUME NEW t \in Tables, NEW m \in Modules, NEW x \in Names, NEW o \in symbols'[t][m][x]
           PROVE  Placed(o, t, m)'
      <3>1. \/ o \in symbols[t][m][x]
            \/ m = Main /\ o = <<Main, n>> /\ InTable(t, v)
        BY <2>8, <2>9, <2>10
      <3>2. CASE o \in symbols[t][m][x]
        BY <2>5, <3>2, PlacedObjects
      <3>3. CASE m = Main /\ o = <<Main, n>> /\ InTable(t, v)
        <4>1. o \in Objects /\ o[1] = m /\ o[2] = n
          BY <2>7, <3>3
        <4>2. globals'[o[1]][o[2]] = v /\ (v # "PUBLIC" => t = "all")
          BY <2>2, <3>3, <4>1 DEF InTable
        <4>3. v # None
          BY <1>2, <1>3
        <4> QED
          BY <4>1, <4>2, <4>3 DEF Placed
      <3> QED
        BY <3>1, <3>2, <3>3
    <2>11. OnlyDeclared' /\ PrivateStaysPrivate'
      BY <2>9, <2>10, TablesOfPlaced
    <2>12. TablesOK'
      BY <1>1, <2>9 DEF Inv, TablesOK
    <2> QED
      BY <1>5, <2>3, <2>11, <2>12 DEF Inv
  <1> QED
    BY <1>4, <1>6, <1>7

(***************************************************************************)
(* The actions that move only the lookup, the walk and the flags.          *)
(***************************************************************************)
LEMMA LookupOK ==
    ASSUME Inv, NEW q \in Asked, Lookup(q)
    PROVE  Inv'
  <1>1. /\ query' = q /\ phase' = "lookup" /\ error' = "none"
        /\ UNCHANGED <<program, importedNames, symbols>> /\ UNCHANGED <<loaded, busy>>
        /\ UNCHANGED <<stack, answer, lines>>
    BY DEF Lookup, tables
  <1>2. q \in Query
    BY SymbolAssumption DEF Query
  <1>3. Control'
    BY <1>1, <1>2 DEF Inv, Control, Errors
  <1> QED
    BY <1>1, <1>3, FlagsTypes, TablesUnmoved

LEMMA AnswerOK ==
    ASSUME Inv, Answer
    PROVE  Inv'
  <1>1. /\ answer' = [query |-> query, objects |-> Entry(query)]
        /\ UNCHANGED <<program, importedNames, symbols>> /\ UNCHANGED <<loaded, busy>>
        /\ UNCHANGED <<query, lines>>
        /\ Raise("ambiguous") \/ (phase' = "idle" /\ UNCHANGED <<error, stack>>)
    BY DEF Answer, tables
  <1>2. /\ stack' \in Seq(Frame)
        /\ phase' \in {"load", "idle", "lookup", "failed"} /\ error' \in Errors
    <2>1. "ambiguous" \in Errors
      BY DEF Errors
    <2> QED
      BY <1>1, <2>1, RaiseOK, FlagsTypes
  <1>3. Entry(query) \in SUBSET Objects
    <2>1. query.table \in Tables /\ query.module \in Modules /\ query.name \in Names
      BY FlagsTypes DEF Query
    <2> QED
      BY <2>1 DEF Inv, TablesOK, Entry
  <1>4. answer' \in [query : Query, objects : SUBSET Objects]
    <2> DEFINE sets == SUBSET Objects
               here == Entry(query)
    <2>1. here \in sets
      BY <1>3
    <2> HIDE DEF sets, here
    <2>2. [query |-> query, objects |-> here] \in [query : Query, objects : sets]
      BY <2>1, FlagsTypes
    <2> QED
      BY <1>1, <2>2 DEF sets, here
  <1>5. Control'
    BY <1>1, <1>2, <1>4 DEF Inv, Control
  <1> QED
    BY <1>1, <1>5, FlagsTypes, TablesUnmoved

LEMMA TryPreludeOK ==
    ASSUME Inv, TryPrelude
    PROVE  Inv'
  <1>1. /\ query' = InPrelude
        /\ UNCHANGED <<program, importedNames, symbols>> /\ UNCHANGED <<loaded, busy>>
        /\ UNCHANGED <<stack, answer, phase, error, lines>>
    BY DEF TryPrelude, tables
  <1>2. InPrelude \in Query
    BY FlagsTypes, SymbolAssumption DEF InPrelude, Query, Tables
  <1>3. Control'
    BY <1>1, <1>2 DEF Inv, Control
  <1> QED
    BY <1>1, <1>3, FlagsTypes, TablesUnmoved

LEMMA Flagged ==
    ASSUME NEW flags \in [Tables -> SUBSET Modules], NEW t \in Tables, NEW m \in Modules
    PROVE  /\ [flags EXCEPT ![t] = @ \cup {m}] \in [Tables -> SUBSET Modules]
           /\ [flags EXCEPT ![t] = @ \ {m}] \in [Tables -> SUBSET Modules]
  <1>1. flags[t] \cup {m} \in SUBSET Modules /\ flags[t] \ {m} \in SUBSET Modules
    OBVIOUS
  <1> QED
    BY <1>1

LEMMA EnterOK ==
    ASSUME Inv, NEW t \in Tables, NEW m \in Modules, Enter(t, m)
    PROVE  stack' \in Seq(Frame) /\ busy' \in [Tables -> SUBSET Modules]
  <1>1. busy' = [busy EXCEPT ![t] = @ \cup {m}] /\ stack' = Append(stack, NewFrame(t, m))
    BY DEF Enter
  <1>2. busy' \in [Tables -> SUBSET Modules]
    BY <1>1, Flagged, FlagsTypes
  <1>3. stack' \in Seq(Frame)
    BY <1>1, NewFrameOK, FlagsTypes, Pushed
  <1> QED
    BY <1>2, <1>3

LEMMA LoadTableOK ==
    ASSUME Inv, LoadTable
    PROVE  Inv'
  <1>1. /\ UNCHANGED <<program, importedNames, symbols>>
        /\ UNCHANGED <<query, answer, phase, error, lines>>
        /\ \/ /\ loaded' = [loaded EXCEPT ![query.table] = @ \cup {query.module}]
              /\ UNCHANGED <<busy, stack>>
           \/ Enter(query.table, query.module) /\ UNCHANGED loaded
    BY DEF LoadTable, asking
  <1>2. query.table \in Tables /\ query.module \in Modules
    BY FlagsTypes DEF Query
  <1>3. /\ loaded' \in [Tables -> SUBSET Modules] /\ busy' \in [Tables -> SUBSET Modules]
        /\ stack' \in Seq(Frame)
    BY <1>1, <1>2, Flagged, EnterOK, FlagsTypes
  <1>4. Control'
    BY <1>1, <1>3, ControlOK, FlagsTypes
  <1> QED
    BY <1>1, <1>3, <1>4, TablesUnmoved

LEMMA SkipImportOK ==
    ASSUME Inv, SkipImport
    PROVE  Inv'
  <1>1. /\ stack # <<>> /\ Onwards(Frm.specific)
        /\ UNCHANGED <<program, importedNames, symbols>> /\ UNCHANGED <<loaded, busy>>
        /\ UNCHANGED <<query, answer, phase, error, lines>>
    BY DEF SkipImport, Walking, tables, asking
  <1>2. Frm.specific \in SUBSET Names
    BY <1>1, FrameFacts DEF Frame
  <1>3. stack' \in Seq(Frame)
    BY <1>1, <1>2, OnwardsOK
  <1>4. Control'
    BY <1>1, <1>3, ControlOK, FlagsTypes
  <1> QED
    BY <1>1, <1>4, FlagsTypes, TablesUnmoved

LEMMA FetchedOneMoreOK ==
    ASSUME NEW r \in Frame, NEW k \in 0 .. 2
    PROVE  [r EXCEPT !.fetched = k] \in Frame
  <1> DEFINE counts == 0 .. 2
             sets == SUBSET Names
  <1>1. k \in counts
    OBVIOUS
  <1>2. Frame = [table : Tables, module : Modules, next : Nat \ {0}, fetched : counts, specific : sets]
    BY DEF Frame
  <1> HIDE DEF counts, sets
  <1> QED
    BY <1>1, <1>2

LEMMA FetchOK ==
    ASSUME Inv, Fetch
    PROVE  Inv'
  <1> DEFINE k == Frm.fetched + 1
             f == [Frm EXCEPT !.fetched = k]
             t == Needs(Imp)[k]
  <1>1. /\ stack # <<>> /\ Walking /\ Frm.fetched < Len(Needs(Imp))
        /\ UNCHANGED <<program, importedNames, symbols>> /\ UNCHANGED loaded
        /\ UNCHANGED <<query, answer, phase, error, lines>>
        /\ \/ SetFrame(f) /\ UNCHANGED busy
           \/ /\ busy' = [busy EXCEPT ![t] = @ \cup {Imp.from}]
              /\ stack' = Append(Append(Front(stack), f), NewFrame(t, Imp.from))
    BY DEF Fetch, Walking, asking
  <1>2. Frm \in Frame /\ Imp \in Imports
    BY <1>1, FrameFacts
  <1>3. Frm.fetched \in 0 .. 2 /\ Imp.from \in Modules /\ Imp.kind \in {"module", "star", "member"}
    BY <1>2 DEF Frame, Imports
  <1>4. k \in 0 .. 2 /\ t \in Tables
    <2>1. Imp.kind = "star" \/ Imp.kind = "member"
      BY <1>1, <1>3 DEF Needs
    <2>2. CASE Imp.kind = "star"
      BY <1>1, <1>3, <2>2 DEF Needs, Tables
    <2>3. CASE Imp.kind = "member"
      <3>1. Needs(Imp) = <<"public", "all">>
        BY <2>3 DEF Needs
      <3> QED
        BY <1>1, <1>3, <3>1 DEF Tables
    <2> QED
      BY <2>1, <2>2, <2>3
  <1> HIDE DEF k, t
  <1>5. f \in Frame
    BY <1>2, <1>4, FetchedOneMoreOK
  <1> HIDE DEF f
  <1>6. stack' \in Seq(Frame) /\ busy' \in [Tables -> SUBSET Modules]
    <2>1. CASE SetFrame(f) /\ UNCHANGED busy
      BY <1>1, <1>5, <2>1, SetFrameOK, FlagsTypes
    <2>2. CASE /\ busy' = [busy EXCEPT ![t] = @ \cup {Imp.from}]
               /\ stack' = Append(Append(Front(stack), f), NewFrame(t, Imp.from))
      <3>1. Append(Front(stack), f) \in Seq(Frame)
        BY <1>1, <1>5, FrameFacts, Pushed
      <3>2. NewFrame(t, Imp.from) \in Frame
        BY <1>3, <1>4, NewFrameOK
      <3> QED
        BY <1>3, <1>4, <2>2, <3>1, <3>2, Pushed, Flagged, FlagsTypes
    <2> QED
      BY <1>1, <2>1, <2>2
  <1>7. Control'
    BY <1>1, <1>6, ControlOK, FlagsTypes
  <1> QED
    BY <1>1, <1>6, <1>7, FlagsTypes, TablesUnmoved

LEMMA AddModuleNameOK ==
    ASSUME Inv, AddModuleName
    PROVE  Inv'
  <1> DEFINE specific == Frm.specific \cup ({Imp.as} \ {None})
  <1>1. /\ stack # <<>> /\ Walking
        /\ UNCHANGED <<program, importedNames, symbols>> /\ UNCHANGED <<loaded, busy>>
        /\ UNCHANGED <<query, answer, lines>>
        /\ Raise("importedAlready") \/ (Onwards(specific) /\ UNCHANGED <<phase, error>>)
    BY DEF AddModuleName, Fetched, Walking, tables, asking
  <1>2. Frm.specific \in SUBSET Names /\ Imp.as \in Names \cup {None}
    BY <1>1, FrameFacts DEF Frame, Imports
  <1>3. specific \in SUBSET Names
    BY <1>2
  <1> HIDE DEF specific
  <1>4. /\ stack' \in Seq(Frame)
        /\ phase' \in {"load", "idle", "lookup", "failed"} /\ error' \in Errors
    <2>1. "importedAlready" \in Errors
      BY DEF Errors
    <2> QED
      BY <1>1, <1>3, <2>1, RaiseOK, OnwardsOK, FlagsTypes
  <1>5. Control'
    BY <1>1, <1>4, ControlOK
  <1> QED
    BY <1>1, <1>5, FlagsTypes, TablesUnmoved

LEMMA LeaveOK ==
    ASSUME Inv, Leave
    PROVE  Inv'
  <1>1. /\ stack # <<>> /\ stack' = Front(stack)
        /\ UNCHANGED <<program, importedNames, symbols>>
        /\ UNCHANGED <<query, answer, phase, error, lines>>
        /\ busy' = [busy EXCEPT ![Frm.table] = @ \ {Frm.module}]
        /\ \/ loaded' = [loaded EXCEPT ![Frm.table] = @ \cup {Frm.module}]
           \/ UNCHANGED loaded
    BY DEF Leave, asking
  <1>2. Frm.table \in Tables /\ Frm.module \in Modules /\ stack' \in Seq(Frame)
    BY <1>1, FrameFacts DEF Frame
  <1>3. loaded' \in [Tables -> SUBSET Modules] /\ busy' \in [Tables -> SUBSET Modules]
    BY <1>1, <1>2, Flagged, FlagsTypes
  <1>4. Control'
    BY <1>1, <1>2, ControlOK, FlagsTypes
  <1> QED
    BY <1>1, <1>3, <1>4, TablesUnmoved

(***************************************************************************)
(* The theorems.                                                           *)
(***************************************************************************)
LEMMA NextInv == Inv /\ [Next]_vars => Inv'
  <1> SUFFICES ASSUME Inv, [Next]_vars PROVE Inv'
    OBVIOUS
  <1>1. CASE UNCHANGED vars
    BY <1>1 DEF vars, program, tables, asking, Inv, Declarations, TablesOK, Control,
                OnlyDeclared, PrivateStaysPrivate, ForcedFrom, ImportsOf
  <1>2. CASE LoadProgram
    BY <1>2, LoadProgramOK
  <1>3. CASE Answer
    BY <1>3, AnswerOK
  <1>4. CASE TryPrelude
    BY <1>4, TryPreludeOK
  <1>5. CASE LoadTable
    BY <1>5, LoadTableOK
  <1>6. CASE SkipImport
    BY <1>6, SkipImportOK
  <1>7. CASE Fetch
    BY <1>7, FetchOK
  <1>8. CASE AddModuleName
    BY <1>8, AddModuleNameOK
  <1>9. CASE AddStar
    BY <1>9, AddStarOK
  <1>10. CASE AddMember
    BY <1>10, AddMemberOK
  <1>11. CASE Leave
    BY <1>11, LeaveOK
  <1>12. ASSUME NEW q \in Asked, Lookup(q)
         PROVE  Inv'
    BY <1>12, LookupOK
  <1>13. ASSUME NEW line \in Lines, TypeImport(line)
         PROVE  Inv'
    BY <1>13, TypeImportOK
  <1>14. ASSUME NEW line \in Lines, TypeDefinition(line)
         PROVE  Inv'
    BY <1>14, TypeDefinitionOK
  <1> QED
    BY <1>1, <1>2, <1>3, <1>4, <1>5, <1>6, <1>7, <1>8, <1>9, <1>10, <1>11, <1>12, <1>13, <1>14
       DEF Next, Step, LoadStep

LEMMA SpecInv == Spec => []Inv
  BY InitInv, NextInv, PTL DEF Spec

(* Every variable keeps its type, whatever is imported, looked up or typed. *)
THEOREM SymbolTypeOK == Spec => []TypeOK
  BY SpecInv, InvTypeOK, PTL

(* A private global is seen from another module only if some module imports a
   member of its module with `private`: for any program, any chain of
   re-exports, any order of lookups, tables half built and lines typed later. *)
THEOREM SymbolPrivateStaysPrivate == Spec => []PrivateStaysPrivate
  <1>1. Inv => PrivateStaysPrivate
    BY DEF Inv
  <1> QED
    BY <1>1, SpecInv, PTL

(***************************************************************************)
(* The rules of import, as a fixed point.                                  *)
(***************************************************************************)
SymbolSets == [Tables -> [Modules -> [Names -> SUBSET Objects]]]

NoSymbols == [t \in Tables |-> [m \in Modules |-> [n \in Names |-> {}]]]

LEMMA ImportFields ==
    ASSUME Declarations, NEW m \in Modules, NEW i \in ImportsOf(m)
    PROVE  /\ i \in Imports /\ i.from \in Modules /\ i.kind \in {"module", "star", "member"}
           /\ i.as \in Names \cup {None}
           /\ i.kind = "member" => i.member \in Names /\ i.as \in Names /\ MemberTable(i) \in Tables
  <1>1. PICK k \in 1 .. Len(imports[m]) : i = imports[m][k]
    BY DEF ImportsOf
  <1>2. imports[m] \in Seq(Imports)
    BY DEF Declarations
  <1>3. i \in Imports
    BY <1>1, <1>2
  <1>4. i.kind = "member" => i.member \in Names /\ i.as \in Names
    BY <1>1 DEF Declarations
  <1>5. MemberTable(i) \in Tables
    BY DEF MemberTable, Tables
  <1>6. i.from \in Modules /\ i.kind \in {"module", "star", "member"} /\ i.as \in Names \cup {None}
    BY <1>3 DEF Imports
  <1> QED
    BY <1>3, <1>4, <1>5, <1>6

LEMMA AtFirstType ==
    ASSUME Declarations, NEW t \in Tables, NEW m \in Modules, NEW n \in Names
    PROVE  AtFirst(t, m, n) \in SUBSET Objects
  <1>1. NamedModules(t, m, n) \in SUBSET Objects
    BY ImportFields DEF NamedModules, Objects
  <1>2. <<m, n>> \in Objects
    BY DEF Objects
  <1> QED
    BY <1>1, <1>2 DEF AtFirst

(* The star imports that provide a name are imports of other modules. *)
LEMMA ProviderFields ==
    ASSUME Declarations, NEW t, NEW m \in Modules, NEW n
    PROVE  /\ StarsAhead(t, m, n) \subseteq ImportsOf(m)
           /\ \A i \in Providers(t, m, n) : i \in ImportsOf(m) /\ i.from \in Modules \ {m}
  <1>1. \A u : StarsAhead(u, m, n) \subseteq ImportsOf(m)
    BY DEF StarsAhead, ImportsOf
  <1>2. \A i \in Providers(t, m, n) : i \in ImportsOf(m) /\ i.from # m
    BY <1>1 DEF Providers
  <1> QED
    BY <1>1, <1>2, ImportFields

LEMMA ByImportsType ==
    ASSUME Declarations, NEW R \in SymbolSets, NEW t \in Tables, NEW m \in Modules, NEW n \in Names
    PROVE  ByImports(R, t, m, n) \in SUBSET Objects
  <1> DEFINE members == UNION {R[MemberTable(i)][i.from][i.member] : i \in Eligible(t, m, n, "member")}
             stars == UNION {R["public"][i.from][n] : i \in Providers(t, m, n)}
  <1>1. members \in SUBSET Objects
    <2>1. ASSUME NEW i \in Eligible(t, m, n, "member")
          PROVE  R[MemberTable(i)][i.from][i.member] \in SUBSET Objects
      <3>1. MemberTable(i) \in Tables /\ i.from \in Modules /\ i.member \in Names
        BY ImportFields DEF Eligible
      <3> QED
        BY <3>1 DEF SymbolSets
    <2> QED
      BY <2>1
  <1>2. stars \in SUBSET Objects
    <2>1. ASSUME NEW i \in Providers(t, m, n)
          PROVE  R["public"][i.from][n] \in SUBSET Objects
      <3>1. "public" \in Tables /\ i.from \in Modules
        BY ProviderFields DEF Tables
      <3> QED
        BY <3>1 DEF SymbolSets
    <2> QED
      BY <2>1
  <1>3. ByImports(R, t, m, n) \in {AtFirst(t, m, n), members, NamedModules(t, m, n) \cup stars}
    BY DEF ByImports
  <1>4. NamedModules(t, m, n) \in SUBSET Objects
    BY ImportFields DEF NamedModules, Objects
  <1> HIDE DEF members, stars
  <1> QED
    BY <1>1, <1>2, <1>3, <1>4, AtFirstType

LEMMA OneMoreImportType ==
    ASSUME Declarations, NEW R \in SymbolSets
    PROVE  OneMoreImport(R) \in SymbolSets
  BY ByImportsType DEF OneMoreImport, SymbolSets

ResolveEquations ==
    /\ Resolve[0] = NoSymbols
    /\ \A k \in Nat : Resolve[k] \in SymbolSets /\ Resolve[k + 1] = OneMoreImport(Resolve[k])

(* Resolve is defined by recursion over the length of a chain. *)
LEMMA ResolveFollows == Declarations => ResolveEquations
  <1> SUFFICES ASSUME Declarations PROVE ResolveEquations
    OBVIOUS
  <1> DEFINE S == SymbolSets
             step == [n \in Nat |-> [X \in S |-> OneMoreImport(X)]]
             Follows(w) == w = [k \in Nat |-> IF k = 0 THEN NoSymbols ELSE OneMoreImport(w[k - 1])]
             resolve == CHOOSE w : Follows(w)
  <1>1. NoSymbols \in S /\ step \in [Nat -> [S -> S]]
    <2>1. \A X \in S : OneMoreImport(X) \in S
      BY OneMoreImportType
    <2>2. NoSymbols \in S
      BY DEF NoSymbols, SymbolSets
    <2> HIDE DEF S
    <2> QED
      BY <2>1, <2>2
  <1>2. PICK w \in [Nat -> S] : w[0] = NoSymbols /\ \A n \in Nat : w[n + 1] = step[n + 1][w[n]]
    <2> DEFINE Recursion(U) == \A a \in U : \A next \in [Nat -> [U -> U]] :
                 \E f \in [Nat -> U] : f[0] = a /\ \A n \in Nat : f[n + 1] = next[n + 1][f[n]]
    <2>1. \A U : Recursion(U)
      BY PrimitiveRecursion
    <2> HIDE DEF Recursion
    <2>2. Recursion(S)
      BY <2>1
    <2> USE DEF Recursion
    <2> HIDE DEF step, S
    <2>3. \E w \in [Nat -> S] : w[0] = NoSymbols /\ \A n \in Nat : w[n + 1] = step[n + 1][w[n]]
      BY <1>1, <2>2
    <2> QED
      BY <2>3
  <1> HIDE DEF S
  <1>3. ASSUME NEW n \in Nat PROVE w[n] = IF n = 0 THEN NoSymbols ELSE OneMoreImport(w[n - 1])
    <2>1. n # 0 => n - 1 \in Nat /\ n - 1 + 1 = n /\ w[n - 1] \in S
      BY <1>2
    <2>2. n # 0 => w[n] = step[n][w[n - 1]]
      BY <1>2, <2>1
    <2>3. n # 0 => step[n][w[n - 1]] = OneMoreImport(w[n - 1])
      BY <2>1
    <2> QED
      BY <1>2, <2>2, <2>3
  <1>4. w = [n \in Nat |-> IF n = 0 THEN NoSymbols ELSE OneMoreImport(w[n - 1])]
    BY <1>2, <1>3
  <1>5. Follows(resolve)
    BY <1>4, Zenon
  <1>6. Resolve = resolve
    BY DEF Resolve, NoSymbols
  <1> HIDE DEF resolve
  <1>7. Resolve[0] = NoSymbols
    BY <1>5, <1>6
  <1>8. ASSUME NEW n \in Nat PROVE Resolve[n + 1] = OneMoreImport(Resolve[n])
    <2>1. n + 1 \in Nat /\ n + 1 # 0 /\ n + 1 - 1 = n
      OBVIOUS
    <2> QED
      BY <1>5, <1>6, <2>1
  <1>9. \A n \in Nat : Resolve[n] \in SymbolSets
    <2> DEFINE T == {n \in Nat : Resolve[n] \in SymbolSets}
    <2>1. 0 \in T
      BY <1>1, <1>7 DEF S
    <2>2. \A n \in Nat : n \in T => n + 1 \in T
      BY <1>8, OneMoreImportType
    <2> HIDE DEF T
    <2>3. \A n \in Nat : n \in T
      BY <2>1, <2>2, Induction
    <2> QED
      BY <2>3 DEF T
  <1> QED
    BY <1>7, <1>8, <1>9 DEF ResolveEquations

LEMMA ResolveFollowsNext == Declarations' => ResolveEquations'
  BY ResolveFollows, PTL

(* What imports lead to in a set of modules that neither change nor lead elsewhere. *)
Kept(S) ==
    /\ S \in SUBSET Modules
    /\ \A m \in S : \A i \in ImportsOf(m) : i.from \in S
    /\ \A m \in S : imports'[m] = imports[m] /\ globals'[m] = globals[m]

LEMMA DeclarationsKept ==
    ASSUME NEW S, Kept(S), NEW t \in Tables, NEW m \in S, NEW n \in Names
    PROVE  /\ ImportsOf(m)' = ImportsOf(m)
           /\ Globals(m)' = Globals(m)
           /\ NamedModules(t, m, n)' = NamedModules(t, m, n)
           /\ AtFirst(t, m, n)' = AtFirst(t, m, n)
           /\ \A kind : Eligible(t, m, n, kind)' = Eligible(t, m, n, kind)
           /\ \A u : StarsAhead(u, m, n)' = StarsAhead(u, m, n)
           /\ Providers(t, m, n)' = Providers(t, m, n)
  <1>1. imports'[m] = imports[m] /\ globals'[m] = globals[m]
    BY DEF Kept
  <1>2. ImportsOf(m)' = ImportsOf(m)
    BY <1>1 DEF ImportsOf
  <1>3. Globals(m)' = Globals(m)
    BY <1>1 DEF Globals
  <1>4. NamedModules(t, m, n)' = NamedModules(t, m, n)
    BY <1>2 DEF NamedModules
  <1>5. AtFirst(t, m, n)' = AtFirst(t, m, n)
    BY <1>1, <1>3, <1>4 DEF AtFirst
  <1>6. ASSUME NEW kind, NEW u PROVE Eligible(u, m, n, kind)' = Eligible(u, m, n, kind)
    BY <1>2 DEF Eligible
  <1>7. ASSUME NEW u PROVE StarsAhead(u, m, n)' = StarsAhead(u, m, n)
    <2>1. Eligible(u, m, n, "module")' = Eligible(u, m, n, "module")
      BY <1>6
    <2> QED
      BY <1>1, <2>1 DEF StarsAhead
  <1>8. Providers(t, m, n)' = Providers(t, m, n)
    <2>1. StarsAhead(t, m, n)' = StarsAhead(t, m, n) /\ StarsAhead("public", m, n)' = StarsAhead("public", m, n)
      BY <1>7
    <2> QED
      BY <2>1 DEF Providers
  <1> QED
    BY <1>2, <1>3, <1>4, <1>5, <1>6, <1>7, <1>8

LEMMA RulesKept ==
    ASSUME Declarations, Declarations', NEW S, Kept(S)
    PROVE  \A t \in Tables : \A m \in S : \A n \in Names : ByTheRules(t, m, n)' = ByTheRules(t, m, n)
  <1> DEFINE Same(k) == \A t \in Tables : \A m \in S : \A n \in Names :
                            Resolve'[k][t][m][n] = Resolve[k][t][m][n]
             T == {k \in Nat : Same(k)}
  <1>1. S \in SUBSET Modules /\ \A m \in S : \A i \in ImportsOf(m) : i.from \in S
    BY DEF Kept
  <1>2. ResolveEquations /\ ResolveEquations'
    BY ResolveFollows, ResolveFollowsNext
  <1>3. 0 \in T
    <2>1. Resolve[0] = NoSymbols /\ Resolve'[0] = NoSymbols
      BY <1>2 DEF ResolveEquations, NoSymbols
    <2> QED
      BY <2>1
  <1>4. ASSUME NEW k \in Nat, k \in T PROVE k + 1 \in T
    <2> DEFINE R == Resolve[k]
               Q == Resolve'[k]
    <2>1. Resolve[k + 1] = OneMoreImport(R) /\ Resolve'[k + 1] = OneMoreImport(R)'
      BY <1>2 DEF ResolveEquations
    <2>2. Same(k)
      BY <1>4
    <2>3. ASSUME NEW t \in Tables, NEW m \in S, NEW n \in Names
          PROVE  Resolve'[k + 1][t][m][n] = Resolve[k + 1][t][m][n]
      <3>1. m \in Modules
        BY <1>1
      <3>2. Resolve[k + 1][t][m][n] = ByImports(R, t, m, n)
        BY <2>1, <3>1 DEF OneMoreImport
      <3>3. Resolve'[k + 1][t][m][n] = ByImports(R, t, m, n)'
        BY <2>1, <3>1 DEF OneMoreImport
      <3>4. /\ Globals(m)' = Globals(m)
            /\ NamedModules(t, m, n)' = NamedModules(t, m, n)
            /\ AtFirst(t, m, n)' = AtFirst(t, m, n)
            /\ Eligible(t, m, n, "member")' = Eligible(t, m, n, "member")
            /\ Providers(t, m, n)' = Providers(t, m, n)
        BY DeclarationsKept
      <3>5. ASSUME NEW i \in Eligible(t, m, n, "member")
            PROVE  Q[MemberTable(i)][i.from][i.member] = R[MemberTable(i)][i.from][i.member]
        <4>1. i.from \in S /\ MemberTable(i) \in Tables /\ i.member \in Names
          BY <1>1, <3>1, ImportFields DEF Eligible
        <4> QED
          BY <2>2, <4>1
      <3>6. ASSUME NEW i \in Providers(t, m, n)
            PROVE  Q["public"][i.from][n] = R["public"][i.from][n]
        <4>1. i.from \in S /\ "public" \in Tables
          BY <1>1, <3>1, ProviderFields DEF Tables
        <4> QED
          BY <2>2, <4>1
      <3> HIDE DEF R, Q, Same
      <3>7. {Q[MemberTable(i)][i.from][i.member] : i \in Eligible(t, m, n, "member")}
              = {R[MemberTable(i)][i.from][i.member] : i \in Eligible(t, m, n, "member")}
        BY <3>5
      <3>8. {Q["public"][i.from][n] : i \in Providers(t, m, n)}
              = {R["public"][i.from][n] : i \in Providers(t, m, n)}
        BY <3>6
      <3>9. ByImports(R, t, m, n)' = ByImports(R, t, m, n)
        <4>1. R' = Q
          BY DEF R, Q
        <4>2. {R[MemberTable(i)][i.from][i.member] : i \in Eligible(t, m, n, "member")}'
                = {R[MemberTable(i)][i.from][i.member] : i \in Eligible(t, m, n, "member")}
          BY <3>4, <3>7, <4>1
        <4>3. {R["public"][i.from][n] : i \in Providers(t, m, n)}'
                = {R["public"][i.from][n] : i \in Providers(t, m, n)}
          BY <3>4, <3>8, <4>1
        <4> QED
          BY <3>4, <4>2, <4>3 DEF ByImports
      <3> QED
        BY <3>2, <3>3, <3>9
    <2> QED
      BY <2>3
  <1> HIDE DEF T
  <1>5. \A k \in Nat : k \in T
    BY <1>3, <1>4, Induction
  <1>6. Cardinality(Modules) \in Nat
    BY FiniteAssumption, FS_CardinalityType
  <1> QED
    BY <1>5, <1>6 DEF T, ByTheRules

(* The modules that import, besides themselves, only what is in X. *)
OnlyFrom(X) == {m \in Modules : \A i \in ImportsOf(m) : i.from \in X \cup {m}}

(* The modules in layers, each importing from those below only. *)
Layers(h) ==
    /\ h \in [Nat -> SUBSET Modules]
    /\ h[0] = {}
    /\ \A k \in Nat : h[k + 1] = OnlyFrom(h[k])

LEMMA LayersExist == \E h : Layers(h)
  <1> DEFINE S == SUBSET Modules
             step == [n \in Nat |-> [X \in S |-> OnlyFrom(X)]]
             Recursion(U) == \A a \in U : \A next \in [Nat -> [U -> U]] :
                 \E f \in [Nat -> U] : f[0] = a /\ \A n \in Nat : f[n + 1] = next[n + 1][f[n]]
  <1>1. \A U : Recursion(U)
    BY PrimitiveRecursion
  <1> HIDE DEF Recursion
  <1>2. Recursion(S)
    BY <1>1
  <1>3. {} \in S /\ step \in [Nat -> [S -> S]]
    BY DEF OnlyFrom
  <1> USE DEF Recursion
  <1> HIDE DEF step, S
  <1>4. PICK h \in [Nat -> S] : h[0] = {} /\ \A n \in Nat : h[n + 1] = step[n + 1][h[n]]
    BY <1>2, <1>3
  <1>5. ASSUME NEW n \in Nat PROVE h[n + 1] = OnlyFrom(h[n])
    <2>1. h[n] \in S /\ n + 1 \in Nat
      BY <1>4
    <2>2. step[n + 1][h[n]] = OnlyFrom(h[n])
      BY <2>1 DEF step
    <2> QED
      BY <1>4, <2>2
  <1> QED
    BY <1>4, <1>5 DEF Layers, S

(* An import graph without loops has as many layers at most as there are modules. *)
LEMMA LayersEnd ==
    ASSUME Declarations, Acyclic, NEW h, Layers(h)
    PROVE  h[Cardinality(Modules)] = Modules
  <1> DEFINE N == Cardinality(Modules)
             T == {k \in Nat : h[k] \subseteq h[k + 1]}
  <1>1. N \in Nat
    BY FiniteAssumption, FS_CardinalityType
  <1>2. /\ h \in [Nat -> SUBSET Modules] /\ h[0] = {}
        /\ \A k \in Nat : h[k + 1] = OnlyFrom(h[k])
    BY DEF Layers
  <1>3. \A k \in Nat : k \in T
    <2>1. 0 \in T
      BY <1>2
    <2>2. ASSUME NEW k \in Nat, k \in T PROVE k + 1 \in T
      <3>1. h[k] \subseteq h[k + 1] /\ k + 1 \in Nat
        BY <2>2
      <3>2. h[k + 1] = OnlyFrom(h[k]) /\ h[k + 1 + 1] = OnlyFrom(h[k + 1])
        BY <1>2, <3>1
      <3>3. OnlyFrom(h[k]) \subseteq OnlyFrom(h[k + 1])
        BY <3>1 DEF OnlyFrom
      <3> QED
        BY <3>1, <3>2, <3>3
    <2> HIDE DEF T
    <2> QED
      BY <2>1, <2>2, Induction
  <1>4. h[N + 1] = h[N]
    <2>1. \A k \in Nat : h[k] \subseteq h[k + 1]
      BY <1>3
    <2>2. \A k \in Nat : h[k + 1] = h[k] => h[k + 1 + 1] = h[k + 1]
      BY <1>2
    <2>3. IsFiniteSet(Modules) /\ h \in [Nat -> SUBSET Modules]
      BY <1>2, FiniteAssumption
    <2> QED
      BY <2>1, <2>2, <2>3, ChainStops
  <1> HIDE DEF N
  <1>5. h[N] \in SUBSET Modules /\ h[N] = OnlyFrom(h[N])
    BY <1>1, <1>2, <1>4
  <1>6. SUFFICES ASSUME Modules \ h[N] # {} PROVE FALSE
    BY <1>5 DEF N
  <1> DEFINE rest == Modules \ h[N]
  <1>7. PICK m \in rest : \A i \in ImportsOf(m) : i.from \notin rest \ {m}
    <2>1. rest \in SUBSET Modules /\ rest # {}
      BY <1>6
    <2> HIDE DEF rest
    <2> QED
      BY <2>1 DEF Acyclic
  <1>8. \A i \in ImportsOf(m) : i.from \in h[N] \cup {m}
    BY <1>7, ImportFields
  <1> QED
    BY <1>5, <1>7, <1>8 DEF OnlyFrom

(* The rules give a name what its imports have by the rules. *)
LEMMA RulesFollowImports ==
    ASSUME Declarations, Acyclic, NoMembersOfItself, NEW t \in Tables, NEW m \in Modules, NEW n \in Names
    PROVE  ByTheRules(t, m, n) = ByImports(Resolve[Cardinality(Modules)], t, m, n)
  <1>1. PICK h : Layers(h)
    BY LayersExist
  <1> DEFINE Stable(k) == \A u \in Tables : \A l \in h[k] : \A x \in Names :
                             Resolve[k + 1][u][l][x] = Resolve[k][u][l][x]
             T == {k \in Nat : Stable(k)}
             N == Cardinality(Modules)
  <1>2. /\ h \in [Nat -> SUBSET Modules] /\ h[0] = {}
        /\ \A k \in Nat : h[k + 1] = OnlyFrom(h[k])
    BY <1>1 DEF Layers
  <1>3. ResolveEquations
    BY ResolveFollows
  <1>4. 0 \in T
    BY <1>2
  <1>5. ASSUME NEW k \in Nat, k \in T PROVE k + 1 \in T
    <2> DEFINE R == Resolve[k]
               Q == Resolve[k + 1]
    <2>1. /\ k + 1 \in Nat
          /\ Q = OneMoreImport(R) /\ Resolve[k + 1 + 1] = OneMoreImport(Q)
      BY <1>3 DEF ResolveEquations
    <2>2. ASSUME NEW u \in Tables, NEW l \in h[k], NEW x \in Names
          PROVE  Q[u][l][x] = R[u][l][x]
      BY <1>5
    <2>3. ASSUME NEW u \in Tables, NEW l \in h[k + 1], NEW x \in Names
          PROVE  Resolve[k + 1 + 1][u][l][x] = Q[u][l][x]
      <3> HIDE DEF R, Q
      <3>1. l \in Modules /\ \A i \in ImportsOf(l) : i.from \in h[k] \cup {l}
        BY <1>2 DEF OnlyFrom
      <3>2. Q[u][l][x] = ByImports(R, u, l, x) /\ Resolve[k + 1 + 1][u][l][x] = ByImports(Q, u, l, x)
        BY <2>1, <3>1 DEF OneMoreImport
      <3>3. ASSUME NEW i \in Eligible(u, l, x, "member")
            PROVE  Q[MemberTable(i)][i.from][i.member] = R[MemberTable(i)][i.from][i.member]
        <4>1. i \in ImportsOf(l) /\ i.kind = "member"
          BY DEF Eligible
        <4>2. i.from \in h[k] /\ MemberTable(i) \in Tables /\ i.member \in Names
          BY <3>1, <4>1, ImportFields DEF NoMembersOfItself
        <4> QED
          BY <2>2, <4>2
      <3>4. ASSUME NEW i \in Providers(u, l, x)
            PROVE  Q["public"][i.from][x] = R["public"][i.from][x]
        <4>1. i.from \in h[k] /\ "public" \in Tables
          BY <3>1, ProviderFields DEF Tables
        <4> QED
          BY <2>2, <4>1
      <3>5. {Q[MemberTable(i)][i.from][i.member] : i \in Eligible(u, l, x, "member")}
              = {R[MemberTable(i)][i.from][i.member] : i \in Eligible(u, l, x, "member")}
        BY <3>3
      <3>6. {Q["public"][i.from][x] : i \in Providers(u, l, x)}
              = {R["public"][i.from][x] : i \in Providers(u, l, x)}
        BY <3>4
      <3> QED
        BY <3>2, <3>5, <3>6 DEF ByImports
    <2> HIDE DEF R, Q
    <2>4. Stable(k + 1)
      BY <2>3 DEF Q
    <2> QED
      BY <2>1, <2>4
  <1> HIDE DEF T
  <1>6. \A k \in Nat : k \in T
    BY <1>4, <1>5, Induction
  <1>7. N \in Nat
    BY FiniteAssumption, FS_CardinalityType
  <1>8. h[N] = Modules
    BY <1>1, LayersEnd
  <1>9. Resolve[N + 1][t][m][n] = Resolve[N][t][m][n]
    BY <1>6, <1>7, <1>8 DEF T
  <1>10. Resolve[N + 1][t][m][n] = ByImports(Resolve[N], t, m, n)
    <2> DEFINE R == Resolve[N]
    <2>1. Resolve[N + 1] = OneMoreImport(R)
      BY <1>3, <1>7 DEF ResolveEquations
    <2> HIDE DEF R
    <2>2. Resolve[N + 1][t][m][n] = ByImports(R, t, m, n)
      BY <2>1 DEF OneMoreImport
    <2> QED
      BY <2>2 DEF R
  <1> QED
    BY <1>9, <1>10 DEF ByTheRules

(* The premises of TablesFollowRules that speak of the program alone. *)
Orderly == Acyclic /\ NoMembersOfItself

LEMMA EligibleImports ==
    ASSUME NEW t, NEW m, NEW n, NEW kind, NEW i
    PROVE  i \in Eligible(t, m, n, kind)
             <=> i \in ImportsOf(m) /\ i.kind = kind /\ InTable(t, i.visible) /\ i.as = n
  BY DEF Eligible

LEMMA NamedImports ==
    ASSUME NEW t, NEW m, NEW n
    PROVE  NamedModules(t, m, n) # {}
             <=> \E i \in ImportsOf(m) : i.kind = "module" /\ i.as = n /\ InTable(t, i.visible)
  BY DEF NamedModules

(* The three ways in which a name has a meaning. *)
LEMMA RulesOfOwn ==
    ASSUME Declarations, Orderly, NEW t \in Tables, NEW m \in Modules, NEW n \in Names, n \in Globals(m)
    PROVE  ByTheRules(t, m, n) = AtFirst(t, m, n)
  BY RulesFollowImports DEF Orderly, ByImports

LEMMA RulesOfMember ==
    ASSUME Declarations, Orderly, NEW t \in Tables, NEW m \in Modules, NEW n \in Names,
           n \notin Globals(m), NEW i, Eligible(t, m, n, "member") = {i}
    PROVE  ByTheRules(t, m, n) = ByTheRules(MemberTable(i), i.from, i.member)
  <1> DEFINE R == Resolve[Cardinality(Modules)]
             object(j) == R[MemberTable(j)][j.from][j.member]
  <1>1. ByTheRules(t, m, n) = ByImports(R, t, m, n)
    BY RulesFollowImports DEF Orderly
  <1>2. ByImports(R, t, m, n) = UNION {object(j) : j \in {i}}
    BY DEF ByImports
  <1>3. UNION {object(j) : j \in {i}} = object(i)
    <2> HIDE DEF object
    <2> QED
      OBVIOUS
  <1> QED
    BY <1>1, <1>2, <1>3 DEF ByTheRules

LEMMA RulesOfStars ==
    ASSUME Declarations, Orderly, NEW t \in Tables, NEW m \in Modules, NEW n \in Names,
           n \notin Globals(m), Eligible(t, m, n, "member") = {}
    PROVE  \A o : o \in ByTheRules(t, m, n)
                    <=> \/ o \in NamedModules(t, m, n)
                        \/ \E i \in Providers(t, m, n) : o \in ByTheRules("public", i.from, n)
  <1> DEFINE R == Resolve[Cardinality(Modules)]
             objects(i) == R["public"][i.from][n]
  <1>1. ByTheRules(t, m, n) = ByImports(R, t, m, n)
    BY RulesFollowImports DEF Orderly
  <1>2. ByImports(R, t, m, n) = NamedModules(t, m, n) \cup UNION {objects(i) : i \in Providers(t, m, n)}
    BY DEF ByImports
  <1>3. \A i : objects(i) = ByTheRules("public", i.from, n)
    BY DEF ByTheRules
  <1> HIDE DEF objects
  <1> QED
    BY <1>1, <1>2, <1>3

LEMMA PublicEligible ==
    ASSUME NEW t \in Tables, NEW m, NEW n
    PROVE  /\ \A kind : Eligible("public", m, n, kind) \subseteq Eligible(t, m, n, kind)
           /\ NamedModules("public", m, n) \subseteq NamedModules(t, m, n)
  <1>1. \A v : InTable("public", v) => InTable(t, v)
    BY DEF InTable, Tables
  <1> QED
    BY <1>1 DEF Eligible, NamedModules

(* What a star import that may still add to a name gives: of another module, and of
   the module itself to the table that is not the public one. *)
Gives(i, t, m) == i.from # m \/ t = "all"

(* Such an import gives nothing that the rules do not. *)
LEMMA StarWithin ==
    ASSUME Declarations, Orderly, NEW t \in Tables, NEW m \in Modules, NEW n \in Names,
           n \notin Globals(m), Eligible(t, m, n, "member") = {},
           NEW i \in StarsAhead(t, m, n), Gives(i, t, m)
    PROVE  ByTheRules("public", i.from, n) \subseteq ByTheRules(t, m, n)
  <1>1. CASE i.from # m
    <2>1. i \in Providers(t, m, n)
      BY <1>1 DEF Providers
    <2> QED
      BY <2>1, RulesOfStars
  <1>2. CASE i.from = m
    <2>1. \A j \in Providers("public", m, n) : j \in Providers(t, m, n)
      BY <1>2 DEF Providers
    <2>2. "public" \in Tables /\ Eligible("public", m, n, "member") = {}
      BY PublicEligible DEF Tables
    <2>3. NamedModules("public", m, n) \subseteq NamedModules(t, m, n)
      BY PublicEligible
    <2>4. ByTheRules("public", m, n) \subseteq ByTheRules(t, m, n)
      BY <2>1, <2>2, <2>3, RulesOfStars
    <2> QED
      BY <1>2, <2>4
  <1> QED
    BY <1>1, <1>2

(* And together such imports give all that the rules do. *)
LEMMA StarsTogether ==
    ASSUME Declarations, Orderly, NEW t \in Tables, NEW m \in Modules, NEW n \in Names,
           n \notin Globals(m), Eligible(t, m, n, "member") = {},
           NEW S, NamedModules(t, m, n) \subseteq S,
           \A i \in StarsAhead(t, m, n) : Gives(i, t, m) => ByTheRules("public", i.from, n) \subseteq S
    PROVE  ByTheRules(t, m, n) \subseteq S
  <1>1. ASSUME NEW i \in Providers(t, m, n) PROVE ByTheRules("public", i.from, n) \subseteq S
    <2>1. i.from # m
      BY ProviderFields
    <2>2. CASE i \in StarsAhead(t, m, n)
      BY <2>1, <2>2 DEF Gives
    <2>3. CASE i \notin StarsAhead(t, m, n)
      <3>1. PICK j \in StarsAhead(t, m, n) : j.from = m /\ i \in StarsAhead("public", m, n)
        BY <2>3 DEF Providers
      <3>2. t = "all"
        BY <2>3, <3>1 DEF Tables
      <3>3. ByTheRules("public", m, n) \subseteq S
        BY <3>1, <3>2 DEF Gives
      <3>4. i \in Providers("public", m, n)
        BY <2>1, <3>1 DEF Providers
      <3>5. "public" \in Tables /\ Eligible("public", m, n, "member") = {}
        BY PublicEligible DEF Tables
      <3>6. ByTheRules("public", i.from, n) \subseteq ByTheRules("public", m, n)
        BY <3>4, <3>5, RulesOfStars
      <3> QED
        BY <3>3, <3>6
    <2> QED
      BY <2>2, <2>3
  <1> QED
    BY <1>1, RulesOfStars

(* A module that passes loadDependent has one import at most under each name. *)
LEMMA OneImportPerName ==
    ASSUME Declarations, NEW m \in Modules, ~ImportedTwice(m),
           NEW i \in ImportsOf(m), NEW j \in ImportsOf(m),
           i.kind # "star", j.kind # "star", i.as # None, i.as = j.as
    PROVE  i = j
  <1>1. PICK k \in 1 .. Len(imports[m]) : i = imports[m][k]
    BY DEF ImportsOf
  <1>2. PICK l \in 1 .. Len(imports[m]) : j = imports[m][l]
    BY DEF ImportsOf
  <1>3. imports[m] \in Seq(Imports)
    BY DEF Declarations
  <1>4. k \in Int /\ l \in Int
    BY <1>3
  <1>5. k < l \/ l < k \/ k = l
    BY <1>4
  <1>6. ~(k < l) /\ ~(l < k)
    BY <1>1, <1>2 DEF ImportedTwice
  <1> QED
    BY <1>1, <1>2, <1>5, <1>6

LEMMA MemberAlone ==
    ASSUME Declarations, NEW t \in Tables, NEW m \in Modules, ~ImportedTwice(m),
           NEW i \in ImportsOf(m), i.kind = "member", InTable(t, i.visible)
    PROVE  Eligible(t, m, i.as, "member") = {i} /\ NamedModules(t, m, i.as) = {}
  <1>1. i.as # None
    BY ImportFields, SymbolAssumption
  <1>2. \A j \in ImportsOf(m) : j.kind # "star" /\ j.as = i.as => j = i
    BY <1>1, OneImportPerName
  <1>3. \A j \in Eligible(t, m, i.as, "member") : j = i
    BY <1>2, EligibleImports
  <1>4. i \in Eligible(t, m, i.as, "member")
    BY EligibleImports
  <1>5. NamedModules(t, m, i.as) = {}
    BY <1>2, NamedImports
  <1> QED
    BY <1>3, <1>4, <1>5

(***************************************************************************)
(* A table that is being loaded.                                           *)
(***************************************************************************)
(* The imports that a walk has passed and considered when it is at the k-th. *)
Passed(t, m, k) ==
    {imports[m][j] : j \in {l \in 1 .. Len(imports[m]) : l < k /\ InTable(t, imports[m][l].visible)}}

(* What such a table, s, has for a name: all of a global and of a name imported
   specifically; of a name that no member is imported under, the modules that are, at
   least what the star imports so far provide and at most what all of them do. *)
MergedName(s, t, m, k, specific, n) ==
    /\ n \in Globals(m) => s[n] = AtFirst(t, m, n)
    /\ n \notin Globals(m) =>
          /\ \A i \in Passed(t, m, k) : i.kind # "star" /\ i.as = n => n \in specific
          /\ n \in specific => s[n] = ByTheRules(t, m, n)
          /\ Eligible(t, m, n, "member") = {} =>
                /\ NamedModules(t, m, n) \subseteq s[n]
                /\ s[n] \subseteq ByTheRules(t, m, n)
                /\ \A i \in Passed(t, m, k) \cap StarsAhead(t, m, n) :
                      Gives(i, t, m) => ByTheRules("public", i.from, n) \subseteq s[n]

Merged(s, t, m, k, specific) == \A n \in Names : MergedName(s, t, m, k, specific, n)

Done(t, m) == \A n \in Names : symbols[t][m][n] = ByTheRules(t, m, n)
Untouched(t, m) == \A n \in Names : symbols[t][m][n] = AtFirst(t, m, n)

LEMMA PassedImports ==
    ASSUME Declarations, NEW t \in Tables, NEW m \in Modules, NEW k \in Nat \ {0}
    PROVE  /\ Passed(t, m, 1) = {}
           /\ Passed(t, m, k) \subseteq ImportsOf(m)
           /\ k <= Len(imports[m]) =>
                \A i : i \in Passed(t, m, k + 1)
                   <=> i \in Passed(t, m, k) \/ (i = imports[m][k] /\ InTable(t, i.visible))
           /\ k > Len(imports[m]) => \A i \in ImportsOf(m) : InTable(t, i.visible) => i \in Passed(t, m, k)
  <1>1. Len(imports[m]) \in Nat
    BY DEF Declarations
  <1>2. \A i, l : i \in Passed(t, m, l)
           <=> \E j \in 1 .. Len(imports[m]) : j < l /\ i = imports[m][j] /\ InTable(t, i.visible)
    BY DEF Passed
  <1>3. \A i : i \in ImportsOf(m) <=> \E j \in 1 .. Len(imports[m]) : i = imports[m][j]
    BY DEF ImportsOf
  <1>4. Passed(t, m, 1) = {}
    <2>1. \A j \in 1 .. Len(imports[m]) : ~(j < 1)
      BY <1>1
    <2> QED
      BY <1>2, <2>1
  <1>5. ASSUME k <= Len(imports[m]), NEW i
        PROVE  i \in Passed(t, m, k + 1)
                  <=> i \in Passed(t, m, k) \/ (i = imports[m][k] /\ InTable(t, i.visible))
    <2>1. \A j \in 1 .. Len(imports[m]) : j < k + 1 <=> j < k \/ j = k
      BY <1>1
    <2>2. k \in 1 .. Len(imports[m])
      BY <1>1, <1>5
    <2> QED
      BY <1>2, <2>1, <2>2
  <1>6. ASSUME k > Len(imports[m]), NEW i \in ImportsOf(m), InTable(t, i.visible)
        PROVE  i \in Passed(t, m, k)
    <2>1. \A j \in 1 .. Len(imports[m]) : j < k
      BY <1>1, <1>6
    <2> QED
      BY <1>2, <1>3, <1>6, <2>1
  <1> QED
    BY <1>2, <1>3, <1>4, <1>5, <1>6

LEMMA ModuleAlone ==
    ASSUME Declarations, NEW t \in Tables, NEW m \in Modules, ~ImportedTwice(m), NEW n \in Names,
           NamedModules(t, m, n) # {}
    PROVE  Eligible(t, m, n, "member") = {}
  <1>1. PICK i \in ImportsOf(m) : i.kind = "module" /\ i.as = n /\ InTable(t, i.visible)
    BY NamedImports
  <1>2. n # None
    BY SymbolAssumption
  <1>3. \A j \in ImportsOf(m) : j.kind # "star" /\ j.as = n => j = i
    BY <1>1, <1>2, OneImportPerName
  <1> QED
    BY <1>1, <1>3, EligibleImports

LEMMA OnlyStarsAhead ==
    ASSUME NEW t, NEW m, NEW n, NEW i \in StarsAhead(t, m, n)
    PROVE  i.kind = "star"
  BY DEF StarsAhead

(* A walk begins on a table as loadDependent left it, or on one that was loaded in
   passing before and is not known to be. *)
LEMMA EnterMerged ==
    ASSUME Declarations, Orderly, NEW t \in Tables, NEW m \in Modules, ~ImportedTwice(m),
           Done(t, m) \/ Untouched(t, m)
    PROVE  Merged(symbols[t][m], t, m, 1, {})
  <1> SUFFICES ASSUME NEW n \in Names PROVE MergedName(symbols[t][m], t, m, 1, {}, n)
    BY DEF Merged
  <1>1. Passed(t, m, 1) = {}
    BY PassedImports
  <1>2. n \in Globals(m) => ByTheRules(t, m, n) = AtFirst(t, m, n)
    BY RulesOfOwn
  <1>3. n \notin Globals(m) => AtFirst(t, m, n) = NamedModules(t, m, n)
    BY DEF AtFirst
  <1>4. n \notin Globals(m) /\ Eligible(t, m, n, "member") = {} =>
           NamedModules(t, m, n) \subseteq ByTheRules(t, m, n)
    BY RulesOfStars
  <1>5. symbols[t][m][n] = ByTheRules(t, m, n) \/ symbols[t][m][n] = AtFirst(t, m, n)
    BY DEF Done, Untouched
  <1> QED
    BY <1>1, <1>2, <1>3, <1>4, <1>5 DEF MergedName

LEMMA SkipMerged ==
    ASSUME Declarations, NEW t \in Tables, NEW m \in Modules, NEW k \in 1 .. Len(imports[m]),
           ~InTable(t, imports[m][k].visible), NEW s, NEW specific, Merged(s, t, m, k, specific)
    PROVE  Merged(s, t, m, k + 1, specific)
  <1>1. \A i : i \in Passed(t, m, k + 1) <=> i \in Passed(t, m, k)
    BY PassedImports
  <1> QED
    BY <1>1 DEF Merged, MergedName

LEMMA ModuleMerged ==
    ASSUME Declarations, Orderly, NEW t \in Tables, NEW m \in Modules, ~ImportedTwice(m),
           NEW k \in 1 .. Len(imports[m]), NEW i, i = imports[m][k],
           i.kind = "module", InTable(t, i.visible),
           NEW s, NEW specific, i.as \notin specific, Merged(s, t, m, k, specific)
    PROVE  Merged(s, t, m, k + 1, specific \cup ({i.as} \ {None}))
  <1> SUFFICES ASSUME NEW n \in Names
               PROVE  MergedName(s, t, m, k + 1, specific \cup ({i.as} \ {None}), n)
    BY DEF Merged
  <1>1. \A j : j \in Passed(t, m, k + 1) <=> j \in Passed(t, m, k) \/ j = i
    BY PassedImports
  <1>2. MergedName(s, t, m, k, specific, n)
    BY DEF Merged
  <1>3. n # None
    BY SymbolAssumption
  <1>4. CASE n # i.as
    BY <1>1, <1>2, <1>4, OnlyStarsAhead DEF MergedName
  <1>5. CASE n = i.as
    <2>1. i \in ImportsOf(m)
      BY DEF ImportsOf
    <2>2. Eligible(t, m, n, "member") = {}
      BY <1>5, <2>1, NamedImports, ModuleAlone
    <2>3. ASSUME NEW j \in StarsAhead(t, m, n) PROVE j \in Passed(t, m, k)
      <3>1. PICK l \in 1 .. Len(imports[m]) :
               /\ j = imports[m][l] /\ InTable(t, j.visible)
               /\ \A h \in 1 .. l : imports[m][h] \notin Eligible(t, m, n, "module")
        BY DEF StarsAhead
      <3>2. i \in Eligible(t, m, n, "module")
        BY <1>5, <2>1, EligibleImports
      <3>3. k \notin 1 .. l
        BY <3>1, <3>2
      <3>4. Len(imports[m]) \in Nat
        BY DEF Declarations
      <3>5. l < k
        BY <3>3, <3>4
      <3> QED
        BY <3>1, <3>5 DEF Passed
    <2>4. n \notin Globals(m) => s[n] = ByTheRules(t, m, n)
      <3> SUFFICES ASSUME n \notin Globals(m) PROVE s[n] = ByTheRules(t, m, n)
        OBVIOUS
      <3>1. /\ NamedModules(t, m, n) \subseteq s[n] /\ s[n] \subseteq ByTheRules(t, m, n)
            /\ \A j \in Passed(t, m, k) \cap StarsAhead(t, m, n) :
                  Gives(j, t, m) => ByTheRules("public", j.from, n) \subseteq s[n]
        BY <1>2, <2>2 DEF MergedName
      <3>2. ByTheRules(t, m, n) \subseteq s[n]
        BY <2>2, <2>3, <3>1, StarsTogether
      <3> QED
        BY <3>1, <3>2
    <2>5. \A j \in StarsAhead(t, m, n) : j \in Passed(t, m, k)
      BY <2>3
    <2> QED
      BY <1>1, <1>2, <1>3, <1>5, <2>4, <2>5 DEF MergedName
  <1> QED
    BY <1>4, <1>5

(* A star import is ahead of the modules imported under a name that is not yet taken. *)
LEMMA AheadOfModules ==
    ASSUME Declarations, NEW t \in Tables, NEW m \in Modules,
           NEW k \in 1 .. Len(imports[m]), imports[m][k].kind = "star", InTable(t, imports[m][k].visible),
           NEW s, NEW specific, NEW n \in Names, n \notin Globals(m), n \notin specific,
           MergedName(s, t, m, k, specific, n)
    PROVE  imports[m][k] \in StarsAhead(t, m, n)
  <1> SUFFICES ASSUME NEW l \in 1 .. k, imports[m][l] \in Eligible(t, m, n, "module") PROVE FALSE
    BY DEF StarsAhead
  <1>1. Len(imports[m]) \in Nat
    BY DEF Declarations
  <1>2. imports[m][l].kind = "module" /\ imports[m][l].as = n /\ InTable(t, imports[m][l].visible)
    BY EligibleImports
  <1>3. l # k
    BY <1>2
  <1>4. l < k /\ l \in 1 .. Len(imports[m])
    BY <1>1, <1>3
  <1>5. imports[m][l] \in Passed(t, m, k)
    BY <1>2, <1>4 DEF Passed
  <1> QED
    BY <1>2, <1>5 DEF MergedName

(* The star import of a module: r is s with what the public table, p, has for names
   that are not shielded.  Of another module p is complete. *)
StarAdded(r, s, p, m, specific) ==
    \A n \in Names : r[n] = IF n \in specific \cup Globals(m) THEN s[n] ELSE s[n] \cup p[n]

StarGives(p, s, t, m, from) ==
    \A n \in Names : IF from # m \/ t = "all" THEN p[n] = ByTheRules("public", from, n) ELSE p[n] = s[n]

LEMMA StarMerged ==
    ASSUME Declarations, Orderly, NEW t \in Tables, NEW m \in Modules,
           NEW k \in 1 .. Len(imports[m]), NEW i, i = imports[m][k],
           i.kind = "star", InTable(t, i.visible),
           NEW s, NEW specific, Merged(s, t, m, k, specific), NEW p, NEW r,
           StarAdded(r, s, p, m, specific), StarGives(p, s, t, m, i.from)
    PROVE  Merged(r, t, m, k + 1, specific)
  <1> SUFFICES ASSUME NEW n \in Names PROVE MergedName(r, t, m, k + 1, specific, n)
    BY DEF Merged
  <1>1. \A j : j \in Passed(t, m, k + 1) <=> j \in Passed(t, m, k) \/ j = i
    BY PassedImports
  <1>2. MergedName(s, t, m, k, specific, n)
    BY DEF Merged
  <1> USE DEF StarAdded
  <1>3. CASE n \in Globals(m)
    BY <1>2, <1>3 DEF MergedName
  <1>4. CASE n \notin Globals(m) /\ n \in specific
    <2>1. r[n] = s[n]
      BY <1>4
    <2>2. r[n] = ByTheRules(t, m, n)
      BY <1>2, <1>4, <2>1 DEF MergedName
    <2>3. Eligible(t, m, n, "member") = {} => \A j \in StarsAhead(t, m, n) :
             Gives(j, t, m) => ByTheRules("public", j.from, n) \subseteq r[n]
      BY <1>4, <2>2, StarWithin
    <2> QED
      BY <1>1, <1>2, <1>4, <2>1, <2>2, <2>3 DEF MergedName
  <1>5. CASE n \notin Globals(m) /\ n \notin specific
    <2>1. r[n] = s[n] \cup p[n]
      BY <1>5
    <2>2. i \in StarsAhead(t, m, n)
      BY <1>2, <1>5, AheadOfModules
    <2>3. CASE Gives(i, t, m)
      <3>1. p[n] = ByTheRules("public", i.from, n)
        BY <2>3 DEF StarGives, Gives
      <3>2. Eligible(t, m, n, "member") = {} => p[n] \subseteq ByTheRules(t, m, n)
        BY <1>5, <2>2, <2>3, <3>1, StarWithin
      <3> QED
        BY <1>1, <1>2, <1>5, <2>1, <3>1, <3>2 DEF MergedName
    <2>4. CASE ~Gives(i, t, m)
      <3>1. r[n] = s[n]
        BY <2>1, <2>4 DEF StarGives, Gives
      <3> QED
        BY <1>1, <1>2, <1>5, <2>4, <3>1 DEF MergedName
    <2> QED
      BY <2>3, <2>4
  <1> QED
    BY <1>3, <1>4, <1>5

LEMMA MemberMerged ==
    ASSUME Declarations, Orderly, NEW t \in Tables, NEW m \in Modules, ~ImportedTwice(m),
           NEW k \in 1 .. Len(imports[m]), NEW i, i = imports[m][k],
           i.kind = "member", InTable(t, i.visible), i.as \notin Globals(m),
           NEW s, NEW specific, Merged(s, t, m, k, specific), NEW r,
           \A n \in Names : r[n] = IF n = i.as THEN ByTheRules(MemberTable(i), i.from, i.member) ELSE s[n]
    PROVE  Merged(r, t, m, k + 1, specific \cup {i.as})
  <1> SUFFICES ASSUME NEW n \in Names PROVE MergedName(r, t, m, k + 1, specific \cup {i.as}, n)
    BY DEF Merged
  <1>1. \A j : j \in Passed(t, m, k + 1) <=> j \in Passed(t, m, k) \/ j = i
    BY PassedImports
  <1>2. MergedName(s, t, m, k, specific, n)
    BY DEF Merged
  <1>3. CASE n # i.as
    <2>1. r[n] = s[n]
      BY <1>3
    <2> QED
      BY <1>1, <1>2, <1>3, <2>1, OnlyStarsAhead DEF MergedName
  <1>4. CASE n = i.as
    <2>1. i \in ImportsOf(m)
      BY DEF ImportsOf
    <2>2. Eligible(t, m, n, "member") = {i}
      <3>1. Eligible(t, m, i.as, "member") = {i}
        BY <2>1, MemberAlone
      <3> QED
        BY <1>4, <3>1
    <2>3. r[n] = ByTheRules(t, m, n)
      BY <1>4, <2>2, RulesOfMember
    <2> QED
      BY <1>4, <2>2, <2>3 DEF MergedName
  <1> QED
    BY <1>3, <1>4

LEMMA MemberOfGlobalMerged ==
    ASSUME Declarations, NEW t \in Tables, NEW m \in Modules,
           NEW k \in 1 .. Len(imports[m]), NEW i, i = imports[m][k],
           i.kind = "member", i.as \in Globals(m),
           NEW s, NEW specific, Merged(s, t, m, k, specific)
    PROVE  Merged(s, t, m, k + 1, specific)
  <1>1. \A j : j \in Passed(t, m, k + 1) => j \in Passed(t, m, k) \/ j = i
    BY PassedImports
  <1> QED
    BY <1>1, OnlyStarsAhead DEF Merged, MergedName

(* At the end of the imports the table has what the rules say. *)
LEMMA EndMerged ==
    ASSUME Declarations, Orderly, NEW t \in Tables, NEW m \in Modules, ~ImportedTwice(m),
           NEW k \in Nat \ {0}, k > Len(imports[m]),
           NEW s, NEW specific, Merged(s, t, m, k, specific), NEW n \in Names
    PROVE  s[n] = ByTheRules(t, m, n)
  <1>1. \A i \in ImportsOf(m) : InTable(t, i.visible) => i \in Passed(t, m, k)
    BY PassedImports
  <1>2. MergedName(s, t, m, k, specific, n)
    BY DEF Merged
  <1>3. CASE n \in Globals(m)
    BY <1>2, <1>3, RulesOfOwn DEF MergedName
  <1>4. CASE n \notin Globals(m) /\ Eligible(t, m, n, "member") # {}
    <2>1. PICK i : i \in Eligible(t, m, n, "member")
      BY <1>4
    <2> QED
      BY <1>1, <1>2, <1>4, <2>1, EligibleImports DEF MergedName
  <1>5. CASE n \notin Globals(m) /\ Eligible(t, m, n, "member") = {}
    <2>1. NamedModules(t, m, n) \subseteq s[n] /\ s[n] \subseteq ByTheRules(t, m, n)
      BY <1>2, <1>5 DEF MergedName
    <2>2. \A i \in StarsAhead(t, m, n) : i \in ImportsOf(m) /\ InTable(t, i.visible)
      BY DEF StarsAhead, ImportsOf
    <2>3. \A i \in StarsAhead(t, m, n) : Gives(i, t, m) => ByTheRules("public", i.from, n) \subseteq s[n]
      BY <1>1, <1>2, <1>5, <2>2 DEF MergedName
    <2>4. ByTheRules(t, m, n) \subseteq s[n]
      BY <1>5, <2>1, <2>3, StarsTogether
    <2> QED
      BY <2>1, <2>4
  <1> QED
    BY <1>3, <1>4, <1>5

(***************************************************************************)
(* The inductive invariant behind TablesFollowRules.                       *)
(***************************************************************************)
(* The import that a walk is at. *)
At(f) == imports[f.module][f.next]

(* A table that is complete, or is being loaded further down the stack. *)
HasOrWaits(t, m) ==
    t \in Tables /\ m \in Modules /\ (m \in busy[t] \/ (Settled(m) => Done(t, m)))

FrameOK(f) ==
    /\ Settled(f.module) =>
          Merged(symbols[f.table][f.module], f.table, f.module, f.next, f.specific)
    /\ \A k \in 1 .. f.fetched : HasOrWaits(Needs(At(f))[k], At(f).from)

(* The stack holds walks of marked tables, each table once, and each walk begun by
   an import of the one below. *)
Stacked ==
    /\ phase # "lookup" => stack = <<>>
    /\ \A i \in 1 .. Len(stack) : stack[i].module \in busy[stack[i].table]
    /\ \A i, j \in 1 .. Len(stack) :
          i < j => stack[i].table # stack[j].table \/ stack[i].module # stack[j].module
    /\ \A i \in 1 .. Len(stack) - 1 :
          /\ stack[i].next <= Len(imports[stack[i].module])
          /\ At(stack[i]).from = stack[i + 1].module

Started == phase \in {"idle", "lookup"}

AtTheStart ==
    /\ phase = "load" => answer.objects = {} /\ \A t \in Tables : loaded[t] = {}
    /\ Started => \A m \in Modules : m # Main \/ lines = 0 => ~ImportedTwice(m)

(* No module is walked twice at once, but for its public table while the other one
   takes a star import of the module itself. *)
Ordered ==
    \A i, j \in 1 .. Len(stack) : i < j =>
        \/ stack[i].module # stack[j].module
        \/ (j = i + 1 /\ stack[i].table = "all" /\ stack[j].table = "public")

(* Every table is as loadDependent left it, or being loaded, or complete; the
   flag is set on complete tables only. *)
TablesLawful ==
    /\ \A t \in Tables : \A m \in Modules : m \notin busy[t] /\ Settled(m) => Done(t, m) \/ Untouched(t, m)
    /\ \A t \in Tables : \A m \in loaded[t] : m \notin busy[t] /\ (Settled(m) => Done(t, m))

(* What a lookup finds: what the rules give or, at once, the modules imported under
   the name. *)
Lawfully(S, t, m, n) ==
    S = ByTheRules(t, m, n) \/ (NamedModules(t, m, n) # {} /\ S = AtFirst(t, m, n))

AnswerLawful ==
    Settled(answer.query.module) /\ answer.objects # {} =>
        Lawfully(answer.objects, answer.query.table, answer.query.module, answer.query.name)

Lawful ==
    /\ Ordered
    /\ \A i \in 1 .. Len(stack) : FrameOK(stack[i])
    /\ TablesLawful
    /\ AnswerLawful

RulesInv == Stacked /\ AtTheStart /\ (Started /\ Orderly /\ Uninterrupted => Lawful)

LEMMA SettledFrom ==
    ASSUME NEW m \in Modules, Settled(m), NEW i \in ImportsOf(m)
    PROVE  Settled(i.from)
  BY DEF Settled

LEMMA SettledOnce ==
    ASSUME AtTheStart, Started, NEW m \in Modules, Settled(m)
    PROVE  ~ImportedTwice(m)
  BY DEF Settled, AtTheStart

(* What is settled after a step was before, and rests on nothing that changed. *)
LEMMA SettledBefore ==
    ASSUME Declarations, NEW m \in Modules, Settled(m)',
           \/ UNCHANGED <<program, lines>>
           \/ /\ lines' # 0
              /\ \A k \in Modules \ {Main} : imports'[k] = imports[k] /\ globals'[k] = globals[k]
    PROVE  Settled(m) /\ \E S : m \in S /\ Kept(S)
  <1>1. CASE UNCHANGED <<program, lines>>
    <2>1. imports' = imports /\ globals' = globals /\ lines' = lines
      BY <1>1 DEF program
    <2>2. Settled(m)
      BY <2>1 DEF Settled, ImportsOf
    <2>3. Kept(Modules)
      BY <2>1, ImportFields DEF Kept
    <2> QED
      BY <2>2, <2>3
  <1>2. CASE /\ lines' # 0
             /\ \A k \in Modules \ {Main} : imports'[k] = imports[k] /\ globals'[k] = globals[k]
    <2>1. PICK S \in SUBSET (Modules \ {Main}) :
             m \in S /\ \A k \in S : \A i \in ImportsOf(k)' : i.from \in S
      BY <1>2 DEF Settled
    <2>2. \A k \in S : imports'[k] = imports[k] /\ globals'[k] = globals[k]
      BY <1>2, <2>1
    <2>3. \A k \in S : \A i \in ImportsOf(k) : i.from \in S
      BY <2>1, <2>2 DEF ImportsOf
    <2>4. Settled(m)
      BY <2>1, <2>3 DEF Settled
    <2>5. Kept(S)
      BY <2>1, <2>2, <2>3 DEF Kept
    <2> QED
      BY <2>1, <2>4, <2>5
  <1> QED
    BY <1>1, <1>2

LEMMA TablesKept ==
    ASSUME Declarations, Declarations', NEW S, Kept(S), NEW t \in Tables, NEW m \in S,
           symbols'[t][m] = symbols[t][m]
    PROVE  (Done(t, m) => Done(t, m)') /\ (Untouched(t, m) => Untouched(t, m)')
  <1>1. \A n \in Names : ByTheRules(t, m, n)' = ByTheRules(t, m, n)
    BY RulesKept
  <1>2. \A n \in Names : AtFirst(t, m, n)' = AtFirst(t, m, n)
    BY DeclarationsKept
  <1> QED
    BY <1>1, <1>2 DEF Done, Untouched

LEMMA LawfullyKept ==
    ASSUME Declarations, Declarations', NEW S, Kept(S), NEW t \in Tables, NEW m \in S, NEW n \in Names,
           NEW X, Lawfully(X, t, m, n)
    PROVE  Lawfully(X, t, m, n)'
  <1>1. ByTheRules(t, m, n)' = ByTheRules(t, m, n)
    BY RulesKept
  <1>2. AtFirst(t, m, n)' = AtFirst(t, m, n) /\ NamedModules(t, m, n)' = NamedModules(t, m, n)
    BY DeclarationsKept
  <1> QED
    BY <1>1, <1>2 DEF Lawfully

LEMMA MergedKept ==
    ASSUME Declarations, Declarations', UNCHANGED program,
           NEW t \in Tables, NEW m \in Modules, NEW k \in Nat \ {0}, NEW specific,
           Merged(symbols'[t][m], t, m, k, specific)
    PROVE  Merged(symbols[t][m], t, m, k, specific)'
  <1>1. imports' = imports /\ globals' = globals
    BY DEF program
  <1>2. Kept(Modules)
    BY <1>1, ImportFields DEF Kept
  <1>3. Passed(t, m, k)' = Passed(t, m, k)
    BY <1>1 DEF Passed
  <1>4. \A i \in Passed(t, m, k) : i.from \in Modules
    BY PassedImports, ImportFields
  <1>5. "public" \in Tables
    BY DEF Tables
  <1>6. \A u \in Tables : \A l \in Modules : \A n \in Names : ByTheRules(u, l, n)' = ByTheRules(u, l, n)
    BY <1>2, RulesKept
  <1> SUFFICES ASSUME NEW n \in Names PROVE MergedName(symbols[t][m], t, m, k, specific, n)'
    BY DEF Merged
  <1>7. /\ Globals(m)' = Globals(m)
        /\ NamedModules(t, m, n)' = NamedModules(t, m, n)
        /\ AtFirst(t, m, n)' = AtFirst(t, m, n)
        /\ Eligible(t, m, n, "member")' = Eligible(t, m, n, "member")
        /\ StarsAhead(t, m, n)' = StarsAhead(t, m, n)
    BY <1>2, DeclarationsKept
  <1>8. MergedName(symbols'[t][m], t, m, k, specific, n)
    BY DEF Merged
  <1>9. ByTheRules(t, m, n)' = ByTheRules(t, m, n)
    BY <1>6
  <1>10. \A i \in Passed(t, m, k) : ByTheRules("public", i.from, n)' = ByTheRules("public", i.from, n)
    BY <1>4, <1>5, <1>6
  <1> QED
    BY <1>3, <1>7, <1>8, <1>9, <1>10 DEF MergedName, Gives

LEMMA StackFacts ==
    ASSUME Inv
    PROVE  /\ Len(stack) \in Nat
           /\ \A i \in 1 .. Len(stack) :
                 /\ stack[i] \in Frame /\ stack[i].table \in Tables /\ stack[i].module \in Modules
                 /\ stack[i].next \in Nat \ {0} /\ stack[i].fetched \in 0 .. 2
           /\ stack # <<>> => Len(stack) \in 1 .. Len(stack) /\ Frm = stack[Len(stack)]
  <1>1. stack \in Seq(Frame)
    BY DEF Inv, Control
  <1>2. Len(stack) \in Nat /\ \A i \in 1 .. Len(stack) : stack[i] \in Frame
    BY <1>1
  <1>3. \A f \in Frame : /\ f.table \in Tables /\ f.module \in Modules
                         /\ f.next \in Nat \ {0} /\ f.fetched \in 0 .. 2
    BY DEF Frame
  <1>4. stack # <<>> => Len(stack) \in Nat \ {0} /\ Frm = stack[Len(stack)]
    BY <1>1, TopAndBelow DEF Frm
  <1> QED
    BY <1>2, <1>3, <1>4

(* The import of a module that is not this one leads to none on the stack. *)
LEMMA NoWayBack ==
    ASSUME Inv, Stacked, Ordered, Acyclic, Walking, Imp.from # Frm.module,
           NEW i \in 1 .. Len(stack)
    PROVE  stack[i].module # Imp.from
  <1> SUFFICES ASSUME stack[i].module = Imp.from PROVE FALSE
    OBVIOUS
  <1> DEFINE L == Len(stack)
             S == {stack[j].module : j \in i .. L}
  <1>1. stack # <<>> /\ L \in 1 .. L /\ Frm = stack[L] /\ L \in Nat
    BY StackFacts DEF Walking
  <1>2. i \in Nat /\ i <= L /\ \A j \in i .. L : j \in 1 .. L
    BY <1>1
  <1>3. S \in SUBSET Modules /\ stack[i].module \in S
    BY <1>2, StackFacts
  <1>4. PICK m \in S : \A p \in ImportsOf(m) : p.from \notin S \ {m}
    <2> HIDE DEF S
    <2> QED
      BY <1>3 DEF Acyclic
  <1>5. m # stack[L].module
    <2>1. Imp \in ImportsOf(Frm.module)
      <3>1. Frm.next \in 1 .. Len(imports[Frm.module])
        <4>1. Frm.next \in Nat \ {0} /\ Frm.module \in Modules
          BY <1>1, StackFacts
        <4>2. Len(imports[Frm.module]) \in Nat
          BY <4>1 DEF Inv, Declarations
        <4> QED
          BY <4>1, <4>2 DEF Walking
      <3> QED
        BY <3>1 DEF Imp, ImportsOf
    <2>2. Imp.from \in S
      BY <1>3
    <2> HIDE DEF S
    <2> QED
      BY <1>1, <1>4, <2>1, <2>2
  <1>6. ASSUME NEW j \in i .. L, j < L
        PROVE  /\ j + 1 \in i .. L
               /\ stack[j].module = m => stack[j + 1].module = m
    <2>1. j \in 1 .. L - 1 /\ j + 1 \in i .. L /\ j \in 1 .. L
      BY <1>1, <1>2, <1>6
    <2>2. stack[j].next <= Len(imports[stack[j].module]) /\ At(stack[j]).from = stack[j + 1].module
      BY <2>1 DEF Stacked
    <2>3. stack[j].next \in Nat \ {0} /\ stack[j].module \in Modules
      BY <2>1, StackFacts
    <2>4. Len(imports[stack[j].module]) \in Nat
      BY <2>3 DEF Inv, Declarations
    <2>5. At(stack[j]) \in ImportsOf(stack[j].module)
      <3>1. stack[j].next \in 1 .. Len(imports[stack[j].module])
        BY <2>2, <2>3, <2>4
      <3> QED
        BY <3>1 DEF At, ImportsOf
    <2>6. stack[j + 1].module \in S
      BY <2>1
    <2> HIDE DEF S
    <2> QED
      BY <1>4, <2>1, <2>2, <2>5, <2>6
  <1>7. PICK j \in i .. L : stack[j].module = m
    OBVIOUS
  <1>8. j # L /\ j < L
    <2>1. j # L
      BY <1>5, <1>7
    <2> QED
      BY <1>1, <1>2, <2>1
  <1>9. j + 1 \in i .. L /\ stack[j + 1].module = m
    BY <1>6, <1>7, <1>8
  <1>10. j + 1 # L /\ j + 1 < L
    <2>1. j + 1 # L
      BY <1>5, <1>9
    <2> QED
      BY <1>1, <1>2, <1>9, <2>1
  <1>11. j + 1 + 1 \in i .. L /\ stack[j + 1 + 1].module = m
    BY <1>6, <1>9, <1>10
  <1>12. j \in 1 .. L /\ j + 1 + 1 \in 1 .. L /\ j < j + 1 + 1 /\ j + 1 + 1 # j + 1
    BY <1>1, <1>2, <1>11
  <1> QED
    BY <1>7, <1>11, <1>12 DEF Ordered

(* The module an import is of, and the tables that are taken from it. *)
LEMMA AtImport ==
    ASSUME Inv, Walking
    PROVE  /\ Frm \in Frame /\ Frm.table \in Tables /\ Frm.module \in Modules
           /\ Frm.next \in 1 .. Len(imports[Frm.module])
           /\ Imp = imports[Frm.module][Frm.next] /\ Imp \in ImportsOf(Frm.module)
           /\ Imp.from \in Modules /\ Imp = At(Frm)
           /\ Frm.specific \in SUBSET Names
  <1>1. stack # <<>> /\ Frm.next <= Len(imports[Frm.module])
    BY DEF Walking
  <1>2. /\ Frm \in Frame /\ Frm.table \in Tables /\ Frm.module \in Modules
        /\ Frm.next \in Nat \ {0} /\ Frm.specific \in SUBSET Names
    BY <1>1, FrameFacts DEF Frame
  <1>3. Len(imports[Frm.module]) \in Nat
    BY <1>2 DEF Inv, Declarations
  <1>4. Frm.next \in 1 .. Len(imports[Frm.module])
    BY <1>1, <1>2, <1>3
  <1>5. Imp \in ImportsOf(Frm.module)
    BY <1>4 DEF Imp, ImportsOf
  <1>6. Imp.from \in Modules
    BY <1>2, <1>5, ImportFields DEF Inv
  <1> QED
    BY <1>2, <1>4, <1>5, <1>6 DEF Imp, At

(* A table that is marked is being walked. *)
LEMMA BusyOnStack ==
    ASSUME Uninterrupted, NEW t \in Tables, NEW m \in busy[t]
    PROVE  \E i \in 1 .. Len(stack) : stack[i].table = t /\ stack[i].module = m
  BY DEF Uninterrupted

LEMMA FetchedWhole ==
    ASSUME Inv, Stacked, Orderly, Uninterrupted, Lawful, Fetched, Settled(Imp.from),
           Imp.from # Frm.module, NEW k \in 1 .. Len(Needs(Imp)), Needs(Imp)[k] \in Tables
    PROVE  Done(Needs(Imp)[k], Imp.from)
  <1> DEFINE t == Needs(Imp)[k]
  <1>1. Walking /\ stack # <<>> /\ Frm.fetched = Len(Needs(Imp))
    BY DEF Fetched, Walking
  <1>2. Frm = stack[Len(stack)] /\ Len(stack) \in 1 .. Len(stack)
    BY <1>1, StackFacts
  <1>3. FrameOK(Frm) /\ Ordered /\ Acyclic
    BY <1>2 DEF Lawful, Orderly
  <1>4. Imp = At(Frm)
    BY <1>1, AtImport
  <1>5. HasOrWaits(t, Imp.from)
    BY <1>1, <1>3, <1>4 DEF FrameOK
  <1>6. Imp.from \notin busy[t]
    BY <1>1, <1>3, BusyOnStack, NoWayBack
  <1> QED
    BY <1>5, <1>6 DEF HasOrWaits

(***************************************************************************)
(* What steps that leave the program alone preserve.                       *)
(***************************************************************************)
LEMMA ProgramKept ==
    ASSUME UNCHANGED program
    PROVE  /\ imports' = imports /\ globals' = globals
           /\ Orderly' <=> Orderly
           /\ \A m \in Modules : ImportedTwice(m)' <=> ImportedTwice(m)
  <1>1. imports' = imports /\ globals' = globals
    BY DEF program
  <1>2. \A m : ImportsOf(m)' = ImportsOf(m)
    BY <1>1 DEF ImportsOf
  <1>3. (Acyclic' <=> Acyclic) /\ (NoMembersOfItself' <=> NoMembersOfItself)
    BY <1>2 DEF Acyclic, NoMembersOfItself
  <1>4. \A m \in Modules : ImportedTwice(m)' <=> ImportedTwice(m)
    BY <1>1 DEF ImportedTwice
  <1> QED
    BY <1>1, <1>3, <1>4 DEF Orderly

LEMMA StartKept ==
    ASSUME AtTheStart, Started, UNCHANGED program, UNCHANGED lines, phase' # "load"
    PROVE  AtTheStart'
  <1>1. \A m \in Modules : m # Main \/ lines' = 0 => ~ImportedTwice(m)'
    BY ProgramKept DEF AtTheStart
  <1> QED
    BY <1>1 DEF AtTheStart

LEMMA SameTable ==
    ASSUME Inv, Inv', UNCHANGED program, UNCHANGED lines, NEW t \in Tables, NEW m \in Modules
    PROVE  /\ Settled(m)' <=> Settled(m)
           /\ symbols'[t][m] = symbols[t][m] =>
                (Done(t, m) => Done(t, m)') /\ (Untouched(t, m) => Untouched(t, m)')
  <1>1. Declarations /\ Declarations'
    BY DEF Inv
  <1>2. imports' = imports /\ globals' = globals /\ lines' = lines
    BY DEF program
  <1>3. Settled(m)' <=> Settled(m)
    BY <1>2 DEF Settled, ImportsOf
  <1>4. Kept(Modules)
    BY <1>1, <1>2, ImportFields DEF Kept
  <1> QED
    BY <1>1, <1>3, <1>4, TablesKept

(* A table is had, or waited for, as long as nothing but a marked table changes,
   and one that is no longer marked is complete. *)
LEMMA WaitsKept ==
    ASSUME Inv, Inv', UNCHANGED program, UNCHANGED lines,
           \A t \in Tables : \A m \in Modules :
              /\ m \notin busy[t] => symbols'[t][m] = symbols[t][m]
              /\ m \in busy[t] /\ m \notin busy'[t] => (Settled(m)' => Done(t, m)')
    PROVE  \A t, m : HasOrWaits(t, m) => HasOrWaits(t, m)'
  BY SameTable DEF HasOrWaits

LEMMA FrameKept ==
    ASSUME Inv, Inv', UNCHANGED program, UNCHANGED lines, NEW f \in Frame, FrameOK(f),
           \A t, m : HasOrWaits(t, m) => HasOrWaits(t, m)',
           symbols'[f.table][f.module] = symbols[f.table][f.module]
    PROVE  FrameOK(f)'
  <1>1. f.table \in Tables /\ f.module \in Modules /\ f.next \in Nat \ {0}
    BY DEF Frame
  <1>2. At(f)' = At(f)
    BY ProgramKept DEF At
  <1>3. \A k \in 1 .. f.fetched : HasOrWaits(Needs(At(f))[k], At(f).from)'
    BY <1>2 DEF FrameOK
  <1>4. Settled(f.module)' => Merged(symbols'[f.table][f.module], f.table, f.module, f.next, f.specific)
    BY <1>1, SameTable DEF FrameOK
  <1>5. Settled(f.module)' => Merged(symbols[f.table][f.module], f.table, f.module, f.next, f.specific)'
    BY <1>1, <1>4, MergedKept DEF Inv
  <1> QED
    BY <1>2, <1>3, <1>5 DEF FrameOK

LEMMA TablesLawfulKept ==
    ASSUME Inv, Inv', UNCHANGED program, UNCHANGED lines, TablesLawful,
           \A t \in Tables : \A m \in Modules :
              /\ m \notin busy[t] => symbols'[t][m] = symbols[t][m]
              /\ m \in busy[t] /\ m \notin busy'[t] => (Settled(m)' => Done(t, m)')
              /\ m \in loaded[t] => m \notin busy'[t]
              /\ m \in loaded'[t] \ loaded[t] => m \notin busy'[t] /\ (Settled(m)' => Done(t, m)')
    PROVE  TablesLawful'
  <1>1. \A t \in Tables : loaded'[t] \subseteq Modules /\ loaded[t] \subseteq Modules
    BY DEF Inv, TablesOK
  <1>2. ASSUME NEW t \in Tables, NEW m \in Modules, m \notin busy'[t], Settled(m)'
        PROVE  Done(t, m)' \/ Untouched(t, m)'
    BY <1>2, SameTable DEF TablesLawful
  <1>3. ASSUME NEW t \in Tables, NEW m \in loaded'[t]
        PROVE  m \notin busy'[t] /\ (Settled(m)' => Done(t, m)')
    BY <1>1, <1>3, SameTable DEF TablesLawful
  <1> QED
    BY <1>2, <1>3 DEF TablesLawful

LEMMA AnswerKept ==
    ASSUME Inv, Inv', UNCHANGED program, UNCHANGED lines, AnswerLawful, answer' = answer
    PROVE  AnswerLawful'
  <1>1. answer.query.table \in Tables /\ answer.query.module \in Modules /\ answer.query.name \in Names
    BY DEF Inv, Control, Query
  <1>2. Kept(Modules) /\ Declarations /\ Declarations'
    BY ProgramKept, ImportFields DEF Kept, Inv
  <1>3. PICK t, m, n, X : /\ t = answer.query.table /\ m = answer.query.module /\ n = answer.query.name
                          /\ X = answer.objects
    OBVIOUS
  <1>4. t \in Tables /\ m \in Modules /\ n \in Names
    BY <1>1, <1>3
  <1>5. Settled(m)' => Settled(m)
    BY <1>4, SameTable
  <1>6. Lawfully(X, t, m, n) => Lawfully(X, t, m, n)'
    BY <1>2, <1>4, LawfullyKept
  <1> QED
    BY <1>3, <1>5, <1>6 DEF AnswerLawful

(***************************************************************************)
(* Steps within the walk of an import: only the innermost frame, and its   *)
(* table, change.                                                          *)
(***************************************************************************)
LEMMA WithinWalk ==
    ASSUME Inv, Inv', RulesInv, Walking, UNCHANGED program, UNCHANGED lines,
           UNCHANGED <<loaded, busy, answer, phase>>,
           NEW f \in Frame, f.table = Frm.table, f.module = Frm.module, SetFrame(f),
           \A t \in Tables : \A m \in Modules :
              t # Frm.table \/ m # Frm.module => symbols'[t][m] = symbols[t][m],
           Orderly /\ Uninterrupted /\ Lawful /\ (\A t, m : HasOrWaits(t, m) => HasOrWaits(t, m)')
              => FrameOK(f)'
    PROVE  RulesInv'
  <1> DEFINE L == Len(stack)
  <1>1. /\ stack # <<>> /\ L \in 1 .. L /\ Frm = stack[L] /\ L \in Nat
        /\ \A i \in 1 .. L : stack[i] \in Frame /\ stack[i].table \in Tables /\ stack[i].module \in Modules
    BY StackFacts DEF Walking
  <1>2. /\ Len(stack') = L /\ stack'[L] = f
        /\ \A i \in 1 .. L : i # L => stack'[i] = stack[i]
    <2>1. stack \in Seq(Frame)
      BY DEF Inv, Control
    <2> QED
      BY <1>1, <2>1 DEF SetFrame
  <1>3. \A i \in 1 .. L : stack'[i].table = stack[i].table /\ stack'[i].module = stack[i].module
    BY <1>1, <1>2
  <1>4. loaded' = loaded /\ busy' = busy /\ answer' = answer /\ phase' = phase
    OBVIOUS
  <1>5. imports' = imports
    BY ProgramKept
  <1>6. Started /\ phase = "lookup" /\ Stacked /\ AtTheStart
    BY <1>1 DEF RulesInv, Stacked, Started
  <1>7. Stacked'
    <2>1. \A i \in 1 .. L - 1 : /\ stack'[i] = stack[i] /\ stack'[i + 1].module = stack[i + 1].module
                                /\ At(stack[i])' = At(stack[i])
      <3> TAKE i \in 1 .. L - 1
      <3>1. i \in 1 .. L /\ i # L /\ i + 1 \in 1 .. L
        BY <1>1
      <3> QED
        BY <1>2, <1>3, <1>5, <3>1 DEF At
    <2>2. \A i, j \in 1 .. L : i < j => stack'[i].table # stack'[j].table \/ stack'[i].module # stack'[j].module
      BY <1>3, <1>6 DEF Stacked
    <2> QED
      BY <1>2, <1>3, <1>4, <1>5, <1>6, <2>1, <2>2 DEF Stacked
  <1>8. AtTheStart'
    BY <1>4, <1>6, StartKept
  <1>9. ASSUME Orderly', Uninterrupted' PROVE Lawful'
    <2>1. Orderly
      BY <1>9, ProgramKept
    <2>2. Uninterrupted
      BY <1>2, <1>3, <1>4, <1>9 DEF Uninterrupted
    <2>3. Lawful
      BY <1>6, <2>1, <2>2 DEF RulesInv
    <2>4. Frm.module \in busy[Frm.table]
      BY <1>1, <1>6 DEF Stacked
    <2>5. \A t \in Tables : \A m \in Modules : m \notin busy[t] => symbols'[t][m] = symbols[t][m]
      BY <2>4
    <2>6. \A t, m : HasOrWaits(t, m) => HasOrWaits(t, m)'
      BY <1>4, <2>5, WaitsKept
    <2>7. Ordered'
      BY <1>2, <1>3, <2>3 DEF Lawful, Ordered
    <2>8. ASSUME NEW i \in 1 .. Len(stack') PROVE FrameOK(stack[i])'
      <3>1. CASE i = L
        BY <1>2, <2>1, <2>2, <2>3, <2>6, <3>1
      <3>2. CASE i # L
        <4>1. i \in 1 .. L /\ i < L /\ stack'[i] = stack[i] /\ FrameOK(stack[i]) /\ stack[i] \in Frame
          BY <1>1, <1>2, <2>3, <3>2 DEF Lawful
        <4>2. stack[i].table # Frm.table \/ stack[i].module # Frm.module
          BY <1>1, <2>3, <4>1 DEF Lawful, Ordered
        <4>3. symbols'[stack[i].table][stack[i].module] = symbols[stack[i].table][stack[i].module]
          BY <1>1, <4>1, <4>2
        <4>4. FrameOK(stack[i])'
          BY <2>6, <4>1, <4>3, FrameKept
        <4> QED
          BY <4>1, <4>4
      <3> QED
        BY <3>1, <3>2
    <2>9. TablesLawful'
      BY <1>4, <2>3, <2>5, TablesLawfulKept DEF Lawful, TablesLawful
    <2>10. AnswerLawful'
      BY <1>4, <2>3, AnswerKept DEF Lawful
    <2> QED
      BY <2>7, <2>8, <2>9, <2>10 DEF Lawful
  <1> QED
    BY <1>7, <1>8, <1>9 DEF RulesInv

(* A walk that an error interrupts leaves its tables marked for ever. *)
LEMMA RaiseRules ==
    ASSUME Inv, RulesInv, stack # <<>>, UNCHANGED program, UNCHANGED <<busy, lines>>, NEW e, Raise(e)
    PROVE  RulesInv'
  <1>1. stack' = <<>> /\ Len(stack') = 0 /\ phase' \in {"idle", "failed"}
    BY DEF Raise
  <1>2. Stacked /\ AtTheStart /\ Started
    BY DEF RulesInv, Stacked, Started
  <1>3. Stacked'
    BY <1>1 DEF Stacked
  <1>4. AtTheStart'
    BY <1>1, <1>2, StartKept
  <1>5. Frm.table \in Tables /\ Frm.module \in busy[Frm.table]
    BY <1>2, StackFacts DEF Stacked
  <1>6. ~Uninterrupted'
    BY <1>1, <1>5 DEF Uninterrupted
  <1> QED
    BY <1>3, <1>4, <1>6 DEF RulesInv

LEMMA TopMerged ==
    ASSUME Inv, RulesInv, Walking, Orderly, Uninterrupted, Settled(Frm.module)
    PROVE  /\ Lawful /\ ~ImportedTwice(Frm.module)
           /\ Merged(symbols[Frm.table][Frm.module], Frm.table, Frm.module, Frm.next, Frm.specific)
  <1>1. stack # <<>> /\ Len(stack) \in 1 .. Len(stack) /\ Frm = stack[Len(stack)]
    BY StackFacts DEF Walking
  <1>2. Started /\ AtTheStart
    BY <1>1 DEF RulesInv, Stacked, Started
  <1>3. Lawful
    BY <1>2 DEF RulesInv
  <1>4. FrameOK(Frm)
    BY <1>1, <1>3 DEF Lawful
  <1>5. Frm.module \in Modules
    BY AtImport
  <1> QED
    BY <1>2, <1>3, <1>4, <1>5, SettledOnce DEF FrameOK

LEMMA OnwardsRules ==
    ASSUME Inv, Inv', RulesInv, Walking, UNCHANGED program, UNCHANGED lines,
           UNCHANGED <<loaded, busy, answer, phase>>,
           NEW specific \in SUBSET Names, Onwards(specific),
           \A t \in Tables : \A m \in Modules :
              t # Frm.table \/ m # Frm.module => symbols'[t][m] = symbols[t][m],
           Orderly /\ Uninterrupted /\ Settled(Frm.module) =>
              Merged(symbols'[Frm.table][Frm.module], Frm.table, Frm.module, Frm.next + 1, specific)
    PROVE  RulesInv'
  <1> DEFINE n == Frm.next + 1
  <1>1. /\ Frm \in Frame /\ Frm.table \in Tables /\ Frm.module \in Modules /\ Frm.next \in Nat \ {0}
        /\ n \in Nat \ {0}
    BY StackFacts DEF Walking
  <1>2. PICK f : f = [Frm EXCEPT !.next = n, !.fetched = 0, !.specific = specific]
    OBVIOUS
  <1>3. f \in Frame
    BY <1>1, <1>2, NextFrameOK
  <1>4. SetFrame(f)
    BY <1>2 DEF Onwards
  <1>5. f.table = Frm.table /\ f.module = Frm.module /\ f.next = n /\ f.fetched = 0 /\ f.specific = specific
    BY <1>1, <1>2 DEF Frame
  <1>6. ASSUME Orderly, Uninterrupted PROVE FrameOK(f)'
    <2>1. 1 .. f.fetched = {}
      BY <1>5
    <2>2. Settled(f.module)' <=> Settled(Frm.module)
      BY <1>1, <1>5, SameTable
    <2>3. Settled(f.module)' => Merged(symbols'[f.table][f.module], f.table, f.module, f.next, f.specific)
      BY <1>5, <1>6, <2>2
    <2>4. Settled(f.module)' => Merged(symbols[f.table][f.module], f.table, f.module, f.next, f.specific)'
      BY <1>1, <1>5, <2>3, MergedKept DEF Inv
    <2> QED
      BY <2>1, <2>4 DEF FrameOK
  <1> QED
    BY <1>3, <1>4, <1>5, <1>6, WithinWalk

LEMMA SkipImportRules == Inv /\ Inv' /\ RulesInv /\ SkipImport => RulesInv'
  <1> SUFFICES ASSUME Inv, Inv', RulesInv, SkipImport PROVE RulesInv'
    OBVIOUS
  <1>1. /\ Walking /\ ~Considered /\ Onwards(Frm.specific)
        /\ UNCHANGED program /\ UNCHANGED symbols /\ UNCHANGED <<loaded, busy, answer, phase, lines>>
    BY DEF SkipImport, tables, asking
  <1>2. /\ Frm.table \in Tables /\ Frm.module \in Modules /\ Frm.specific \in SUBSET Names
        /\ Frm.next \in 1 .. Len(imports[Frm.module]) /\ Imp = imports[Frm.module][Frm.next]
    BY <1>1, AtImport
  <1>3. ASSUME Orderly, Uninterrupted, Settled(Frm.module)
        PROVE  Merged(symbols'[Frm.table][Frm.module], Frm.table, Frm.module, Frm.next + 1, Frm.specific)
    BY <1>1, <1>2, <1>3, TopMerged, SkipMerged DEF Considered, Inv
  <1> QED
    BY <1>1, <1>2, <1>3, OnwardsRules

LEMMA AddModuleNameRules == Inv /\ Inv' /\ RulesInv /\ AddModuleName => RulesInv'
  <1> SUFFICES ASSUME Inv, Inv', RulesInv, AddModuleName PROVE RulesInv'
    OBVIOUS
  <1> DEFINE specific == Frm.specific \cup ({Imp.as} \ {None})
  <1>1. /\ Walking /\ Considered /\ Imp.kind = "module"
        /\ UNCHANGED program /\ UNCHANGED symbols /\ UNCHANGED <<loaded, busy, answer, lines>>
        /\ \/ Raise("importedAlready")
           \/ Imp.as \notin Frm.specific /\ Onwards(specific) /\ UNCHANGED phase
    BY DEF AddModuleName, Fetched, tables, asking
  <1>2. /\ Frm.table \in Tables /\ Frm.module \in Modules /\ Frm.specific \in SUBSET Names
        /\ Frm.next \in 1 .. Len(imports[Frm.module]) /\ Imp = imports[Frm.module][Frm.next]
        /\ Imp \in ImportsOf(Frm.module)
    BY <1>1, AtImport
  <1>3. specific \in SUBSET Names
    BY <1>2, ImportFields DEF Inv
  <1>4. CASE Raise("importedAlready")
    BY <1>1, <1>4, RaiseRules DEF Walking
  <1>5. CASE Imp.as \notin Frm.specific /\ Onwards(specific) /\ UNCHANGED phase
    <2>1. ASSUME Orderly, Uninterrupted, Settled(Frm.module)
          PROVE  Merged(symbols'[Frm.table][Frm.module], Frm.table, Frm.module, Frm.next + 1, specific)
      BY <1>1, <1>2, <1>5, <2>1, TopMerged, ModuleMerged DEF Considered, Inv
    <2> HIDE DEF specific
    <2> QED
      BY <1>1, <1>3, <1>5, <2>1, OnwardsRules
  <1> QED
    BY <1>1, <1>4, <1>5

(* What a star import takes: the whole public table of another module, and that of
   the module itself unless it is the one being loaded. *)
LEMMA StarTakes ==
    ASSUME Inv, RulesInv, Fetched, Imp.kind = "star", Orderly, Uninterrupted, Settled(Frm.module)
    PROVE  StarGives(symbols["public"][Imp.from], symbols[Frm.table][Frm.module],
                     Frm.table, Frm.module, Imp.from)
  <1> DEFINE m == Frm.module
             L == Len(stack)
  <1>1. Walking /\ Frm.fetched = Len(Needs(Imp))
    BY DEF Fetched
  <1>2. /\ Frm.table \in Tables /\ m \in Modules /\ Imp \in ImportsOf(m) /\ Imp.from \in Modules
        /\ Imp = At(Frm)
    BY <1>1, AtImport
  <1>3. Needs(Imp) = <<"public">> /\ Len(Needs(Imp)) = 1 /\ 1 \in 1 .. Len(Needs(Imp))
    BY DEF Needs
  <1>4. Needs(Imp)[1] = "public" /\ "public" \in Tables /\ "all" \in Tables
    BY <1>3 DEF Tables
  <1>5. Settled(Imp.from)
    BY <1>2, SettledFrom
  <1>6. Lawful /\ Stacked
    BY <1>1, TopMerged DEF RulesInv
  <1>7. CASE Imp.from # m
    <2>1. Done("public", Imp.from)
      BY <1>3, <1>4, <1>5, <1>6, <1>7, FetchedWhole
    <2> QED
      BY <1>7, <2>1 DEF Done, StarGives
  <1>8. CASE Imp.from = m /\ Frm.table = "all"
    <2>1. L \in 1 .. L /\ Frm = stack[L]
      BY <1>1, StackFacts DEF Walking
    <2>2. HasOrWaits("public", m)
      BY <1>1, <1>2, <1>3, <1>4, <1>6, <1>8, <2>1 DEF Lawful, FrameOK
    <2>3. m \notin busy["public"]
      <3>1. SUFFICES ASSUME m \in busy["public"] PROVE FALSE
        OBVIOUS
      <3>2. PICK i \in 1 .. L : stack[i].table = "public" /\ stack[i].module = m
        BY <1>4, <3>1, BusyOnStack
      <3>3. i # L /\ i < L
        BY <1>8, <2>1, <3>2
      <3> QED
        BY <1>6, <2>1, <3>2, <3>3 DEF Lawful, Ordered
    <2>4. Done("public", m)
      BY <1>5, <1>8, <2>2, <2>3 DEF HasOrWaits
    <2> QED
      BY <1>8, <2>4 DEF Done, StarGives
  <1>9. CASE Imp.from = m /\ Frm.table = "public"
    BY <1>9 DEF StarGives
  <1> QED
    BY <1>2, <1>7, <1>8, <1>9 DEF Tables

LEMMA AddStarRules == Inv /\ Inv' /\ RulesInv /\ AddStar => RulesInv'
  <1> SUFFICES ASSUME Inv, Inv', RulesInv, AddStar PROVE RulesInv'
    OBVIOUS
  <1> DEFINE t == Frm.table
             m == Frm.module
             p == symbols["public"][Imp.from]
             s == symbols[t][m]
             r == [n \in Names |-> IF n \in Frm.specific \cup Globals(m) THEN s[n] ELSE s[n] \cup p[n]]
  <1>1. /\ Fetched /\ Imp.kind = "star"
        /\ UNCHANGED program /\ UNCHANGED <<loaded, busy, answer, phase, lines>>
        /\ Onwards(Frm.specific)
        /\ symbols' = [symbols EXCEPT ![t] = [symbols[t] EXCEPT ![m] = r]]
    BY DEF AddStar, Shielded, asking
  <1>2. Walking /\ Considered
    BY <1>1 DEF Fetched
  <1>3. /\ t \in Tables /\ m \in Modules /\ Frm.specific \in SUBSET Names
        /\ Frm.next \in 1 .. Len(imports[m]) /\ Imp = imports[m][Frm.next]
    BY <1>2, AtImport
  <1> HIDE DEF t, m, p, s
  <1>4. symbols \in [Tables -> [Modules -> [Names -> SUBSET Objects]]]
    BY DEF Inv, TablesOK
  <1>5. /\ symbols'[t][m] = r
        /\ \A u \in Tables : \A l \in Modules : u # t \/ l # m => symbols'[u][l] = symbols[u][l]
    <2> HIDE DEF r
    <2> QED
      BY <1>1, <1>3, <1>4
  <1>6. \A n \in Names : symbols'[t][m][n] = IF n \in Frm.specific \cup Globals(m) THEN s[n] ELSE s[n] \cup p[n]
    BY <1>5
  <1> HIDE DEF r
  <1>7. ASSUME Orderly, Uninterrupted, Settled(m)
        PROVE  Merged(symbols'[t][m], t, m, Frm.next + 1, Frm.specific)
    <2>1. Merged(s, t, m, Frm.next, Frm.specific)
      BY <1>2, <1>7, TopMerged DEF s, t, m
    <2>6. ~ImportedTwice(m)
      BY <1>2, <1>7, TopMerged DEF m
    <2>2. StarGives(p, s, t, m, Imp.from)
      BY <1>1, <1>7, StarTakes DEF p, s, t, m
    <2>4. InTable(t, Imp.visible) /\ Declarations
      BY <1>2 DEF Considered, t, Inv
    <2>5. StarAdded(symbols'[t][m], s, p, m, Frm.specific)
      BY <1>6 DEF StarAdded
    <2> QED
      BY <1>1, <1>3, <1>7, <2>1, <2>2, <2>4, <2>5, <2>6, StarMerged
  <1> QED
    BY <1>1, <1>2, <1>3, <1>5, <1>7, OnwardsRules DEF t, m

LEMMA OneObject ==
    ASSUME NEW S \in SUBSET Objects, NEW o \in S, ~(Cardinality(S) > 1)
    PROVE  S = {o}
  <1>1. IsFiniteSet(Names \cup {Itself})
    BY FiniteAssumption, FS_AddElement
  <1>2. IsFiniteSet(Objects)
    BY <1>1, FiniteAssumption, FS_Product DEF Objects
  <1>3. IsFiniteSet(S)
    BY <1>2, FS_Subset
  <1>4. {o} \subseteq S /\ Cardinality({o}) = 1
    BY FS_Singleton
  <1>5. Cardinality(S) \in Nat /\ Cardinality({o}) <= Cardinality(S)
    BY <1>3, <1>4, FS_CardinalityType, FS_Subset
  <1> QED
    BY <1>3, <1>4, <1>5, FS_Subset

LEMMA MemberTakes ==
    ASSUME Inv, RulesInv, Fetched, Imp.kind = "member", Orderly, Uninterrupted, Settled(Frm.module)
    PROVE  MemberObjects = ByTheRules(MemberTable(Imp), Imp.from, Imp.member)
  <1>1. Walking
    BY DEF Fetched
  <1>2. Frm.module \in Modules /\ Imp \in ImportsOf(Frm.module) /\ Imp.from \in Modules /\ Declarations
    BY <1>1, AtImport DEF Inv
  <1>3. Imp.member \in Names
    BY <1>2, ImportFields
  <1>4. Imp.from # Frm.module
    BY <1>2 DEF Orderly, NoMembersOfItself
  <1>5. Settled(Imp.from) /\ Stacked /\ Lawful
    BY <1>1, <1>2, SettledFrom, TopMerged DEF RulesInv
  <1>6. /\ Needs(Imp) = <<"public", "all">> /\ 1 \in 1 .. Len(Needs(Imp)) /\ 2 \in 1 .. Len(Needs(Imp))
        /\ Needs(Imp)[1] = "public" /\ Needs(Imp)[2] = "all"
    BY DEF Needs
  <1>7. Done("public", Imp.from) /\ Done("all", Imp.from)
    BY <1>4, <1>5, <1>6, FetchedWhole DEF Tables
  <1>8. MemberTable(Imp) \in {"public", "all"}
    BY DEF MemberTable
  <1> QED
    BY <1>3, <1>7, <1>8 DEF MemberObjects, Done

LEMMA AddMemberRules == Inv /\ Inv' /\ RulesInv /\ AddMember => RulesInv'
  <1> SUFFICES ASSUME Inv, Inv', RulesInv, AddMember PROVE RulesInv'
    OBVIOUS
  <1> DEFINE t == Frm.table
             m == Frm.module
             as == Imp.as
             s == symbols[t][m]
  <1>1. /\ Fetched /\ Imp.kind = "member"
        /\ UNCHANGED program /\ UNCHANGED <<loaded, busy, answer, lines>>
        /\ \/ Raise("notFound") \/ Raise("importedAlready")
           \/ /\ as \in Globals(m) /\ Onwards(Frm.specific) /\ UNCHANGED <<symbols, phase>>
           \/ /\ as \notin Globals(m) /\ as \notin Frm.specific
              /\ ~(Cardinality(MemberObjects) > 1)
              /\ \E o \in MemberObjects :
                    symbols' = [symbols EXCEPT ![t] = [symbols[t] EXCEPT ![m] = [s EXCEPT ![as] = {o}]]]
              /\ Onwards(Frm.specific \cup {as}) /\ UNCHANGED phase
    BY DEF AddMember, asking
  <1>2. Walking /\ Considered
    BY <1>1 DEF Fetched
  <1>3. /\ t \in Tables /\ m \in Modules /\ Frm.specific \in SUBSET Names
        /\ Frm.next \in 1 .. Len(imports[m]) /\ Imp = imports[m][Frm.next]
        /\ Imp \in ImportsOf(m) /\ Imp.from \in Modules
    BY <1>2, AtImport
  <1>4. as \in Names /\ Imp.member \in Names /\ MemberTable(Imp) \in Tables
    BY <1>1, <1>3, ImportFields DEF Inv
  <1>5. InTable(t, Imp.visible) /\ Declarations
    BY <1>2 DEF Considered, Inv
  <1> HIDE DEF t, m, s
  <1>6. CASE Raise("notFound") \/ Raise("importedAlready")
    BY <1>1, <1>2, <1>6, RaiseRules DEF Walking
  <1>7. CASE as \in Globals(m) /\ Onwards(Frm.specific) /\ UNCHANGED <<symbols, phase>>
    <2>1. ASSUME Orderly, Uninterrupted, Settled(m)
          PROVE  Merged(symbols'[t][m], t, m, Frm.next + 1, Frm.specific)
      <3>1. Merged(s, t, m, Frm.next, Frm.specific)
        BY <1>2, <2>1, TopMerged DEF s, t, m
      <3>2. symbols'[t][m] = s
        BY <1>7 DEF s
      <3> QED
        BY <1>1, <1>3, <1>5, <1>7, <3>1, <3>2, MemberOfGlobalMerged
    <2> QED
      BY <1>1, <1>2, <1>3, <1>7, <2>1, OnwardsRules DEF t, m
  <1>8. ASSUME as \notin Globals(m), as \notin Frm.specific, ~(Cardinality(MemberObjects) > 1),
               NEW o \in MemberObjects,
               symbols' = [symbols EXCEPT ![t] = [symbols[t] EXCEPT ![m] = [s EXCEPT ![as] = {o}]]],
               Onwards(Frm.specific \cup {as}), UNCHANGED phase
        PROVE  RulesInv'
    <2>1. symbols \in [Tables -> [Modules -> [Names -> SUBSET Objects]]]
      BY DEF Inv, TablesOK
    <2>2. s \in [Names -> SUBSET Objects]
      BY <1>3, <2>1 DEF s
    <2> DEFINE row == [s EXCEPT ![as] = {o}]
    <2>3. \A n \in Names : row[n] = IF n = as THEN {o} ELSE s[n]
      BY <1>4, <2>2
    <2> HIDE DEF row
    <2>4. /\ symbols'[t][m] = row
          /\ \A u \in Tables : \A l \in Modules : u # t \/ l # m => symbols'[u][l] = symbols[u][l]
      BY <1>3, <1>8, <2>1 DEF row
    <2>5. ASSUME Orderly, Uninterrupted, Settled(m)
          PROVE  Merged(symbols'[t][m], t, m, Frm.next + 1, Frm.specific \cup {as})
      <3>1. Merged(s, t, m, Frm.next, Frm.specific) /\ ~ImportedTwice(m)
        BY <1>2, <2>5, TopMerged DEF s, t, m
      <3>2. MemberObjects \in SUBSET Objects
        BY <1>3, <1>4, <2>1 DEF MemberObjects
      <3>3. MemberObjects = {o}
        BY <1>8, <3>2, OneObject
      <3>4. ByTheRules(MemberTable(Imp), Imp.from, Imp.member) = {o}
        BY <1>1, <2>5, <3>3, MemberTakes DEF m
      <3>5. \A n \in Names : row[n] =
               IF n = Imp.as THEN ByTheRules(MemberTable(Imp), Imp.from, Imp.member) ELSE s[n]
        BY <2>3, <3>4
      <3>6. Merged(row, t, m, Frm.next + 1, Frm.specific \cup {Imp.as})
        <4>1. PICK i, k : i = Imp /\ k = Frm.next
          OBVIOUS
        <4>2. /\ k \in 1 .. Len(imports[m]) /\ i = imports[m][k] /\ i.kind = "member"
              /\ InTable(t, i.visible) /\ i.as \notin Globals(m) /\ Merged(s, t, m, k, Frm.specific)
          BY <1>1, <1>3, <1>5, <1>8, <3>1, <4>1
        <4>3. \A n \in Names : row[n] = IF n = i.as THEN ByTheRules(MemberTable(i), i.from, i.member) ELSE s[n]
          BY <3>5, <4>1
        <4>4. Merged(row, t, m, k + 1, Frm.specific \cup {i.as})
          BY <1>3, <1>5, <2>5, <3>1, <4>2, <4>3, MemberMerged
        <4> QED
          BY <4>1, <4>4
      <3> QED
        BY <2>4, <3>6
    <2>6. Frm.specific \cup {as} \in SUBSET Names
      BY <1>3, <1>4
    <2> QED
      BY <1>1, <1>2, <1>3, <1>8, <2>4, <2>5, <2>6, OnwardsRules DEF t, m
  <1> QED
    BY <1>1, <1>6, <1>7, <1>8

(***************************************************************************)
(* Steps that begin or end a walk.                                         *)
(***************************************************************************)
(* A table that is not marked can be walked, the first time or again. *)
LEMMA NewFrameRules ==
    ASSUME Inv, Inv', Stacked, AtTheStart, Started, Orderly, Lawful, UNCHANGED program, UNCHANGED <<symbols, lines>>,
           NEW t \in Tables, NEW m \in Modules, m \notin busy[t], NEW f, f = NewFrame(t, m)
    PROVE  FrameOK(f)'
  <1>1. f.table = t /\ f.module = m /\ f.next = 1 /\ f.fetched = 0 /\ f.specific = {}
    BY DEF NewFrame
  <1>2. Settled(m)' <=> Settled(m)
    BY SameTable
  <1>3. Settled(m) => Merged(symbols[t][m], t, m, 1, {})
    BY SettledOnce, EnterMerged DEF Lawful, TablesLawful, Inv
  <1>4. symbols'[t][m] = symbols[t][m]
    OBVIOUS
  <1>5. Settled(m)' => Merged(symbols'[t][m], t, m, 1, {})
    BY <1>2, <1>3, <1>4
  <1>6. Settled(m)' => Merged(symbols[t][m], t, m, 1, {})'
    BY <1>5, MergedKept DEF Inv
  <1>7. 1 .. f.fetched = {}
    BY <1>1
  <1>8. Settled(f.module)' => Merged(symbols[f.table][f.module], f.table, f.module, f.next, f.specific)'
    BY <1>1, <1>6
  <1> QED
    BY <1>7, <1>8 DEF FrameOK

LEMMA LoadTableRules == Inv /\ Inv' /\ RulesInv /\ LoadTable => RulesInv'
  <1> SUFFICES ASSUME Inv, Inv', RulesInv, LoadTable PROVE RulesInv'
    OBVIOUS
  <1> DEFINE t == query.table
             m == query.module
  <1>1. /\ phase = "lookup" /\ stack = <<>> /\ m \notin loaded[t]
        /\ UNCHANGED program /\ UNCHANGED <<symbols, answer, phase, lines>>
        /\ \/ m \in busy[t] /\ UNCHANGED <<busy, stack>>
           \/ m \notin busy[t] /\ Enter(t, m) /\ UNCHANGED loaded
    BY DEF LoadTable, asking
  <1>2. t \in Tables /\ m \in Modules
    BY DEF Inv, Control, Query
  <1>3. Started /\ Stacked /\ AtTheStart /\ AtTheStart'
    BY <1>1, StartKept DEF RulesInv, Started
  <1> HIDE DEF t, m
  <1>4. Len(stack) = 0
    BY <1>1
  <1>5. CASE m \in busy[t] /\ UNCHANGED <<busy, stack>>
    <2>1. Stacked'
      BY <1>1, <1>4, <1>5 DEF Stacked
    <2>2. ~Uninterrupted'
      BY <1>2, <1>4, <1>5 DEF Uninterrupted
    <2> QED
      BY <1>3, <2>1, <2>2 DEF RulesInv
  <1>6. CASE m \notin busy[t] /\ Enter(t, m) /\ UNCHANGED loaded
    <2>1. PICK f : f = NewFrame(t, m)
      OBVIOUS
    <2>2. f \in Frame /\ f.table = t /\ f.module = m
      BY <1>2, <2>1, NewFrameOK DEF NewFrame
    <2>3. stack' = <<f>> /\ Len(stack') = 1 /\ stack'[1] = f
      BY <1>1, <1>6, <2>1 DEF Enter
    <2>4. busy \in [Tables -> SUBSET Modules]
      BY DEF Inv, TablesOK
    <2>5. /\ busy' = [busy EXCEPT ![t] = busy[t] \cup {m}]
          /\ \A u \in Tables : \A l \in Modules : l \in busy'[u] <=> l \in busy[u] \/ (u = t /\ l = m)
      BY <1>2, <1>6, <2>4 DEF Enter
    <2>6. Stacked'
      BY <1>1, <1>2, <2>2, <2>3, <2>5 DEF Stacked
    <2>7. ASSUME Orderly', Uninterrupted' PROVE Lawful'
      <3>1. Orderly
        BY <1>1, <2>7, ProgramKept
      <3>2. Uninterrupted
        <4>1. ASSUME NEW u \in Tables, NEW l \in busy[u] PROVE FALSE
          <5>1. l \in Modules
            BY <2>4
          <5>2. l \in busy'[u]
            BY <2>5, <5>1
          <5>3. PICK i \in 1 .. Len(stack') : stack'[i].table = u /\ stack'[i].module = l
            BY <2>7, <5>2 DEF Uninterrupted
          <5>4. i = 1
            BY <2>3
          <5> QED
            BY <1>6, <2>2, <2>3, <5>3, <5>4
        <4> QED
          BY <4>1 DEF Uninterrupted
      <3>3. Lawful
        BY <1>3, <3>1, <3>2 DEF RulesInv
      <3>4. FrameOK(f)'
        BY <1>1, <1>2, <1>3, <1>6, <2>1, <3>1, <3>3, NewFrameRules
      <3>5. \A i \in 1 .. Len(stack') : FrameOK(stack[i])'
        <4>1. FrameOK(stack[1])'
          BY <2>3, <3>4
        <4>2. \A i \in 1 .. Len(stack') : i = 1
          BY <2>3
        <4> QED
          BY <4>1, <4>2
      <3>6. Ordered'
        BY <2>3 DEF Ordered
      <3>7. TablesLawful'
        BY <1>1, <1>2, <1>6, <2>5, <3>3, TablesLawfulKept DEF Lawful, TablesLawful
      <3>8. AnswerLawful'
        BY <1>1, <3>3, AnswerKept DEF Lawful
      <3> QED
        BY <3>5, <3>6, <3>7, <3>8 DEF Lawful
    <2> QED
      BY <1>3, <2>6, <2>7 DEF RulesInv
  <1> QED
    BY <1>1, <1>5, <1>6

(* The table that an import takes next. *)
LEMMA NextTable ==
    ASSUME Inv, Walking, Frm.fetched < Len(Needs(Imp)), NEW k, k = Frm.fetched + 1
    PROVE  /\ k \in 1 .. 2 /\ Needs(Imp)[k] \in Tables
           /\ Imp.kind = "member" \/ (Imp.kind = "star" /\ Needs(Imp)[k] = "public")
  <1>1. Imp.kind \in {"module", "star", "member"}
    BY AtImport, ImportFields DEF Inv
  <1>2. Frm.fetched \in 0 .. 2
    BY StackFacts DEF Walking
  <1>3. CASE Imp.kind = "module"
    BY <1>2, <1>3 DEF Needs
  <1>4. CASE Imp.kind = "star"
    BY <1>2, <1>4 DEF Needs, Tables
  <1>5. CASE Imp.kind = "member"
    <2>1. Needs(Imp) = <<"public", "all">>
      BY <1>5 DEF Needs
    <2> QED
      BY <1>2, <1>5, <2>1 DEF Tables
  <1> QED
    BY <1>1, <1>3, <1>4, <1>5

(* A frame that has taken one more table. *)
LEMMA OneMoreTable ==
    ASSUME Inv, Inv', UNCHANGED program, UNCHANGED lines, NEW r \in Frame, FrameOK(r),
           \A t, m : HasOrWaits(t, m) => HasOrWaits(t, m)',
           symbols'[r.table][r.module] = symbols[r.table][r.module],
           NEW k \in 1 .. 2, k = r.fetched + 1, NEW f, f = [r EXCEPT !.fetched = k],
           NEW u, NEW l, u = Needs(At(r))[k], l = At(r).from, HasOrWaits(u, l)'
    PROVE  FrameOK(f)'
  <1>1. /\ f.table = r.table /\ f.module = r.module /\ f.next = r.next
        /\ f.specific = r.specific /\ f.fetched = k /\ r.fetched \in 0 .. 2
    BY DEF Frame
  <1>2. FrameOK(r)'
    BY FrameKept
  <1>3. At(f)' = At(r)' /\ At(r)' = At(r)
    BY <1>1, ProgramKept DEF At
  <1>4. \A j \in 1 .. k : j = k \/ j \in 1 .. r.fetched
    BY <1>1
  <1>5. \A j \in 1 .. f.fetched : HasOrWaits(Needs(At(r))[j], At(r).from)'
    <2>1. \A j \in 1 .. r.fetched : HasOrWaits(Needs(At(r))[j], At(r).from)'
      BY <1>2 DEF FrameOK
    <2>2. HasOrWaits(Needs(At(r))[k], At(r).from)'
      BY <1>3
    <2> QED
      BY <1>1, <1>4, <2>1, <2>2
  <1>6. Settled(f.module)' =>
           Merged(symbols[f.table][f.module], f.table, f.module, f.next, f.specific)'
    BY <1>1, <1>2 DEF FrameOK
  <1> QED
    BY <1>3, <1>5, <1>6 DEF FrameOK

(* A table that is loaded, or being loaded, is taken as it is. *)
LEMMA TakeRules ==
    ASSUME Inv, Inv', RulesInv, Walking, UNCHANGED program, UNCHANGED lines,
           UNCHANGED <<loaded, busy, answer, phase>>, UNCHANGED symbols,
           NEW k \in 1 .. 2, k = Frm.fetched + 1, NEW t \in Tables, t = Needs(Imp)[k],
           NEW m, m = Imp.from, Available(t, m),
           NEW f, f = [Frm EXCEPT !.fetched = k], SetFrame(f)
    PROVE  RulesInv'
  <1>1. /\ stack # <<>> /\ Len(stack) \in 1 .. Len(stack) /\ Frm = stack[Len(stack)]
    BY StackFacts DEF Walking
  <1>2. Frm \in Frame /\ m \in Modules /\ Imp = At(Frm)
    BY AtImport
  <1>3. f \in Frame
    <2>1. k \in 0 .. 2
      OBVIOUS
    <2> QED
      BY <1>2, <2>1, FetchedOneMoreOK
  <1>4. f.table = Frm.table /\ f.module = Frm.module
    BY <1>2 DEF Frame
  <1>5. ASSUME Lawful, \A u, l : HasOrWaits(u, l) => HasOrWaits(u, l)' PROVE FrameOK(f)'
    <2>1. PICK r : r = Frm
      OBVIOUS
    <2>2. r \in Frame /\ FrameOK(r) /\ f = [r EXCEPT !.fetched = k] /\ k = r.fetched + 1
      <3>1. FrameOK(Frm)
        BY <1>1, <1>5 DEF Lawful
      <3> QED
        BY <1>2, <2>1, <3>1
    <2>3. t = Needs(At(r))[k] /\ m = At(r).from
      BY <1>2, <2>1
    <2>4. HasOrWaits(t, m)
      <3>1. m \in busy[t] \/ m \in loaded[t]
        BY DEF Available
      <3>2. m \in loaded[t] => (Settled(m) => Done(t, m))
        BY <1>5 DEF Lawful, TablesLawful
      <3> QED
        BY <1>2, <3>1, <3>2 DEF HasOrWaits
    <2>5. HasOrWaits(t, m)'
      BY <1>5, <2>4
    <2>6. symbols'[r.table][r.module] = symbols[r.table][r.module]
      OBVIOUS
    <2> QED
      BY <1>5, <2>2, <2>3, <2>5, <2>6, OneMoreTable
  <1>6. \A u \in Tables : \A l \in Modules :
           u # Frm.table \/ l # Frm.module => symbols'[u][l] = symbols[u][l]
    OBVIOUS
  <1> QED
    BY <1>3, <1>4, <1>5, <1>6, WithinWalk

(* Any other table is walked first. *)
LEMMA DescendRules ==
    ASSUME Inv, Inv', RulesInv, Walking, UNCHANGED program, UNCHANGED lines,
           UNCHANGED <<loaded, answer, phase>>, UNCHANGED symbols,
           NEW k \in 1 .. 2, k = Frm.fetched + 1, NEW t \in Tables, t = Needs(Imp)[k],
           Imp.kind = "member" \/ (Imp.kind = "star" /\ t = "public"),
           NEW m, m = Imp.from, ~Available(t, m),
           busy' = [busy EXCEPT ![t] = busy[t] \cup {m}],
           NEW f, f = [Frm EXCEPT !.fetched = k],
           NEW g, g = NewFrame(t, m),
           stack' = Append(Append(Front(stack), f), g)
    PROVE  RulesInv'
  <1> DEFINE L == Len(stack)
  <1>1. /\ stack # <<>> /\ L \in 1 .. L /\ Frm = stack[L] /\ L \in Nat
        /\ \A i \in 1 .. L : stack[i] \in Frame /\ stack[i].table \in Tables /\ stack[i].module \in Modules
    BY StackFacts DEF Walking
  <1>2. /\ Frm \in Frame /\ m \in Modules /\ Imp = At(Frm) /\ Imp \in ImportsOf(Frm.module)
        /\ Frm.table \in Tables /\ Frm.module \in Modules
    BY AtImport
  <1>3. f \in Frame /\ g \in Frame
    <2>1. k \in 0 .. 2
      OBVIOUS
    <2>2. f \in Frame
      BY <1>2, <2>1, FetchedOneMoreOK
    <2>3. g \in Frame
      BY <1>2, NewFrameOK
    <2> QED
      BY <2>2, <2>3
  <1>4. /\ f.table = Frm.table /\ f.module = Frm.module /\ f.next = Frm.next
        /\ g.table = t /\ g.module = m
    BY <1>2 DEF Frame, NewFrame
  <1>5. /\ Len(stack') = L + 1 /\ stack'[L] = f /\ stack'[L + 1] = g
        /\ \A i \in 1 .. L : i # L => stack'[i] = stack[i]
    <2> DEFINE below == Append(Front(stack), f)
    <2>1. /\ below \in Seq(Frame) /\ Len(below) = L /\ below[L] = f
          /\ \A i \in 1 .. L - 1 : below[i] = stack[i]
      BY <1>1, <1>3, TopReplaced DEF Inv, Control
    <2>2. stack' = Append(below, g)
      OBVIOUS
    <2> HIDE DEF below
    <2>3. /\ Len(stack') = L + 1 /\ stack'[L + 1] = g
          /\ \A i \in 1 .. L : stack'[i] = below[i]
      <3>1. /\ Len(Append(below, g)) = Len(below) + 1 /\ Append(below, g)[Len(below) + 1] = g
            /\ \A i \in 1 .. Len(below) : Append(below, g)[i] = below[i]
        BY <1>3, <2>1, Pushed
      <3> QED
        BY <2>1, <2>2, <3>1
    <2>4. \A i \in 1 .. L : i # L => i \in 1 .. L - 1
      BY <1>1
    <2> QED
      BY <1>1, <2>1, <2>3, <2>4
  <1>6. /\ \A i \in 1 .. L : stack'[i].table = stack[i].table /\ stack'[i].module = stack[i].module
                             /\ stack'[i].next = stack[i].next
        /\ \A i \in 1 .. Len(stack') : i \in 1 .. L \/ i = L + 1
    <2>1. /\ stack'[L].table = stack[L].table /\ stack'[L].module = stack[L].module
          /\ stack'[L].next = stack[L].next
      BY <1>1, <1>4, <1>5
    <2>2. \A i \in 1 .. Len(stack') : i \in 1 .. L \/ i = L + 1
      BY <1>1, <1>5
    <2> QED
      BY <1>5, <2>1, <2>2
  <1>7. busy \in [Tables -> SUBSET Modules]
    BY DEF Inv, TablesOK
  <1>8. \A u \in Tables : \A l \in Modules : l \in busy'[u] <=> l \in busy[u] \/ (u = t /\ l = m)
    BY <1>2, <1>7
  <1>9. m \notin busy[t] /\ m \notin loaded[t]
    BY DEF Available
  <1>10. imports' = imports
    BY ProgramKept
  <1>11. Started /\ phase = "lookup" /\ phase' = "lookup" /\ Stacked /\ AtTheStart
    BY <1>1 DEF RulesInv, Stacked, Started
  <1>12. Stacked'
    <2>1. \A i \in 1 .. Len(stack') : stack'[i].module \in busy'[stack'[i].table]
      <3>1. \A i \in 1 .. L : stack'[i].module \in busy'[stack'[i].table]
        <4>1. \A i \in 1 .. L : stack[i].module \in busy[stack[i].table]
          BY <1>11 DEF Stacked
        <4>2. \A i \in 1 .. L : stack[i].module \in busy'[stack[i].table]
          BY <1>1, <1>7, <1>8, <4>1
        <4> QED
          BY <1>6, <4>2
      <3>2. stack'[L + 1].module \in busy'[stack'[L + 1].table]
        BY <1>2, <1>4, <1>5, <1>8
      <3> QED
        BY <1>6, <3>1, <3>2
    <2>2. ASSUME NEW i \in 1 .. Len(stack') - 1
          PROVE  /\ stack'[i].next <= Len(imports[stack'[i].module])
                 /\ imports[stack'[i].module][stack'[i].next].from = stack'[i + 1].module
      <3>1. i \in 1 .. L
        BY <1>1, <1>5
      <3>2. CASE i = L
        <4>1. stack'[i] = f /\ stack'[i + 1] = g
          BY <1>5, <3>2
        <4>2. Frm.next <= Len(imports[Frm.module]) /\ imports[Frm.module][Frm.next].from = m
          BY <1>2 DEF Walking, At
        <4>3. /\ stack'[i].next = Frm.next /\ stack'[i].module = Frm.module
              /\ stack'[i + 1].module = m
          BY <1>4, <4>1
        <4> QED
          BY <4>2, <4>3
      <3>3. CASE i # L
        <4>1. i \in 1 .. Len(stack) - 1 /\ i + 1 \in 1 .. L
          BY <1>1, <3>1, <3>3
        <4>2. stack[i].next <= Len(imports[stack[i].module]) /\ At(stack[i]).from = stack[i + 1].module
          BY <1>11, <4>1 DEF Stacked
        <4> QED
          BY <1>6, <3>1, <4>1, <4>2 DEF At
      <3> QED
        BY <3>2, <3>3
    <2>3. ASSUME NEW i \in 1 .. Len(stack'), NEW j \in 1 .. Len(stack'), i < j
          PROVE  stack'[i].table # stack'[j].table \/ stack'[i].module # stack'[j].module
      <3>1. i \in 1 .. L
        BY <1>1, <1>5, <2>3
      <3>2. CASE j = L + 1
        <4>1. stack[i].module \in busy[stack[i].table]
          BY <1>11, <3>1 DEF Stacked
        <4> QED
          BY <1>4, <1>5, <1>6, <1>9, <3>1, <3>2, <4>1
      <3>3. CASE j \in 1 .. L
        <4>1. stack[i].table # stack[j].table \/ stack[i].module # stack[j].module
          BY <1>11, <2>3, <3>1, <3>3 DEF Stacked
        <4> QED
          BY <1>6, <3>1, <3>3, <4>1
      <3> QED
        BY <1>6, <3>2, <3>3
    <2>4. \A i \in 1 .. Len(stack') - 1 :
             stack'[i].next <= Len(imports'[stack'[i].module]) /\ At(stack[i])'.from = stack'[i + 1].module
      BY <1>10, <2>2 DEF At
    <2>5. \A i, j \in 1 .. Len(stack') :
             i < j => stack'[i].table # stack'[j].table \/ stack'[i].module # stack'[j].module
      BY <2>3
    <2> QED
      BY <1>11, <2>1, <2>4, <2>5 DEF Stacked
  <1>13. AtTheStart'
    BY <1>11, StartKept
  <1>14. ASSUME Orderly', Uninterrupted' PROVE Lawful'
    <2>1. Orderly /\ Acyclic /\ NoMembersOfItself
      BY <1>14, ProgramKept DEF Orderly
    <2>2. Uninterrupted
      <3>1. ASSUME NEW u \in Tables, NEW l \in busy[u]
            PROVE  \E i \in 1 .. Len(stack) : stack[i].table = u /\ stack[i].module = l
        <4>1. l \in Modules
          BY <1>7
        <4>2. PICK i \in 1 .. Len(stack') : stack'[i].table = u /\ stack'[i].module = l
          BY <1>8, <1>14, <4>1 DEF Uninterrupted
        <4>3. i # L + 1
          BY <1>4, <1>5, <1>9, <4>2
        <4> QED
          BY <1>6, <4>2, <4>3
      <3> QED
        BY <3>1 DEF Uninterrupted
    <2>3. Lawful /\ Ordered
      BY <1>11, <2>1, <2>2 DEF RulesInv, Lawful
    <2>4. \A u, l : HasOrWaits(u, l) => HasOrWaits(u, l)'
      BY <1>8, WaitsKept
    <2>5. Ordered'
      <3>1. ASSUME NEW i \in 1 .. L, stack[i].module = m
            PROVE  i = L /\ stack[L].table = "all" /\ t = "public"
        <4>1. Imp.from = Frm.module
          BY <2>1, <2>3, <3>1, NoWayBack DEF RulesInv, Stacked
        <4>2. Imp.kind # "member"
          BY <1>2, <2>1, <4>1 DEF NoMembersOfItself
        <4>3. Frm.module \in busy[Frm.table]
          BY <1>1, <1>11 DEF Stacked
        <4>4. t = "public" /\ Frm.table = "all"
          BY <1>2, <1>9, <4>1, <4>2, <4>3 DEF Tables
        <4>5. i = L
          <5> SUFFICES ASSUME i # L PROVE FALSE
            OBVIOUS
          <5>1. i < L /\ L \in 1 .. Len(stack)
            BY <1>1
          <5>2. stack[L].table = "public"
            BY <1>1, <2>3, <3>1, <4>1, <5>1 DEF Ordered
          <5> QED
            BY <1>1, <4>4, <5>2
        <4> QED
          BY <1>1, <4>4, <4>5
      <3>2. ASSUME NEW i \in 1 .. Len(stack'), NEW j \in 1 .. Len(stack'), i < j,
                   stack'[i].module = stack'[j].module
            PROVE  j = i + 1 /\ stack'[i].table = "all" /\ stack'[j].table = "public"
        <4>1. i \in 1 .. L
          BY <1>1, <1>5, <3>2
        <4>2. CASE j = L + 1
          <5>1. stack[i].module = m
            BY <1>4, <1>5, <1>6, <3>2, <4>1, <4>2
          <5> QED
            BY <1>4, <1>5, <1>6, <3>1, <4>1, <4>2, <5>1
        <4>3. CASE j \in 1 .. L
          <5>1. stack[i].module = stack[j].module
            BY <1>6, <3>2, <4>1, <4>3
          <5>2. j = i + 1 /\ stack[i].table = "all" /\ stack[j].table = "public"
            BY <2>3, <3>2, <4>1, <4>3, <5>1 DEF Ordered
          <5> QED
            BY <1>6, <4>1, <4>3, <5>2
        <4> QED
          BY <1>6, <4>2, <4>3
      <3> QED
        BY <3>2 DEF Ordered
    <2>6. ASSUME NEW i \in 1 .. Len(stack') PROVE FrameOK(stack[i])'
      <3>1. CASE i = L + 1
        <4>1. FrameOK(g)'
          BY <1>2, <1>9, <1>11, <2>1, <2>3, NewFrameRules
        <4> QED
          BY <1>5, <3>1, <4>1
      <3>2. CASE i = L
        <4>1. PICK r : r = Frm
          OBVIOUS
        <4>2. r \in Frame /\ FrameOK(r) /\ f = [r EXCEPT !.fetched = k] /\ k = r.fetched + 1
          <5>1. FrameOK(Frm)
            BY <1>1, <2>3 DEF Lawful
          <5> QED
            BY <1>2, <4>1, <5>1
        <4>3. t = Needs(At(r))[k] /\ m = At(r).from
          BY <1>2, <4>1
        <4>4. HasOrWaits(t, m)'
          BY <1>2, <1>8 DEF HasOrWaits
        <4>5. FrameOK(f)'
          <5>1. symbols'[r.table][r.module] = symbols[r.table][r.module]
            OBVIOUS
          <5> QED
            BY <2>4, <4>2, <4>3, <4>4, <5>1, OneMoreTable
        <4> QED
          BY <1>5, <3>2, <4>5
      <3>3. CASE i \in 1 .. L /\ i # L
        <4>1. stack'[i] = stack[i] /\ FrameOK(stack[i]) /\ stack[i] \in Frame
          BY <1>1, <1>5, <2>3, <3>3 DEF Lawful
        <4>2. symbols'[stack[i].table][stack[i].module] = symbols[stack[i].table][stack[i].module]
          OBVIOUS
        <4>3. FrameOK(stack[i])'
          BY <2>4, <4>1, <4>2, FrameKept
        <4> QED
          BY <4>1, <4>3
      <3> QED
        BY <1>6, <3>1, <3>2, <3>3
    <2>7. TablesLawful'
      BY <1>2, <1>8, <1>9, <2>3, TablesLawfulKept DEF Lawful, TablesLawful
    <2>8. AnswerLawful'
      BY <2>3, AnswerKept DEF Lawful
    <2> QED
      BY <2>5, <2>6, <2>7, <2>8 DEF Lawful
  <1> QED
    BY <1>12, <1>13, <1>14 DEF RulesInv

LEMMA FetchRules == Inv /\ Inv' /\ RulesInv /\ Fetch => RulesInv'
  <1> SUFFICES ASSUME Inv, Inv', RulesInv, Fetch PROVE RulesInv'
    OBVIOUS
  <1>1. PICK k : k = Frm.fetched + 1
    OBVIOUS
  <1>2. PICK t, m, f : t = Needs(Imp)[k] /\ m = Imp.from /\ f = [Frm EXCEPT !.fetched = k]
    OBVIOUS
  <1>3. PICK g : g = NewFrame(t, m)
    OBVIOUS
  <1>4. /\ Walking /\ Frm.fetched < Len(Needs(Imp))
        /\ UNCHANGED program /\ UNCHANGED symbols /\ UNCHANGED <<loaded, answer, phase, lines>>
        /\ \/ Available(t, m) /\ SetFrame(f) /\ UNCHANGED busy
           \/ /\ ~Available(t, m) /\ busy' = [busy EXCEPT ![t] = busy[t] \cup {m}]
              /\ stack' = Append(Append(Front(stack), f), g)
    BY <1>1, <1>2, <1>3 DEF Fetch, asking
  <1>5. /\ k \in 1 .. 2 /\ t \in Tables
        /\ Imp.kind = "member" \/ (Imp.kind = "star" /\ t = "public")
    BY <1>1, <1>2, <1>4, NextTable
  <1>6. CASE Available(t, m) /\ SetFrame(f) /\ UNCHANGED busy
    BY <1>1, <1>2, <1>4, <1>5, <1>6, TakeRules
  <1>7. CASE /\ ~Available(t, m) /\ busy' = [busy EXCEPT ![t] = busy[t] \cup {m}]
             /\ stack' = Append(Append(Front(stack), f), g)
    BY <1>1, <1>2, <1>3, <1>4, <1>5, <1>7, DescendRules
  <1> QED
    BY <1>4, <1>6, <1>7

(* The table a walk ends on is complete. *)
LEMMA TopDone ==
    ASSUME Inv, RulesInv, stack # <<>>, Frm.next > Len(imports[Frm.module]),
           Orderly, Uninterrupted, Settled(Frm.module)
    PROVE  Done(Frm.table, Frm.module)
  <1>1. /\ Frm = stack[Len(stack)] /\ Len(stack) \in 1 .. Len(stack)
        /\ Frm.table \in Tables /\ Frm.module \in Modules /\ Frm.next \in Nat \ {0}
    BY StackFacts
  <1>2. Started /\ AtTheStart
    BY DEF RulesInv, Stacked, Started
  <1>3. FrameOK(Frm)
    BY <1>1, <1>2 DEF RulesInv, Lawful
  <1>4. Merged(symbols[Frm.table][Frm.module], Frm.table, Frm.module, Frm.next, Frm.specific)
    BY <1>3 DEF FrameOK
  <1>5. ~ImportedTwice(Frm.module)
    BY <1>1, <1>2, SettledOnce
  <1>6. Declarations
    BY DEF Inv
  <1> QED
    BY <1>1, <1>4, <1>5, <1>6, EndMerged DEF Done

LEMMA LeaveRules == Inv /\ Inv' /\ RulesInv /\ Leave => RulesInv'
  <1> SUFFICES ASSUME Inv, Inv', RulesInv, Leave PROVE RulesInv'
    OBVIOUS
  <1> DEFINE L == Len(stack)
  <1>1. PICK t, m : t = Frm.table /\ m = Frm.module
    OBVIOUS
  <1>2. /\ stack # <<>> /\ Frm.next > Len(imports[Frm.module])
        /\ UNCHANGED program /\ UNCHANGED <<symbols, answer, phase, lines>>
        /\ busy' = [busy EXCEPT ![t] = busy[t] \ {m}] /\ stack' = Front(stack)
        /\ loaded' = loaded \/ loaded' = [loaded EXCEPT ![t] = loaded[t] \cup {m}]
    BY <1>1 DEF Leave, asking
  <1>3. /\ L \in 1 .. L /\ Frm = stack[L] /\ L \in Nat /\ t \in Tables /\ m \in Modules
        /\ \A i \in 1 .. L : stack[i] \in Frame /\ stack[i].table \in Tables /\ stack[i].module \in Modules
    BY <1>1, <1>2, StackFacts
  <1>4. /\ Len(stack') = L - 1
        /\ \A i \in 1 .. Len(stack') : i \in 1 .. L /\ i < L /\ stack'[i] = stack[i]
    <2>1. Len(stack') = L - 1 /\ \A i \in 1 .. L - 1 : stack'[i] = stack[i]
      BY <1>2, TopAndBelow DEF Inv, Control
    <2>2. \A i \in 1 .. L - 1 : i \in 1 .. L /\ i < L
      BY <1>3
    <2> QED
      BY <2>1, <2>2
  <1>5. busy \in [Tables -> SUBSET Modules] /\ loaded \in [Tables -> SUBSET Modules]
    BY DEF Inv, TablesOK
  <1>6. \A u \in Tables : \A l \in Modules :
           /\ l \in busy'[u] <=> l \in busy[u] /\ ~(u = t /\ l = m)
           /\ l \in loaded'[u] => l \in loaded[u] \/ (u = t /\ l = m)
    BY <1>2, <1>3, <1>5
  <1>7. Started /\ phase = "lookup" /\ phase' = "lookup" /\ Stacked /\ AtTheStart
    BY <1>2 DEF RulesInv, Stacked, Started
  <1>8. \A i \in 1 .. Len(stack') : ~(stack[i].table = t /\ stack[i].module = m)
    BY <1>1, <1>3, <1>4, <1>7 DEF Stacked
  <1>9. imports' = imports
    BY <1>2, ProgramKept
  <1>10. Stacked'
    <2>1. \A i \in 1 .. Len(stack') : stack'[i].module \in busy'[stack'[i].table]
      <3> TAKE i \in 1 .. Len(stack')
      <3>1. stack[i].module \in busy[stack[i].table]
        BY <1>4, <1>7 DEF Stacked
      <3> QED
        BY <1>3, <1>4, <1>6, <1>8, <3>1
    <2>2. \A i, j \in 1 .. Len(stack') :
             i < j => stack'[i].table # stack'[j].table \/ stack'[i].module # stack'[j].module
      BY <1>4, <1>7 DEF Stacked
    <2>3. \A i \in 1 .. Len(stack') - 1 :
             stack'[i].next <= Len(imports'[stack'[i].module]) /\ At(stack[i])'.from = stack'[i + 1].module
      <3> TAKE i \in 1 .. Len(stack') - 1
      <3>1. i \in 1 .. L - 1 /\ i \in 1 .. Len(stack') /\ i + 1 \in 1 .. Len(stack')
        BY <1>3, <1>4
      <3>2. stack[i].next <= Len(imports[stack[i].module]) /\ At(stack[i]).from = stack[i + 1].module
        BY <1>7, <3>1 DEF Stacked
      <3>3. stack'[i] = stack[i] /\ stack'[i + 1] = stack[i + 1]
        BY <1>4, <3>1
      <3> QED
        BY <1>9, <3>2, <3>3 DEF At
    <2> QED
      BY <1>7, <2>1, <2>2, <2>3 DEF Stacked
  <1>11. AtTheStart'
    BY <1>2, <1>7, StartKept
  <1>12. ASSUME Orderly', Uninterrupted' PROVE Lawful'
    <2>1. Orderly
      BY <1>2, <1>12, ProgramKept
    <2>2. Uninterrupted
      <3>1. ASSUME NEW u \in Tables, NEW l \in busy[u]
            PROVE  \E i \in 1 .. Len(stack) : stack[i].table = u /\ stack[i].module = l
        <4>1. CASE u = t /\ l = m
          BY <1>1, <1>3, <4>1
        <4>2. CASE ~(u = t /\ l = m)
          <5>1. l \in busy'[u]
            BY <1>5, <1>6, <4>2
          <5>2. PICK i \in 1 .. Len(stack') : stack'[i].table = u /\ stack'[i].module = l
            BY <1>12, <5>1 DEF Uninterrupted
          <5> QED
            BY <1>4, <5>2
        <4> QED
          BY <4>1, <4>2
      <3> QED
        BY <3>1 DEF Uninterrupted
    <2>3. Lawful
      BY <1>7, <2>1, <2>2 DEF RulesInv
    <2>4. Settled(m)' => Done(t, m)'
      <3>1. Settled(m) => Done(t, m)
        BY <1>1, <1>2, <2>1, <2>2, TopDone
      <3> QED
        BY <1>2, <1>3, <3>1, SameTable
    <2>5. \A u \in Tables : \A l \in Modules :
             /\ l \notin busy[u] => symbols'[u][l] = symbols[u][l]
             /\ l \in busy[u] /\ l \notin busy'[u] => (Settled(l)' => Done(u, l)')
      BY <1>2, <1>6, <2>4
    <2>6. \A u, l : HasOrWaits(u, l) => HasOrWaits(u, l)'
      BY <1>2, <2>5, WaitsKept
    <2>7. Ordered'
      BY <1>4, <2>3 DEF Lawful, Ordered
    <2>8. ASSUME NEW i \in 1 .. Len(stack') PROVE FrameOK(stack[i])'
      <3>1. PICK f : f = stack[i]
        OBVIOUS
      <3>2. f \in Frame /\ FrameOK(f) /\ stack'[i] = f
        BY <1>3, <1>4, <2>3, <3>1 DEF Lawful
      <3>3. symbols'[f.table][f.module] = symbols[f.table][f.module]
        BY <1>2
      <3>4. FrameOK(f)'
        BY <1>2, <2>6, <3>2, <3>3, FrameKept
      <3> QED
        BY <3>2, <3>4
    <2>9. TablesLawful'
      <3>1. \A u \in Tables : \A l \in Modules :
               /\ l \in loaded[u] => l \notin busy'[u]
               /\ l \in loaded'[u] \ loaded[u] => l \notin busy'[u] /\ (Settled(l)' => Done(u, l)')
        BY <1>6, <2>3, <2>4 DEF Lawful, TablesLawful
      <3> QED
        BY <1>2, <2>3, <2>5, <3>1, TablesLawfulKept DEF Lawful
    <2>10. AnswerLawful'
      BY <1>2, <2>3, AnswerKept DEF Lawful
    <2> QED
      BY <2>7, <2>8, <2>9, <2>10 DEF Lawful
  <1> QED
    BY <1>10, <1>11, <1>12 DEF RulesInv

(***************************************************************************)
(* Steps that move no table.                                               *)
(***************************************************************************)
LEMMA StandStill ==
    ASSUME Inv, Inv', RulesInv, Started, UNCHANGED program, UNCHANGED lines,
           UNCHANGED <<symbols, loaded, busy, stack>>,
           phase' # "load", phase' # "lookup" => stack = <<>>,
           Orderly /\ Uninterrupted /\ Lawful => AnswerLawful'
    PROVE  RulesInv'
  <1>1. Stacked /\ AtTheStart /\ imports' = imports /\ stack' = stack /\ busy' = busy
    BY ProgramKept DEF RulesInv
  <1>2. Stacked'
    BY <1>1 DEF Stacked, At
  <1>3. AtTheStart'
    BY <1>1, StartKept
  <1>4. ASSUME Orderly', Uninterrupted' PROVE Lawful'
    <2>1. Orderly /\ Uninterrupted
      BY <1>1, <1>4, ProgramKept DEF Uninterrupted
    <2>2. Lawful
      BY <2>1 DEF RulesInv
    <2>3. \A u, l : HasOrWaits(u, l) => HasOrWaits(u, l)'
      BY <1>1, WaitsKept
    <2>4. Ordered'
      BY <1>1, <2>2 DEF Lawful, Ordered
    <2>5. ASSUME NEW i \in 1 .. Len(stack') PROVE FrameOK(stack[i])'
      <3>1. PICK f : f = stack[i]
        OBVIOUS
      <3>2. f \in Frame /\ FrameOK(f) /\ stack'[i] = f
        BY <1>1, <2>2, <3>1, StackFacts DEF Lawful
      <3>3. symbols'[f.table][f.module] = symbols[f.table][f.module]
        OBVIOUS
      <3>4. FrameOK(f)'
        BY <2>3, <3>2, <3>3, FrameKept
      <3> QED
        BY <3>2, <3>4
    <2>6. TablesLawful'
      BY <1>1, <2>2, TablesLawfulKept DEF Lawful, TablesLawful
    <2> QED
      BY <2>1, <2>2, <2>4, <2>5, <2>6 DEF Lawful
  <1> QED
    BY <1>2, <1>3, <1>4 DEF RulesInv

LEMMA LookupRules == \A q \in Asked : Inv /\ Inv' /\ RulesInv /\ Lookup(q) => RulesInv'
  <1> SUFFICES ASSUME NEW q \in Asked, Inv, Inv', RulesInv, Lookup(q) PROVE RulesInv'
    OBVIOUS
  <1>1. /\ phase = "idle" /\ phase' = "lookup" /\ UNCHANGED program
        /\ UNCHANGED <<symbols, loaded, busy, stack>> /\ UNCHANGED <<answer, lines>>
    BY DEF Lookup, tables
  <1>2. Lawful => AnswerLawful'
    BY <1>1, AnswerKept DEF Lawful
  <1> QED
    BY <1>1, <1>2, StandStill DEF Started

LEMMA TryPreludeRules == Inv /\ Inv' /\ RulesInv /\ TryPrelude => RulesInv'
  <1> SUFFICES ASSUME Inv, Inv', RulesInv, TryPrelude PROVE RulesInv'
    OBVIOUS
  <1>1. /\ phase = "lookup" /\ phase' = "lookup" /\ UNCHANGED program
        /\ UNCHANGED <<symbols, loaded, busy, stack>> /\ UNCHANGED <<answer, lines>>
    BY DEF TryPrelude, tables
  <1>2. Lawful => AnswerLawful'
    BY <1>1, AnswerKept DEF Lawful
  <1> QED
    BY <1>1, <1>2, StandStill DEF Started

(* Between walks every table is complete, or as loadDependent left it; an entry of
   the latter is a global, or a module imported by name, and final. *)
LEMMA EntryByTheRules ==
    ASSUME Inv, AtTheStart, Started, Orderly, Uninterrupted, TablesLawful, stack = <<>>,
           NEW t \in Tables, NEW m \in Modules, NEW n \in Names, Settled(m), symbols[t][m][n] # {}
    PROVE  Lawfully(symbols[t][m][n], t, m, n)
  <1>1. m \notin busy[t]
    BY DEF Uninterrupted
  <1>2. CASE Done(t, m)
    BY <1>2 DEF Done, Lawfully
  <1>3. CASE Untouched(t, m)
    <2>1. symbols[t][m][n] = AtFirst(t, m, n)
      BY <1>3 DEF Untouched
    <2>2. n \in Globals(m) \/ NamedModules(t, m, n) # {}
      BY <2>1 DEF AtFirst
    <2> QED
      BY <2>1, <2>2, RulesOfOwn DEF Lawfully, Inv
  <1> QED
    BY <1>1, <1>2, <1>3 DEF TablesLawful

LEMMA AnswerRules == Inv /\ Inv' /\ RulesInv /\ Answer => RulesInv'
  <1> SUFFICES ASSUME Inv, Inv', RulesInv, Answer PROVE RulesInv'
    OBVIOUS
  <1>1. /\ phase = "lookup" /\ stack = <<>> /\ UNCHANGED program /\ UNCHANGED lines
        /\ UNCHANGED <<symbols, loaded, busy>>
        /\ answer' = [query |-> query, objects |-> Entry(query)]
        /\ Raise("ambiguous") \/ (phase' = "idle" /\ UNCHANGED stack)
    BY DEF Answer, tables
  <1>2. phase' \in {"idle", "failed"} /\ stack' = stack
    BY <1>1 DEF Raise
  <1>3. Started /\ AtTheStart
    BY <1>1 DEF Started, RulesInv
  <1>4. PICK t, m, n : t = query.table /\ m = query.module /\ n = query.name
    OBVIOUS
  <1>5. t \in Tables /\ m \in Modules /\ n \in Names
    BY <1>4 DEF Inv, Control, Query
  <1>6. /\ answer'.query.table = t /\ answer'.query.module = m /\ answer'.query.name = n
        /\ answer'.objects = symbols[t][m][n]
    BY <1>1, <1>4 DEF Entry
  <1>7. ASSUME Orderly, Uninterrupted, Lawful PROVE AnswerLawful'
    <2>1. PICK X : X = symbols[t][m][n]
      OBVIOUS
    <2>2. ASSUME Settled(m)', X # {} PROVE Lawfully(X, t, m, n)'
      <3>1. Settled(m)
        BY <1>1, <1>5, <2>2, SameTable
      <3>2. Lawfully(X, t, m, n)
        BY <1>1, <1>3, <1>5, <1>7, <2>1, <2>2, <3>1, EntryByTheRules DEF Lawful
      <3>3. Kept(Modules) /\ Declarations /\ Declarations'
        BY <1>1, ProgramKept, ImportFields DEF Kept, Inv
      <3> QED
        BY <1>5, <3>2, <3>3, LawfullyKept
    <2> QED
      BY <1>6, <2>1, <2>2 DEF AnswerLawful
  <1> QED
    BY <1>1, <1>2, <1>3, <1>7, StandStill

(***************************************************************************)
(* Lines typed at the prompt: what rests on the main module is no longer   *)
(* settled, and nothing else changes.                                      *)
(***************************************************************************)
LEMMA OrderlyBefore ==
    ASSUME Declarations, Declarations', Orderly',
           \A m \in Modules : /\ Len(imports[m]) <= Len(imports'[m])
                              /\ \A j \in 1 .. Len(imports[m]) : imports'[m][j] = imports[m][j]
    PROVE  Orderly
  <1>1. \A m \in Modules : Len(imports[m]) \in Nat /\ Len(imports'[m]) \in Nat
    BY DEF Declarations
  <1>2. \A m \in Modules : \A j \in 1 .. Len(imports[m]) : j \in 1 .. Len(imports'[m])
    BY <1>1
  <1>3. \A m \in Modules : ImportsOf(m) \subseteq ImportsOf(m)'
    BY <1>2 DEF ImportsOf
  <1>4. Acyclic
    BY <1>3 DEF Orderly, Acyclic
  <1>5. NoMembersOfItself
    BY <1>3 DEF Orderly, NoMembersOfItself
  <1> QED
    BY <1>4, <1>5 DEF Orderly

LEMMA LineRules ==
    ASSUME Inv, Inv', RulesInv, phase = "idle", phase' \in {"idle", "failed"}, stack' = <<>>,
           UNCHANGED <<loaded, busy, answer>>, lines' # 0, Orderly' => Orderly,
           \A k \in Modules \ {Main} : imports'[k] = imports[k] /\ globals'[k] = globals[k],
           \A t \in Tables : \A k \in Modules \ {Main} : symbols'[t][k] = symbols[t][k]
    PROVE  RulesInv'
  <1>1. Started /\ Stacked /\ AtTheStart /\ stack = <<>>
    BY DEF RulesInv, Stacked, Started
  <1>2. Len(stack) = 0 /\ Len(stack') = 0
    BY <1>1
  <1>3. Stacked'
    BY <1>2 DEF Stacked
  <1>4. AtTheStart'
    <2>1. \A m \in Modules : m # Main => ~ImportedTwice(m)'
      BY <1>1 DEF AtTheStart, ImportedTwice
    <2> QED
      BY <2>1 DEF AtTheStart
  <1>5. ASSUME Orderly', Uninterrupted' PROVE Lawful'
    <2>1. Orderly /\ Uninterrupted
      BY <1>2, <1>5 DEF Uninterrupted
    <2>2. Lawful
      BY <1>1, <2>1 DEF RulesInv
    <2>3. Declarations /\ Declarations'
      BY DEF Inv
    <2>4. ASSUME NEW m \in Modules, Settled(m)'
          PROVE  Settled(m) /\ m # Main /\ \E S : m \in S /\ Kept(S)
      <3>1. Settled(m) /\ \E S : m \in S /\ Kept(S)
        BY <2>3, <2>4, SettledBefore
      <3>2. m # Main
        BY <2>4 DEF Settled
      <3> QED
        BY <3>1, <3>2
    <2>5. ASSUME NEW t \in Tables, NEW m \in Modules, Settled(m)'
          PROVE  (Done(t, m) => Done(t, m)') /\ (Untouched(t, m) => Untouched(t, m)')
      <3>1. PICK S : m \in S /\ Kept(S)
        BY <2>4, <2>5
      <3>2. symbols'[t][m] = symbols[t][m]
        BY <2>4, <2>5
      <3> QED
        BY <2>3, <3>1, <3>2, TablesKept
    <2>6. TablesLawful'
      <3>1. ASSUME NEW t \in Tables, NEW m \in Modules, m \notin busy'[t], Settled(m)'
            PROVE  Done(t, m)' \/ Untouched(t, m)'
        BY <2>2, <2>4, <2>5, <3>1 DEF Lawful, TablesLawful
      <3>2. ASSUME NEW t \in Tables, NEW m \in loaded'[t]
            PROVE  m \notin busy'[t] /\ (Settled(m)' => Done(t, m)')
        <4>1. m \in Modules
          BY <3>2 DEF Inv, TablesOK
        <4> QED
          BY <2>2, <2>4, <2>5, <3>2, <4>1 DEF Lawful, TablesLawful
      <3> QED
        BY <3>1, <3>2 DEF TablesLawful
    <2>7. AnswerLawful'
      <3>1. PICK t, m, n, X : /\ t = answer.query.table /\ m = answer.query.module
                              /\ n = answer.query.name /\ X = answer.objects
        OBVIOUS
      <3>2. t \in Tables /\ m \in Modules /\ n \in Names
        BY <3>1 DEF Inv, Control, Query
      <3>3. ASSUME Settled(m)', X # {} PROVE Lawfully(X, t, m, n)'
        <4>1. PICK S : m \in S /\ Kept(S)
          BY <2>4, <3>2, <3>3
        <4>2. Settled(m)
          BY <2>4, <3>2, <3>3
        <4>3. Lawfully(X, t, m, n)
          BY <2>2, <3>1, <3>3, <4>2 DEF Lawful, AnswerLawful
        <4> QED
          BY <2>3, <3>2, <4>1, <4>3, LawfullyKept
      <3> QED
        BY <3>1, <3>3 DEF AnswerLawful
    <2>8. Ordered' /\ \A i \in 1 .. Len(stack') : FrameOK(stack[i])'
      BY <1>2 DEF Ordered
    <2> QED
      BY <2>6, <2>7, <2>8 DEF Lawful
  <1> QED
    BY <1>3, <1>4, <1>5 DEF RulesInv

LEMMA TypeImportRules == \A line \in Lines : Inv /\ Inv' /\ RulesInv /\ TypeImport(line) => RulesInv'
  <1> SUFFICES ASSUME NEW line \in Lines, Inv, Inv', RulesInv, TypeImport(line) PROVE RulesInv'
    OBVIOUS
  <1> DEFINE i == line.import
             symbolsOf(t) == symbols[t]
  <1>1. /\ "import" \in DOMAIN line /\ phase = "idle" /\ lines' = lines + 1
        /\ imports' = [imports EXCEPT ![Main] = Append(imports[Main], i)]
        /\ globals' = globals /\ UNCHANGED <<loaded, busy, answer>>
    BY DEF TypeImport, Prompt, asking
  <1>2. \/ Raise("importedAlready") /\ UNCHANGED symbols
        \/ /\ UNCHANGED <<phase, stack>>
           /\ \/ UNCHANGED symbols
              \/ symbols' = [t \in Tables |-> [symbols[t] EXCEPT ![Main][i.as] =
                      IF InTable(t, i.visible) THEN symbols[t][Main][i.as] \cup {<<i.from, Itself>>}
                                               ELSE symbols[t][Main][i.as]]]
    BY DEF TypeImport
  <1>3. i \in Imports
    BY <1>1, SymbolAssumption
  <1>4. stack = <<>>
    BY <1>1 DEF RulesInv, Stacked
  <1> HIDE DEF i
  <1>5. stack' = <<>> /\ phase' \in {"idle", "failed"}
    BY <1>1, <1>2, <1>4 DEF Raise
  <1>6. lines' # 0
    BY <1>1 DEF Inv, Control
  <1>7. /\ \A k \in Modules \ {Main} : imports'[k] = imports[k] /\ globals'[k] = globals[k]
        /\ \A m \in Modules : /\ Len(imports[m]) <= Len(imports'[m])
                              /\ \A j \in 1 .. Len(imports[m]) : imports'[m][j] = imports[m][j]
    <2>1. imports \in [Modules -> Seq(Imports)] /\ Main \in Modules
      BY SymbolAssumption DEF Inv, Declarations
    <2>2. /\ Len(Append(imports[Main], i)) = Len(imports[Main]) + 1
          /\ \A j \in 1 .. Len(imports[Main]) : Append(imports[Main], i)[j] = imports[Main][j]
      BY <1>3, <2>1, Pushed
    <2>3. \A m \in Modules : Len(imports[m]) \in Nat
      BY <2>1
    <2> DEFINE longer == Append(imports[Main], i)
    <2>4. imports'[Main] = longer /\ \A m \in Modules : m # Main => imports'[m] = imports[m]
      <3> HIDE DEF longer
      <3>1. imports' = [imports EXCEPT ![Main] = longer]
        BY <1>1 DEF longer
      <3> QED
        BY <2>1, <3>1
    <2> HIDE DEF longer
    <2>5. Len(longer) = Len(imports[Main]) + 1 /\ \A j \in 1 .. Len(imports[Main]) : longer[j] = imports[Main][j]
      BY <2>2 DEF longer
    <2> QED
      BY <1>1, <2>3, <2>4, <2>5
  <1>8. Orderly' => Orderly
    BY <1>7, OrderlyBefore DEF Inv
  <1>9. \A t \in Tables : \A k \in Modules \ {Main} : symbols'[t][k] = symbols[t][k]
    <2>1. \A t \in Tables : DOMAIN symbols[t] = Modules
      BY DEF Inv, TablesOK
    <2>2. CASE UNCHANGED symbols
      BY <2>2
    <2>3. CASE symbols' = [t \in Tables |-> [symbols[t] EXCEPT ![Main][i.as] =
                      IF InTable(t, i.visible) THEN symbols[t][Main][i.as] \cup {<<i.from, Itself>>}
                                               ELSE symbols[t][Main][i.as]]]
      BY <2>1, <2>3
    <2> QED
      BY <1>2, <2>2, <2>3
  <1> QED
    BY <1>1, <1>5, <1>6, <1>7, <1>8, <1>9, LineRules

LEMMA TypeDefinitionRules == \A line \in Lines : Inv /\ Inv' /\ RulesInv /\ TypeDefinition(line) => RulesInv'
  <1> SUFFICES ASSUME NEW line \in Lines, Inv, Inv', RulesInv, TypeDefinition(line) PROVE RulesInv'
    OBVIOUS
  <1> DEFINE n == line.define
             v == line.visibility
  <1>1. /\ phase = "idle" /\ lines' = lines + 1
        /\ imports' = imports /\ UNCHANGED <<loaded, busy, answer>>
    BY DEF TypeDefinition, Prompt, asking
  <1>2. \/ Raise("redefined") /\ UNCHANGED <<globals, symbols>>
        \/ /\ UNCHANGED <<phase, stack>>
           /\ globals' = [globals EXCEPT ![Main][n] = v]
           /\ symbols' = [t \in Tables |-> [symbols[t] EXCEPT ![Main][n] =
                 IF InTable(t, v) THEN symbols[t][Main][n] \cup {<<Main, n>>} ELSE symbols[t][Main][n]]]
    BY DEF TypeDefinition
  <1>3. stack = <<>>
    BY <1>1 DEF RulesInv, Stacked
  <1> HIDE DEF n, v
  <1>4. stack' = <<>> /\ phase' \in {"idle", "failed"}
    BY <1>1, <1>2, <1>3 DEF Raise
  <1>5. lines' # 0
    BY <1>1 DEF Inv, Control
  <1>6. \A k \in Modules \ {Main} : imports'[k] = imports[k] /\ globals'[k] = globals[k]
    <2>1. DOMAIN globals = Modules
      BY DEF Inv, Declarations
    <2> QED
      BY <1>1, <1>2, <2>1
  <1>7. Orderly' => Orderly
    <2>1. \A m : ImportsOf(m)' = ImportsOf(m)
      BY <1>1 DEF ImportsOf
    <2> QED
      BY <1>1, <2>1 DEF Orderly, Acyclic, NoMembersOfItself
  <1>8. \A t \in Tables : \A k \in Modules \ {Main} : symbols'[t][k] = symbols[t][k]
    <2>1. \A t \in Tables : DOMAIN symbols[t] = Modules
      BY DEF Inv, TablesOK
    <2> QED
      BY <1>2, <2>1
  <1> QED
    BY <1>1, <1>4, <1>5, <1>6, <1>7, <1>8, LineRules

(***************************************************************************)
(* The beginning, and the theorem.                                         *)
(***************************************************************************)
LEMMA InitRules == Init => RulesInv
  <1> SUFFICES ASSUME Init PROVE RulesInv
    OBVIOUS
  <1>1. phase = "load" /\ stack = <<>> /\ answer.objects = {} /\ \A t \in Tables : loaded[t] = {}
    BY DEF Init
  <1>2. Len(stack) = 0
    BY <1>1
  <1> QED
    BY <1>1, <1>2 DEF RulesInv, Stacked, AtTheStart, Started

LEMMA LoadProgramRules == Inv /\ Inv' /\ RulesInv /\ LoadProgram => RulesInv'
  <1> SUFFICES ASSUME Inv, Inv', RulesInv, LoadProgram PROVE RulesInv'
    OBVIOUS
  <1>1. phase = "load" /\ UNCHANGED program /\ UNCHANGED <<loaded, busy, stack, answer>>
    BY DEF LoadProgram, asking
  <1>2. /\ stack = <<>> /\ stack' = <<>> /\ Len(stack') = 0
        /\ answer'.objects = {} /\ \A t \in Tables : loaded'[t] = {}
    BY <1>1 DEF RulesInv, Stacked, AtTheStart
  <1>3. Stacked'
    BY <1>2 DEF Stacked
  <1>4. CASE \E m \in Modules : ImportedTwice(m)
    <2>1. phase' = "failed"
      BY <1>4 DEF LoadProgram
    <2> QED
      BY <1>3, <2>1 DEF RulesInv, AtTheStart, Started
  <1>5. CASE ~\E m \in Modules : ImportedTwice(m)
    <2>1. /\ phase' = "idle"
          /\ symbols' = [t \in Tables |-> [m \in Modules |-> [n \in Names |-> AtFirst(t, m, n)]]]
      BY <1>5 DEF LoadProgram
    <2>2. AtTheStart'
      BY <1>1, <1>5, <2>1, ProgramKept DEF AtTheStart
    <2>3. Kept(Modules)
      BY <1>1, ProgramKept, ImportFields DEF Kept, Inv
    <2>4. \A t \in Tables : \A m \in Modules : Untouched(t, m)'
      BY <2>1, <2>3, DeclarationsKept DEF Untouched
    <2>5. TablesLawful'
      BY <1>2, <2>4 DEF TablesLawful
    <2>6. AnswerLawful'
      BY <1>2 DEF AnswerLawful
    <2>7. Ordered' /\ \A i \in 1 .. Len(stack') : FrameOK(stack[i])'
      BY <1>2 DEF Ordered
    <2> QED
      BY <1>3, <2>2, <2>5, <2>6, <2>7 DEF RulesInv, Lawful
  <1> QED
    BY <1>4, <1>5

LEMMA UnchangedRules == Inv /\ Inv' /\ RulesInv /\ UNCHANGED vars => RulesInv'
  <1> SUFFICES ASSUME Inv, Inv', RulesInv, UNCHANGED vars PROVE RulesInv'
    OBVIOUS
  <1>1. /\ UNCHANGED program /\ UNCHANGED lines /\ UNCHANGED <<symbols, loaded, busy, stack>>
        /\ UNCHANGED <<answer, phase>>
    BY DEF vars, tables, asking
  <1>2. CASE Started
    <2>1. Lawful => AnswerLawful'
      BY <1>1, AnswerKept DEF Lawful
    <2>2. phase' # "load" /\ (phase' # "lookup" => stack = <<>>)
      BY <1>1, <1>2 DEF Started, RulesInv, Stacked
    <2> QED
      BY <1>1, <1>2, <2>1, <2>2, StandStill
  <1>3. CASE ~Started
    <2>1. ~Started' /\ stack = <<>> /\ Len(stack') = 0 /\ stack' = <<>>
      BY <1>1, <1>3 DEF Started, RulesInv, Stacked
    <2>2. Stacked'
      BY <2>1 DEF Stacked
    <2>3. AtTheStart'
      BY <1>1, <2>1 DEF RulesInv, AtTheStart
    <2> QED
      BY <2>1, <2>2, <2>3 DEF RulesInv
  <1> QED
    BY <1>2, <1>3

LEMMA NextRules == Inv /\ Inv' /\ RulesInv /\ [Next]_vars => RulesInv'
  <1> SUFFICES ASSUME Inv, Inv', RulesInv, [Next]_vars PROVE RulesInv'
    OBVIOUS
  <1>1. \/ UNCHANGED vars \/ LoadProgram \/ Answer \/ TryPrelude \/ LoadTable
        \/ SkipImport \/ Fetch \/ AddModuleName \/ AddStar \/ AddMember \/ Leave
        \/ \E q \in Asked : Lookup(q)
        \/ \E line \in Lines : TypeImport(line)
        \/ \E line \in Lines : TypeDefinition(line)
    BY DEF Next, Step, LoadStep
  <1> QED
    BY <1>1, UnchangedRules, LoadProgramRules, AnswerRules, TryPreludeRules, LoadTableRules,
       SkipImportRules, FetchRules, AddModuleNameRules, AddStarRules, AddMemberRules, LeaveRules,
       LookupRules, TypeImportRules, TypeDefinitionRules

LEMMA NeedsTables == \A i : \A t \in ToSet(Needs(i)) : i.kind \in {"module", "star", "member"} =>
                        \E k \in 1 .. Len(Needs(i)) : t = Needs(i)[k] /\ t \in Tables
  <1> SUFFICES ASSUME NEW i, NEW t \in ToSet(Needs(i)), i.kind \in {"module", "star", "member"}
               PROVE  \E k \in 1 .. Len(Needs(i)) : t = Needs(i)[k] /\ t \in Tables
    OBVIOUS
  <1>1. CASE i.kind = "module"
    BY <1>1 DEF Needs, ToSet
  <1>2. CASE i.kind = "star"
    BY <1>2 DEF Needs, ToSet, Tables
  <1>3. CASE i.kind = "member"
    <2>1. Needs(i) = <<"public", "all">>
      BY <1>3 DEF Needs
    <2> QED
      BY <2>1 DEF ToSet, Tables
  <1> QED
    BY <1>1, <1>2, <1>3

LEMMA RulesInvFollowed == Inv /\ RulesInv => TablesFollowRules
  <1> SUFFICES ASSUME Inv, RulesInv PROVE TablesFollowRules
    OBVIOUS
  <1>1. Regular => Orderly /\ Uninterrupted
    BY DEF Regular, Orderly
  <1>2. ASSUME phase = "idle", Regular PROVE TablesLawful /\ AnswerLawful
    BY <1>1, <1>2 DEF RulesInv, Started, Lawful
  <1>3. NamesFollowRules
    <2>1. \A t \in Tables : loaded[t] \subseteq Modules
      BY DEF Inv, TablesOK
    <2> QED
      BY <1>2, <2>1 DEF NamesFollowRules, TablesHoldAll, AnswersFollowRules, TablesLawful, AnswerLawful,
                        Lawfully, Done
  <1>4. ImportsSeeWholeTables
    <2> SUFFICES ASSUME Fetched, Regular, Settled(Imp.from), Imp.from # Frm.module,
                        NEW t \in ToSet(Needs(Imp)), NEW n \in Names
                 PROVE  symbols[t][Imp.from][n] = ByTheRules(t, Imp.from, n)
      BY DEF ImportsSeeWholeTables
    <2>1. Walking /\ stack # <<>>
      BY DEF Fetched, Walking
    <2>2. Imp.kind \in {"module", "star", "member"}
      BY <2>1, AtImport, ImportFields DEF Inv
    <2>3. PICK k \in 1 .. Len(Needs(Imp)) : t = Needs(Imp)[k] /\ t \in Tables
      BY <2>2, NeedsTables
    <2>4. Stacked /\ Orderly /\ Uninterrupted /\ Lawful
      BY <1>1, <2>1 DEF RulesInv, Stacked, Started
    <2>5. Done(Needs(Imp)[k], Imp.from)
      BY <2>3, <2>4, FetchedWhole
    <2> QED
      BY <2>3, <2>5 DEF Done
  <1> QED
    BY <1>3, <1>4 DEF TablesFollowRules

(* What lookups answer, whatever was looked up before and in whatever order, is what
   the rules of import give; and so is what a table takes from another one while
   either is half built: in any program without cycles of imports and without members
   of a module imported by itself.  A name that a module is imported under may be
   answered at once, without what star imports ahead of that import add to it. *)
THEOREM SymbolTablesFollowRules == Spec => []TablesFollowRules
  <1>1. Init => Inv /\ RulesInv
    BY InitInv, InitRules
  <1>2. (Inv /\ RulesInv) /\ [Next]_vars => (Inv /\ RulesInv)'
    BY NextInv, NextRules
  <1>3. Inv /\ RulesInv => TablesFollowRules
    BY RulesInvFollowed
  <1> QED
    BY <1>1, <1>2, <1>3, PTL DEF Spec

(***************************************************************************)
(* A lookup comes to an end.                                               *)
(***************************************************************************)
(* What is left of a walk: four for each import to come, less the tables of the
   present one that it has, and one for its return. *)
Rank(f) ==
    IF f.next > Len(imports[f.module]) THEN 1
    ELSE 4 * (Len(imports[f.module]) + 1 - f.next) + 3 - f.fetched

(* What is left of a lookup, as an odometer: something is looked up (or loaded), it
   may go on in the prelude, its table is to be walked or being walked, and then
   the walks on the stack, the outermost first. *)
LeftAt(i) ==
    IF i = 1 THEN (IF phase \in {"load", "lookup"} THEN 1 ELSE 0)
    ELSE IF i = 2 THEN (IF GoesOnInPrelude THEN 1 ELSE 0)
    ELSE IF i = 3 THEN (IF stack # <<>> THEN 1
                        ELSE IF query.module \in loaded[query.table] THEN 0 ELSE 2)
    ELSE IF i - 3 \in 1 .. Len(stack) THEN Rank(stack[i - 3]) ELSE 0

Left == [i \in Nat |-> LeftAt(i)]

(* As many digits as there can be walks at once, and the base they are in. *)
Places == Cardinality(Tables \X Modules) + 3

IsBase(b) == 2 < b /\ \A m \in Modules : 4 * Len(imports[m]) + 3 < b

Base == CHOOSE b \in Nat : IsBase(b)

Effort == Reading(Left, Base, Places)

LEMMA BaseExists == Inv => Base \in Nat /\ IsBase(Base)
  <1> SUFFICES ASSUME Inv PROVE Base \in Nat /\ IsBase(Base)
    OBVIOUS
  <1> DEFINE f == [m \in Modules |-> Len(imports[m])]
  <1>1. \A m \in Modules : imports[m] \in Seq(Imports)
    BY DEF Inv, Declarations
  <1>2. \A m \in Modules : Len(imports[m]) \in Nat
    BY <1>1
  <1>3. f \in [Modules -> Nat] /\ IsFiniteSet(Modules)
    BY <1>2, FiniteAssumption
  <1>4. PICK c \in Nat : \A m \in Modules : f[m] <= c
    <2> HIDE DEF f
    <2> QED
      BY <1>3, FiniteBound
  <1>5. \A m \in Modules : Len(imports[m]) <= c
    BY <1>4
  <1>6. 4 * c + 4 \in Nat /\ IsBase(4 * c + 4)
    BY <1>2, <1>5 DEF IsBase
  <1>7. \E b \in Nat : IsBase(b)
    BY <1>6
  <1> QED
    BY <1>7 DEF Base

LEMMA RankOfFrame ==
    ASSUME Inv, NEW f \in Frame
    PROVE  Rank(f) \in Nat \ {0} /\ Rank(f) < Base
  <1>1. f.module \in Modules /\ f.next \in Nat \ {0} /\ f.fetched \in 0 .. 2
    BY DEF Frame
  <1>2. imports[f.module] \in Seq(Imports)
    BY <1>1 DEF Inv, Declarations
  <1>3. Len(imports[f.module]) \in Nat
    BY <1>2
  <1>4. Base \in Nat /\ 2 < Base /\ 4 * Len(imports[f.module]) + 3 < Base
    BY <1>1, BaseExists DEF IsBase
  <1> DEFINE n == Len(imports[f.module])
  <1>5. CASE f.next > n
    BY <1>4, <1>5 DEF Rank
  <1>6. CASE ~(f.next > n)
    <2>1. Rank(f) = 4 * (n + 1 - f.next) + 3 - f.fetched
      BY <1>6 DEF Rank
    <2>2. n + 1 - f.next \in 1 .. n /\ n \in Nat
      BY <1>1, <1>3, <1>6
    <2> HIDE DEF n
    <2> QED
      BY <1>1, <1>4, <2>1, <2>2 DEF n
  <1> QED
    BY <1>5, <1>6

(* The digits. *)
LeftOK ==
    /\ Left \in [Nat -> Nat]
    /\ \A i \in Nat : Left[i] < Base /\ Left[i] = LeftAt(i)

LEMMA LeftDigits == Inv => LeftOK
  <1> SUFFICES ASSUME Inv PROVE LeftOK
    OBVIOUS
  <1>1. \A i \in Nat : Left[i] = LeftAt(i)
    BY DEF Left
  <1>2. \A f \in Frame : Rank(f) \in Nat /\ Rank(f) < Base
    BY RankOfFrame
  <1>3. \A i \in 1 .. Len(stack) : stack[i] \in Frame
    BY StackFacts
  <1>4. Base \in Nat /\ 2 < Base
    BY BaseExists DEF IsBase
  <1>5. ASSUME NEW i \in Nat PROVE LeftAt(i) \in Nat /\ LeftAt(i) < Base
    <2>1. CASE i \in {1, 2, 3}
      BY <1>4, <2>1 DEF LeftAt
    <2>2. CASE i \notin {1, 2, 3} /\ i - 3 \in 1 .. Len(stack)
      <3>1. LeftAt(i) = Rank(stack[i - 3])
        BY <2>2 DEF LeftAt
      <3> QED
        BY <1>2, <1>3, <2>2, <3>1
    <2>3. CASE i \notin {1, 2, 3} /\ i - 3 \notin 1 .. Len(stack)
      BY <1>4, <2>3 DEF LeftAt
    <2> QED
      BY <2>1, <2>2, <2>3
  <1>6. Left = [i \in Nat |-> LeftAt(i)]
    BY DEF Left
  <1> QED
    BY <1>1, <1>5, <1>6 DEF LeftOK

LEMMA LeftDigitsNext == Inv' => LeftOK'
  BY LeftDigits, PTL

LEMMA PlacesEnough ==
    ASSUME Inv, Stacked
    PROVE  Places \in Nat /\ Len(stack) + 3 <= Places
  <1> DEFINE key == [i \in 1 .. Len(stack) |-> <<stack[i].table, stack[i].module>>]
  <1>1. IsFiniteSet(Tables)
    <2>1. IsFiniteSet({"public"} \cup {"all"}) /\ Tables = {"public"} \cup {"all"}
      BY FS_Singleton, FS_AddElement DEF Tables
    <2> QED
      BY <2>1
  <1>2. IsFiniteSet(Tables \X Modules)
    BY <1>1, FiniteAssumption, FS_Product
  <1>3. Len(stack) \in Nat /\ \A i \in 1 .. Len(stack) : stack[i].table \in Tables /\ stack[i].module \in Modules
    BY StackFacts
  <1>4. key \in [1 .. Len(stack) -> Tables \X Modules]
    BY <1>3
  <1>5. \A i, j \in 1 .. Len(stack) : key[i] = key[j] => i = j
    BY <1>3 DEF Stacked
  <1> HIDE DEF key
  <1>6. Len(stack) <= Cardinality(Tables \X Modules) /\ Cardinality(Tables \X Modules) \in Nat
    BY <1>2, <1>3, <1>4, <1>5, StackBounded
  <1> QED
    BY <1>3, <1>6 DEF Places

LEMMA EffortFalls ==
    ASSUME Inv, Inv', UNCHANGED imports, NEW i \in 1 .. Places, Places \in Nat,
           LeftAt(i)' < LeftAt(i), \A k \in 1 .. i - 1 : LeftAt(k)' = LeftAt(k)
    PROVE  Effort' < Effort
  <1>1. PICK b : b = Base
    OBVIOUS
  <1>2. b \in Nat /\ Base' = b
    BY <1>1, BaseExists DEF Base, IsBase
  <1>3. PICK n \in Nat : n = Places
    OBVIOUS
  <1>4. Places' = n
    BY <1>3 DEF Places
  <1>5. PICK c : c = Left
    OBVIOUS
  <1>6. PICK d : d = Left'
    OBVIOUS
  <1>7. c \in [Nat -> Nat] /\ \A k \in Nat : c[k] = LeftAt(k)
    BY <1>5, LeftDigits DEF LeftOK
  <1>8. d \in [Nat -> Nat] /\ \A k \in Nat : d[k] < b /\ d[k] = LeftAt(k)'
    BY <1>2, <1>6, LeftDigitsNext DEF LeftOK
  <1>9. i \in 1 .. n /\ d[i] < c[i]
    BY <1>3, <1>7, <1>8
  <1>10. \A k \in 1 .. i - 1 : d[k] = c[k]
    BY <1>7, <1>8
  <1>11. \A k \in 1 .. n : d[k] < b
    BY <1>8
  <1>12. Reading(d, b, n) < Reading(c, b, n)
    BY <1>2, <1>7, <1>8, <1>9, <1>10, <1>11, ReadingFalls
  <1> QED
    BY <1>1, <1>2, <1>3, <1>4, <1>5, <1>6, <1>12 DEF Effort

(* The outermost walk is of the table that is looked up in. *)
StartedByQuery == stack # <<>> => stack[1].table = query.table /\ stack[1].module = query.module

(* What a step of a walk does to the stack: an error empties it; or the innermost
   walk gets on, perhaps with another one inside it; or it returns. *)
Interrupted == stack' = <<>> /\ phase' \in {"idle", "failed"}

GetsOn ==
    /\ phase' = phase /\ loaded' = loaded
    /\ Len(stack') >= Len(stack)
    /\ \A i \in 1 .. Len(stack) - 1 : stack'[i] = stack[i]
    /\ stack'[Len(stack)].table = Frm.table /\ stack'[Len(stack)].module = Frm.module
    /\ Rank(stack'[Len(stack)]) < Rank(Frm)

Returns ==
    /\ phase' = phase
    /\ Len(stack') = Len(stack) - 1
    /\ \A i \in 1 .. Len(stack) - 1 : stack'[i] = stack[i]
    /\ IF Len(stack) = 1 THEN Frm.module \in loaded'[Frm.table] ELSE loaded' = loaded

LEMMA OnwardsGetsOn ==
    ASSUME Inv, Walking, NEW specific \in SUBSET Names, Onwards(specific),
           UNCHANGED <<phase, loaded>>
    PROVE  GetsOn
  <1> DEFINE n == Frm.next + 1
  <1>1. /\ stack # <<>> /\ Frm \in Frame /\ Frm.module \in Modules /\ Frm.next \in Nat \ {0}
        /\ Frm.fetched \in 0 .. 2 /\ n \in Nat \ {0}
    BY StackFacts DEF Walking
  <1>2. PICK f : f = [Frm EXCEPT !.next = n, !.fetched = 0, !.specific = specific]
    OBVIOUS
  <1>3. f \in Frame
    BY <1>1, <1>2, NextFrameOK
  <1>4. SetFrame(f)
    BY <1>2 DEF Onwards
  <1>5. f.table = Frm.table /\ f.module = Frm.module /\ f.next = n /\ f.fetched = 0
    BY <1>1, <1>2 DEF Frame
  <1>6. Len(stack') = Len(stack) /\ stack'[Len(stack)] = f /\ \A i \in 1 .. Len(stack) - 1 : stack'[i] = stack[i]
    <2>1. stack \in Seq(Frame) /\ Len(stack) \in 1 .. Len(stack) /\ Len(stack) \in Nat
      BY <1>1, StackFacts DEF Inv, Control
    <2> QED
      BY <1>4, <2>1 DEF SetFrame
  <1>7. Rank(f) < Rank(Frm)
    <2> DEFINE L == Len(imports[Frm.module])
    <2>1. L \in Nat
      <3>1. imports[Frm.module] \in Seq(Imports)
        BY <1>1 DEF Inv, Declarations
      <3> QED
        BY <3>1
    <2>2. Frm.next <= L
      BY DEF Walking
    <2> HIDE DEF L
    <2>3. Rank(Frm) = 4 * (L + 1 - Frm.next) + 3 - Frm.fetched
      BY <1>1, <2>1, <2>2 DEF Rank, L
    <2>4. Rank(f) = IF n > L THEN 1 ELSE 4 * (L + 1 - n) + 3
      <3>1. Rank(f) = IF n > L THEN 1 ELSE 4 * (L + 1 - n) + 3 - 0
        BY <1>5 DEF Rank, L
      <3> QED
        BY <1>1, <2>1, <3>1
    <2>5. n = Frm.next + 1
      OBVIOUS
    <2>6. PICK c : c = L + 1 - Frm.next
      OBVIOUS
    <2>7. c \in Nat \ {0} /\ L + 1 - n = c - 1
      BY <1>1, <2>1, <2>2, <2>5, <2>6
    <2> HIDE DEF n
    <2> QED
      BY <1>1, <2>3, <2>4, <2>6, <2>7
  <1>8. Len(stack) \in Nat
    BY StackFacts
  <1> QED
    BY <1>5, <1>6, <1>7, <1>8 DEF GetsOn

LEMMA FetchGetsOn ==
    ASSUME Inv, Inv', Fetch
    PROVE  GetsOn
  <1> DEFINE k == Frm.fetched + 1
             f == [Frm EXCEPT !.fetched = k]
             t == Needs(Imp)[k]
  <1>1. /\ stack # <<>> /\ Walking /\ Frm.fetched < Len(Needs(Imp))
        /\ UNCHANGED <<loaded, phase>>
        /\ \/ SetFrame(f)
           \/ stack' = Append(Append(Front(stack), f), NewFrame(t, Imp.from))
    BY DEF Fetch, Walking, asking
  <1>2. /\ Frm \in Frame /\ Frm.module \in Modules /\ Frm.next \in Nat \ {0}
        /\ Frm.fetched \in 0 .. 2 /\ Len(stack) \in Nat \ {0} /\ stack \in Seq(Frame)
    BY <1>1, StackFacts, FrameFacts DEF Inv, Control
  <1>3. Imp \in Imports /\ Imp.kind \in {"module", "star", "member"}
    <2>1. Imp \in Imports
      BY <1>1, FrameFacts
    <2> QED
      BY <2>1 DEF Imports
  <1>4. k \in 0 .. 2
    <2>1. Imp.kind = "star" \/ Imp.kind = "member"
      BY <1>1, <1>2, <1>3 DEF Needs
    <2>2. PICK l : l = Len(Needs(Imp))
      OBVIOUS
    <2>3. l = 1 \/ l = 2
      <3>1. CASE Imp.kind = "star"
        <4>1. Needs(Imp) = <<"public">>
          BY <3>1 DEF Needs
        <4> QED
          BY <2>2, <4>1
      <3>2. CASE Imp.kind = "member"
        <4>1. Needs(Imp) = <<"public", "all">>
          BY <3>2 DEF Needs
        <4> QED
          BY <2>2, <4>1
      <3> QED
        BY <2>1, <3>1, <3>2
    <2> QED
      BY <1>1, <1>2, <2>2, <2>3
  <1>5. f.table = Frm.table /\ f.module = Frm.module /\ f.next = Frm.next /\ f.fetched = k
    BY <1>2 DEF Frame
  <1>6. f \in Frame
    <2> HIDE DEF k
    <2> QED
      BY <1>2, <1>4, FetchedOneMoreOK
  <1>7. Rank(f) < Rank(Frm)
    <2> DEFINE L == Len(imports[Frm.module])
    <2>1. L \in Nat
      <3>1. imports[Frm.module] \in Seq(Imports)
        BY <1>2 DEF Inv, Declarations
      <3> QED
        BY <3>1
    <2>2. Frm.next <= L
      BY <1>1 DEF Walking
    <2> HIDE DEF L, f, k
    <2>3. Rank(Frm) = 4 * (L + 1 - Frm.next) + 3 - Frm.fetched
      BY <1>2, <2>1, <2>2 DEF Rank, L
    <2>4. Rank(f) = 4 * (L + 1 - Frm.next) + 3 - k
      BY <1>2, <1>5, <2>1, <2>2 DEF Rank, L
    <2>5. k = Frm.fetched + 1
      BY DEF k
    <2>6. PICK q : q = 4 * (L + 1 - Frm.next)
      OBVIOUS
    <2>7. q \in Int
      BY <1>2, <2>1, <2>6
    <2> QED
      BY <1>2, <2>3, <2>4, <2>5, <2>6, <2>7
  <1> HIDE DEF f, k, t
  <1>8. Len(stack') >= Len(stack) /\ stack'[Len(stack)] = f /\ \A i \in 1 .. Len(stack) - 1 : stack'[i] = stack[i]
    <2>1. CASE SetFrame(f)
      BY <1>2, <2>1 DEF SetFrame
    <2>2. CASE stack' = Append(Append(Front(stack), f), NewFrame(t, Imp.from))
      <3> DEFINE s == Append(Front(stack), f)
      <3>1. s \in Seq(Frame) /\ Len(s) = Len(stack) /\ s[Len(stack)] = f /\ \A i \in 1 .. Len(stack) - 1 : s[i] = stack[i]
        BY <1>1, <1>2, <1>6, TopReplaced
      <3> HIDE DEF s
      <3>2. stack' = Append(s, NewFrame(t, Imp.from))
        BY <2>2 DEF s
      <3> DEFINE g == NewFrame(t, Imp.from)
      <3> HIDE DEF g
      <3>3. Len(Append(s, g)) = Len(s) + 1 /\ \A i \in 1 .. Len(s) : Append(s, g)[i] = s[i]
        BY <3>1
      <3>4. Len(stack) \in 1 .. Len(stack) /\ \A i \in 1 .. Len(stack) - 1 : i \in 1 .. Len(stack)
        BY <1>2
      <3> QED
        BY <1>2, <3>1, <3>2, <3>3, <3>4 DEF g
    <2> QED
      BY <1>1, <2>1, <2>2
  <1> QED
    BY <1>1, <1>5, <1>7, <1>8 DEF GetsOn

LEMMA LeaveReturns ==
    ASSUME Inv, Leave
    PROVE  Returns
  <1>1. /\ stack # <<>> /\ stack' = Front(stack) /\ phase' = phase
        /\ IF Len(stack) = 1 THEN loaded' = [loaded EXCEPT ![Frm.table] = @ \cup {Frm.module}]
                             ELSE loaded' = loaded
    BY DEF Leave
  <1>2. Frm.table \in Tables /\ loaded \in [Tables -> SUBSET Modules] /\ stack \in Seq(Frame)
    BY <1>1, StackFacts DEF Inv, TablesOK, Control
  <1>3. Len(stack') = Len(stack) - 1 /\ \A i \in 1 .. Len(stack) - 1 : stack'[i] = stack[i]
    BY <1>1, <1>2, TopAndBelow
  <1> QED
    BY <1>1, <1>2, <1>3 DEF Returns

LEMMA LoadStepMoves ==
    ASSUME Inv, Inv', LoadStep
    PROVE  /\ stack # <<>> /\ imports' = imports /\ query' = query
           /\ Interrupted \/ GetsOn \/ Returns
  <1>1. stack # <<>> /\ imports' = imports /\ query' = query
    BY DEF LoadStep, SkipImport, Fetch, AddModuleName, AddStar, AddMember, Leave, Fetched, Walking,
           program, asking
  <1>2. Frm.specific \in SUBSET Names /\ (Walking => Imp \in Imports /\ Imp.as \in Names \cup {None})
    <2>1. Frm \in Frame /\ (Walking => Imp \in Imports)
      BY <1>1, FrameFacts
    <2> QED
      BY <2>1 DEF Frame, Imports
  <1>3. ASSUME NEW e, Raise(e) PROVE Interrupted
    BY <1>3 DEF Raise, Interrupted
  <1>4. CASE SkipImport
    BY <1>1, <1>2, <1>4, OnwardsGetsOn DEF SkipImport, tables
  <1>5. CASE Fetch
    BY <1>1, <1>5, FetchGetsOn
  <1>6. CASE AddModuleName
    <2>1. PICK specific : specific = Frm.specific \cup ({Imp.as} \ {None})
      OBVIOUS
    <2>2. /\ Walking /\ UNCHANGED loaded
          /\ Raise("importedAlready") \/ (Onwards(specific) /\ UNCHANGED phase)
      BY <1>6, <2>1 DEF AddModuleName, Fetched, tables
    <2>3. specific \in SUBSET Names
      BY <1>2, <2>1, <2>2
    <2> QED
      BY <1>1, <1>3, <2>2, <2>3, OnwardsGetsOn
  <1>7. CASE AddStar
    BY <1>1, <1>2, <1>7, OnwardsGetsOn DEF AddStar, Fetched
  <1>8. CASE AddMember
    <2>1. PICK specific : specific = Frm.specific \cup {Imp.as}
      OBVIOUS
    <2>2. /\ Walking /\ UNCHANGED loaded /\ Imp.kind = "member"
          /\ \/ Raise("notFound") \/ Raise("importedAlready")
             \/ (Onwards(Frm.specific) \/ Onwards(specific)) /\ UNCHANGED phase
      BY <1>8, <2>1 DEF AddMember, Fetched
    <2>3. specific \in SUBSET Names
      <3>1. Imp.as \in Names
        BY <1>1, <2>2, FrameFacts
      <3> QED
        BY <1>2, <2>1, <3>1
    <2> QED
      BY <1>1, <1>2, <1>3, <2>2, <2>3, OnwardsGetsOn
  <1>9. CASE Leave
    BY <1>1, <1>9, LeaveReturns
  <1> QED
    BY <1>1, <1>4, <1>5, <1>6, <1>7, <1>8, <1>9 DEF LoadStep

(* Which step empties the stack or begins a walk, and of which table. *)
LEMMA NextStartedByQuery ==
    ASSUME Inv, Inv', Stacked, StartedByQuery, [Next]_vars
    PROVE  StartedByQuery'
  <1>1. CASE UNCHANGED <<stack, query>>
    BY <1>1 DEF StartedByQuery
  <1>2. CASE stack' = <<>>
    BY <1>2 DEF StartedByQuery
  <1>3. CASE LoadStep
    <2>1. /\ stack # <<>> /\ query' = query
          /\ Interrupted \/ GetsOn \/ Returns
      BY <1>3, LoadStepMoves
    <2>2. Len(stack) \in Nat \ {0} /\ Frm = stack[Len(stack)] /\ stack' \in Seq(Frame)
      BY <2>1, StackFacts DEF Inv, Control
    <2>3. PICK L \in Nat \ {0} : L = Len(stack)
      BY <2>2
    <2>4. L # 1 => 1 \in 1 .. L - 1
      OBVIOUS
    <2>5. CASE GetsOn
      <3>1. stack'[1].table = stack[1].table /\ stack'[1].module = stack[1].module
        <4>1. CASE Len(stack) = 1
          BY <2>2, <2>5, <4>1 DEF GetsOn
        <4>2. CASE Len(stack) # 1
          <5>1. 1 \in 1 .. Len(stack) - 1
            BY <2>3, <2>4, <4>2
          <5> QED
            BY <2>5, <5>1 DEF GetsOn
        <4> QED
          BY <4>1, <4>2
      <3> QED
        BY <2>1, <3>1 DEF StartedByQuery
    <2>6. CASE Returns
      <3>1. CASE Len(stack) = 1
        <4>1. Len(stack') = 0
          BY <2>6, <3>1 DEF Returns
        <4> QED
          BY <1>2, <2>2, <4>1
      <3>2. CASE Len(stack) # 1
        <4>1. 1 \in 1 .. Len(stack) - 1
          BY <2>3, <2>4, <3>2
        <4>2. stack'[1] = stack[1]
          BY <2>6, <4>1 DEF Returns
        <4> QED
          BY <2>1, <4>2 DEF StartedByQuery
      <3> QED
        BY <3>1, <3>2
    <2> QED
      BY <1>2, <2>1, <2>5, <2>6 DEF Interrupted
  <1>4. CASE LoadTable
    <2>1. /\ stack = <<>> /\ query' = query
          /\ stack' = stack \/ stack' = Append(stack, NewFrame(query.table, query.module))
      BY <1>4 DEF LoadTable, Enter, asking
    <2>2. CASE stack' = Append(stack, NewFrame(query.table, query.module))
      <3>1. query.table \in Tables /\ query.module \in Modules
        BY DEF Inv, Control, Query
      <3>2. NewFrame(query.table, query.module) \in Frame /\ stack \in Seq(Frame) /\ Len(stack) = 0
        BY <2>1, <3>1, NewFrameOK DEF Inv, Control
      <3>3. stack'[1] = NewFrame(query.table, query.module)
        BY <2>2, <3>2
      <3> QED
        BY <2>1, <3>3 DEF StartedByQuery, NewFrame
    <2> QED
      BY <1>1, <2>1, <2>2
  <1>5. ASSUME NEW q, Lookup(q) PROVE StartedByQuery'
    <2>1. phase = "idle" /\ stack' = stack
      BY <1>5 DEF Lookup
    <2>2. stack = <<>>
      BY <2>1 DEF Stacked
    <2> QED
      BY <1>2, <2>1, <2>2
  <1>6. CASE Answer \/ TryPrelude \/ LoadProgram
    <2>1. stack' = <<>> \/ UNCHANGED <<stack, query>>
      BY <1>6 DEF Answer, TryPrelude, LoadProgram, Raise, asking
    <2> QED
      BY <1>1, <1>2, <2>1
  <1>7. ASSUME NEW line, TypeImport(line) \/ TypeDefinition(line) PROVE StartedByQuery'
    <2>1. stack' = <<>> \/ UNCHANGED <<stack, query>>
      BY <1>7 DEF TypeImport, TypeDefinition, Raise, asking
    <2> QED
      BY <1>1, <1>2, <2>1
  <1>8. CASE UNCHANGED vars
    BY <1>1, <1>8 DEF vars, asking
  <1> QED
    BY <1>3, <1>4, <1>5, <1>6, <1>7, <1>8 DEF Next, Step

(* Something ends: the lookup, its part before the prelude, or a table is at hand. *)
LEMMA StageEnds ==
    ASSUME Inv, Inv', Stacked, imports' = imports, NEW i \in {1, 2, 3},
           LeftAt(i)' < LeftAt(i), \A k \in 1 .. i - 1 : LeftAt(k)' = LeftAt(k)
    PROVE  Effort' < Effort
  <1>1. Places \in Nat /\ Len(stack) \in Nat /\ Len(stack) + 3 <= Places
    BY PlacesEnough, StackFacts
  <1>2. i \in 1 .. Places
    BY <1>1
  <1> QED
    BY <1>1, <1>2, EffortFalls

LEMMA LookupEnds ==
    ASSUME Inv, Inv', Stacked, imports' = imports,
           phase \in {"load", "lookup"}, phase' \notin {"load", "lookup"}
    PROVE  Effort' < Effort
  <1>1. LeftAt(1) = 1 /\ LeftAt(1)' = 0
    BY DEF LeftAt
  <1>2. \A k \in 1 .. 1 - 1 : LeftAt(k)' = LeftAt(k)
    OBVIOUS
  <1> QED
    BY <1>1, <1>2, StageEnds

LEMMA SameLookup ==
    ASSUME phase' = phase, query' = query
    PROVE  LeftAt(1)' = LeftAt(1) /\ LeftAt(2)' = LeftAt(2)
  BY DEF LeftAt, GoesOnInPrelude

LEMMA WalkAdvances ==
    ASSUME Inv, Inv', Stacked, stack # <<>>, stack' # <<>>,
           imports' = imports, query' = query, phase' = phase, loaded' = loaded,
           GetsOn \/ (Returns /\ Len(stack) # 1)
    PROVE  Effort' < Effort
  <1>1. PICK L : L = Len(stack)
    OBVIOUS
  <1>2. L \in Nat \ {0} /\ Frm = stack[L] /\ Frm \in Frame /\ Len(stack') \in Nat
    <2>1. Len(stack) \in Nat /\ Len(stack) \in 1 .. Len(stack) /\ Frm = stack[Len(stack)] /\ Frm \in Frame
      BY StackFacts
    <2>2. Len(stack') \in Nat
      BY DEF Inv, Control
    <2> QED
      BY <1>1, <2>1, <2>2
  <1>3. PICK i \in Nat : i = L + 3
    BY <1>2
  <1>4. i \notin {1, 2, 3} /\ i - 3 = L
    BY <1>2, <1>3
  <1>5. \A k \in 1 .. L - 1 : k \in 1 .. Len(stack) /\ k \in 1 .. Len(stack') /\ stack'[k] = stack[k]
    BY <1>1, <1>2 DEF GetsOn, Returns
  <1>6. LeftAt(i) = Rank(Frm) /\ Rank(Frm) \in Nat \ {0}
    BY <1>1, <1>2, <1>4, RankOfFrame DEF LeftAt
  <1>7. LeftAt(i)' < LeftAt(i)
    <2>1. CASE GetsOn
      <3>1. L \in 1 .. Len(stack') /\ Rank(stack'[L]) < Rank(Frm)
        BY <1>1, <1>2, <2>1 DEF GetsOn
      <3>2. LeftAt(i)' = Rank(stack'[L])
        BY <1>4, <3>1 DEF LeftAt, Rank
      <3> QED
        BY <1>6, <3>1, <3>2
    <2>2. CASE Returns
      <3>1. L \notin 1 .. Len(stack')
        BY <1>1, <1>2, <2>2 DEF Returns
      <3>2. LeftAt(i)' = 0
        BY <1>4, <3>1 DEF LeftAt
      <3> QED
        BY <1>6, <3>2
    <2> QED
      BY <2>1, <2>2
  <1>8. ASSUME NEW k \in 1 .. i - 1 PROVE LeftAt(k)' = LeftAt(k)
    <2>1. k = 1 \/ k = 2 => LeftAt(k)' = LeftAt(k)
      BY SameLookup
    <2>2. k = 3 => LeftAt(k)' = LeftAt(k)
      BY DEF LeftAt
    <2>3. ASSUME k \notin {1, 2, 3} PROVE LeftAt(k)' = LeftAt(k)
      <3>1. k - 3 \in 1 .. L - 1
        BY <1>2, <1>3, <2>3
      <3>2. k - 3 \in 1 .. Len(stack) /\ k - 3 \in 1 .. Len(stack') /\ stack'[k - 3] = stack[k - 3]
        BY <1>5, <3>1
      <3> QED
        BY <2>3, <3>2 DEF LeftAt, Rank
    <2> QED
      BY <2>1, <2>2, <2>3
  <1>9. Places \in Nat /\ i \in 1 .. Places
    <2>1. Places \in Nat /\ L + 3 <= Places
      BY <1>1, PlacesEnough
    <2> QED
      BY <1>2, <1>3, <2>1
  <1> QED
    BY <1>7, <1>8, <1>9, EffortFalls

LEMMA LoadStepAdvances ==
    ASSUME Inv, Inv', Stacked, StartedByQuery, LoadStep
    PROVE  Effort' < Effort
  <1>1. /\ stack # <<>> /\ imports' = imports /\ query' = query
        /\ Interrupted \/ GetsOn \/ Returns
    BY LoadStepMoves
  <1>2. phase = "lookup"
    BY <1>1 DEF Stacked
  <1>3. Len(stack) \in Nat \ {0} /\ Frm = stack[Len(stack)] /\ stack' \in Seq(Frame)
    BY <1>1, StackFacts DEF Inv, Control
  <1>4. CASE Interrupted
    BY <1>1, <1>2, <1>4, LookupEnds DEF Interrupted
  <1>5. CASE GetsOn
    <2>1. stack' # <<>> /\ phase' = phase /\ loaded' = loaded
      BY <1>3, <1>5 DEF GetsOn
    <2> QED
      BY <1>1, <1>5, <2>1, WalkAdvances
  <1>6. CASE Returns /\ Len(stack) # 1
    <2>1. stack' # <<>> /\ phase' = phase /\ loaded' = loaded
      BY <1>3, <1>6 DEF Returns
    <2> QED
      BY <1>1, <1>6, <2>1, WalkAdvances
  <1>7. CASE Returns /\ Len(stack) = 1
    <2>1. stack' = <<>> /\ phase' = phase /\ query.module \in loaded'[query.table]
      <3>1. Len(stack') = 0 /\ phase' = phase /\ Frm.module \in loaded'[Frm.table]
        BY <1>7 DEF Returns
      <3>2. Frm.module = query.module /\ Frm.table = query.table
        BY <1>1, <1>3, <1>7 DEF StartedByQuery
      <3> QED
        BY <1>3, <3>1, <3>2
    <2>2. LeftAt(3) = 1 /\ LeftAt(3)' = 0
      BY <1>1, <2>1 DEF LeftAt
    <2>3. \A k \in 1 .. 3 - 1 : LeftAt(k)' = LeftAt(k)
      <3>1. \A k \in 1 .. 3 - 1 : k = 1 \/ k = 2
        OBVIOUS
      <3> QED
        BY <1>1, <2>1, <3>1, SameLookup
    <2> QED
      BY <1>1, <2>2, <2>3, StageEnds
  <1> QED
    BY <1>1, <1>4, <1>5, <1>6, <1>7

LEMMA LoadTableAdvances ==
    ASSUME Inv, Inv', Stacked, LoadTable
    PROVE  Effort' < Effort
  <1>1. /\ stack = <<>> /\ query.module \notin loaded[query.table]
        /\ imports' = imports /\ phase' = phase /\ query' = query
        /\ \/ loaded' = [loaded EXCEPT ![query.table] = @ \cup {query.module}] /\ stack' = stack
           \/ stack' = Append(stack, NewFrame(query.table, query.module))
    BY DEF LoadTable, Enter, program, asking
  <1>2. query.table \in Tables /\ query.module \in Modules /\ loaded \in [Tables -> SUBSET Modules]
    BY DEF Inv, Control, Query, TablesOK
  <1>3. LeftAt(3) = 2
    BY <1>1 DEF LeftAt
  <1>4. LeftAt(3)' < 2
    <2>1. CASE loaded' = [loaded EXCEPT ![query.table] = @ \cup {query.module}] /\ stack' = stack
      <3>1. query.module \in loaded'[query.table]
        BY <1>2, <2>1
      <3> QED
        BY <1>1, <2>1, <3>1 DEF LeftAt
    <2>2. CASE stack' = Append(stack, NewFrame(query.table, query.module))
      <3>1. stack \in Seq(Frame) /\ NewFrame(query.table, query.module) \in Frame
        BY <1>2, NewFrameOK DEF Inv, Control
      <3>2. stack' # <<>>
        BY <2>2, <3>1, Pushed
      <3> QED
        BY <3>2 DEF LeftAt
    <2> QED
      BY <1>1, <2>1, <2>2
  <1>5. \A k \in 1 .. 3 - 1 : LeftAt(k)' = LeftAt(k)
    <2>1. \A k \in 1 .. 3 - 1 : k = 1 \/ k = 2
      OBVIOUS
    <2> QED
      BY <1>1, <2>1, SameLookup
  <1> QED
    BY <1>1, <1>3, <1>4, <1>5, StageEnds

LEMMA StepAdvances ==
    ASSUME Inv, Inv', Stacked, StartedByQuery, Step
    PROVE  Effort' < Effort
  <1>1. CASE LoadProgram \/ Answer
    <2>1. /\ imports' = imports /\ phase \in {"load", "lookup"} /\ phase' \in {"idle", "failed"}
      BY <1>1 DEF LoadProgram, Answer, Raise, program
    <2> QED
      BY <2>1, LookupEnds
  <1>2. CASE TryPrelude
    <2>1. /\ imports' = imports /\ phase' = phase /\ GoesOnInPrelude
          /\ query' = InPrelude
      BY <1>2 DEF TryPrelude, program
    <2>2. ~GoesOnInPrelude'
      <3>1. query' \in Query /\ query \in Query /\ "public" \in Tables
        BY DEF Inv, Control, Tables
      <3>2. query'.table = "public"
        BY <2>1, <3>1 DEF InPrelude, Query
      <3> QED
        BY <3>2 DEF GoesOnInPrelude
    <2>3. LeftAt(2) = 1 /\ LeftAt(2)' = 0 /\ LeftAt(1)' = LeftAt(1)
      BY <2>1, <2>2 DEF LeftAt
    <2>4. \A k \in 1 .. 2 - 1 : LeftAt(k)' = LeftAt(k)
      <3>1. \A k \in 1 .. 2 - 1 : k = 1
        OBVIOUS
      <3> QED
        BY <2>3, <3>1
    <2> QED
      BY <2>1, <2>3, <2>4, StageEnds
  <1> QED
    BY <1>1, <1>2, LoadTableAdvances, LoadStepAdvances DEF Step

LEMMA EffortIsNatural == Inv /\ RulesInv => Effort \in Nat
  <1> SUFFICES ASSUME Inv, RulesInv PROVE Effort \in Nat
    OBVIOUS
  <1>1. Base \in Nat /\ Places \in Nat /\ Left \in [Nat -> Nat]
    BY BaseExists, PlacesEnough, LeftDigits DEF RulesInv, LeftOK
  <1> QED
    BY <1>1, ReadingFollows DEF Effort

(* Every step of a lookup lowers a natural number, in any import graph and after
   any errors; only another lookup or a line of a session raises it. The counters
   that mark a table as being loaded bound the depth of the walk, though not its
   length: a table without its loaded flag is walked again by every import of it.
   (LookupsEnd, but for the fairness it assumes: lookupPrivate, lookupPublic,
   addImportedSymbols.) *)
THEOREM SymbolLookupsAdvance ==
    Spec => [](Effort \in Nat) /\ [][Step => Effort' < Effort]_vars
  <1>1. Init => Inv /\ RulesInv /\ StartedByQuery
    BY InitInv, InitRules DEF Init, StartedByQuery
  <1>2. Inv /\ RulesInv /\ StartedByQuery /\ [Next]_vars => (Inv /\ RulesInv /\ StartedByQuery)'
    BY NextInv, NextRules, NextStartedByQuery DEF RulesInv
  <1>3. Inv /\ RulesInv /\ StartedByQuery /\ [Next]_vars => [Step => Effort' < Effort]_vars
    BY NextInv, StepAdvances DEF RulesInv
  <1> QED
    BY <1>1, <1>2, <1>3, EffortIsNatural, PTL DEF Spec
=============================================================================
