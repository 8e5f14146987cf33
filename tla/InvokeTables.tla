--------------------------- MODULE InvokeTables ---------------------------
(***************************************************************************)
(* Overload lookup: compiler/invoketables.cpp (lookupInvokeSet,            *)
(* findMatchingInvoke, getMatch, matchTempness, lookupInvokeEntry),        *)
(* compiler/matchinvoke.cpp (matchInvoke), and the registration of         *)
(* overloads by initOverload (compiler/loader.cpp) that it races with.     *)
(*                                                                         *)
(* An invoke set is a callable with the types of the arguments.  It copies *)
(* the overload lists when it is created, and memoises the overloads that  *)
(* match the types, the entry chosen for each vector of rvalue flags, and  *)
(* the entry of each tempness key.  Matching an overload evaluates its     *)
(* predicate, and a predicate (CallDefined?) looks up another invoke set:  *)
(* lookups nest, and `stack` holds the active ones.                        *)
(***************************************************************************)
EXTENDS Naturals, Sequences, SequencesExt

CONSTANTS
    Sets,               \* invoke sets: a callable and argument types
    Overloads,          \* overloads of callables and universal overloads
    Flags,              \* vectors of rvalue flags of the arguments
    Programs,           \* what the program declares, see ProgramType
    Nothing             \* no overload, no predicate, no entry

Tempness == {"dontcare", "lvalue", "rvalue", "forward"}

(* callable : Sets -> the callable each set belongs to
   interface: Sets -> the interface overload of its callable, or Nothing
   target   : overloads it declares -> the callable overloaded, or Nothing if universal
   refused  : declared overloads that initOverload reports: of a standalone procedure,
              of one private to another module, with more or fewer parameters or
              returned values than the interface, of a target that takes none
   bodiless : overloads declared with `;` for a body: a call they match is refused
   accepts  : Overloads -> the sets whose argument types its patterns unify with
   tempness : Overloads -> the tempness of its formal arguments
   default  : Overloads -> declared `default`
   predicate: Overloads -> the lookup its predicate makes, or Nothing
   calls    : what it looks up from outside of predicates
   final    : compiled with -final-overloads, a second match being an error
   late     : overloads are registered after lookups were made, too *)
ProgramType(p) ==
    /\ p.accepts \in [Overloads -> SUBSET Sets]
    /\ p.interface \in [Sets -> Overloads \cup {Nothing}]
    /\ p.predicate \in [Overloads -> (Sets \X Flags) \cup {Nothing}]
    /\ p.default \in [Overloads -> BOOLEAN]
    /\ p.calls \subseteq Sets \X Flags
    /\ DOMAIN p.target \subseteq Overloads
    /\ p.refused \subseteq Overloads /\ p.bodiless \subseteq Overloads
    /\ p.final \in BOOLEAN /\ p.late \in BOOLEAN
    /\ \A o \in Overloads, r \in Flags : /\ DOMAIN p.tempness[o] = DOMAIN r
                                         /\ \A i \in DOMAIN r : p.tempness[o][i] \in Tempness

ASSUME InvokeAssumption ==
    /\ \A p \in Programs : ProgramType(p)
    /\ \A r \in Flags : \A i \in DOMAIN r : r[i] \in BOOLEAN
    /\ Nothing \notin Overloads \cup (Sets \X Flags)

VARIABLES
    program,        \* the declarations
    live,           \* live[c]: overloads of callable c; live[Nothing]: patternOverloads
    created,        \* sets in the invoke table
    overloads,      \* InvokeSet::overloads, the copy made at creation
    matches,        \* InvokeSet::matches, the overloads found to match the types
    next,           \* InvokeSet::nextOverloadIndex, overloads already tried
    byFlags,        \* InvokeSet::tempnessMap
    byKey,          \* InvokeSet::tempnessMap2, as a set of <<key, entry>>
    evaluating,     \* sets whose evaluatingPredicate flag is set
    stack,          \* active lookupInvokeEntry calls, innermost last
    outcome,        \* what the outermost lookup came to
    answers         \* history: what whoever asked was told first

vars == <<program, live, created, overloads, matches, next, byFlags, byKey,
          evaluating, stack, outcome, answers>>

tables == <<created, overloads, matches, next, byFlags, byKey>>

Callables == {program.callable[s] : s \in Sets}

Registered == UNION {ToSet(live[c]) : c \in DOMAIN live}

(* An active call: its set and flags, what it is doing ("interface": matching the
   interface, "entries": going through the matches and then the overloads not yet
   tried, "final": looking for a second match), the entry index i, the local
   overload index, and the answer of the
   predicate just evaluated. *)
Call(s, r) ==
    [set |-> s, flags |-> r, doing |-> "interface", i |-> 0, index |-> 0, answer |-> "none"]

Top == Last(stack)

SetTop(frame) == stack' = Append(Front(stack), frame)

TypeOK ==
    /\ created \subseteq Sets
    /\ evaluating \subseteq created
    /\ \A s \in Sets :
          /\ overloads[s] \in Seq(Overloads)
          /\ next[s] \in 0 .. Len(overloads[s])
          /\ Len(matches[s]) <= next[s]
          /\ ToSet(matches[s]) \subseteq ToSet(overloads[s])
          /\ \A r \in Flags : byFlags[s][r] = Nothing \/ byFlags[s][r].overload \in ToSet(matches[s])
    /\ stack \in Seq([set : Sets, flags : Flags, doing : {"interface", "entries", "final"},
                      i : Nat, index : Nat, answer : {"none", "defined", "undefined"}])
    /\ outcome \in {"none", "defined", "undefined", "loop"}

Init ==
    /\ program \in Programs
    /\ live = [c \in Callables \cup {Nothing} |-> <<>>]
    /\ created = {}
    /\ overloads = [s \in Sets |-> <<>>]
    /\ matches = [s \in Sets |-> <<>>]
    /\ next = [s \in Sets |-> 0]
    /\ byFlags = [s \in Sets |-> [r \in Flags |-> Nothing]]
    /\ byKey = [s \in Sets |-> {}]
    /\ evaluating = {}
    /\ stack = <<>>
    /\ outcome = "none"
    /\ answers = [s \in Sets |-> [r \in Flags |-> "none"]]

(* initOverload: the overload goes in front of its callable's list, or of
   patternOverloads.  One that is refused raises an error before it is in a list. *)
Register(o) ==
    /\ stack = <<>>
    /\ o \in DOMAIN program.target \ (Registered \cup program.refused)
    /\ program.late \/ created = {}
    /\ live' = [live EXCEPT ![program.target[o]] = Cons(o, @)]
    /\ UNCHANGED <<program, tables, evaluating, stack, outcome, answers>>

(***************************************************************************)
(* Tempness.                                                               *)
(***************************************************************************)
TempnessMatches(rvalue, formal) ==
    formal \in {"dontcare", "forward"} \cup (IF rvalue THEN {"rvalue"} ELSE {"lvalue"})

\* Mutant: a forwarded argument is filed like one whose tempness does not matter.
KeyItemForwarded(formal, rvalue) == formal
TempnessKeyItem(formal, rvalue) ==
    IF formal = "forward" THEN (IF rvalue THEN "rvalue" ELSE "lvalue") ELSE formal

MatchTempness(o, r) ==
    \A i \in DOMAIN r : TempnessMatches(r[i], program.tempness[o][i])

TempnessKey(o, r) ==
    [i \in DOMAIN r |-> TempnessKeyItem(program.tempness[o][i], r[i])]

(* forwardedRValueFlags: which forwarded arguments the entry's code moves from. *)
ForwardedRValues(o, r) == [i \in DOMAIN r |-> program.tempness[o][i] = "forward" /\ r[i]]

(***************************************************************************)
(* Calls and returns.                                                      *)
(***************************************************************************)
CopyOverloads(s) == live[program.callable[s]] \o live[Nothing]

\* Mutant: the copy is refreshed, and what was memoised is kept.
FindSetRefreshing(s) ==
    /\ created' = created \cup {s}
    /\ overloads' = [overloads EXCEPT ![s] = CopyOverloads(s)]
(* lookupInvokeSet *)
FindSet(s) ==
    /\ created' = created \cup {s}
    /\ overloads' = IF s \in created THEN overloads
                    ELSE [overloads EXCEPT ![s] = CopyOverloads(s)]

(* What analyzeIsDefined and analyzeCallable make of the entry they are given. *)
Verdict(entry) == IF entry.overload \in program.bodiless THEN "undefined" ELSE "defined"

(* A result reaches the caller: the predicate of the calling lookup, or whoever
   asked.  The destructor of FinallyClearEvaluatingPredicate clears the flag. *)
Deliver(callers, s, r, result) ==
    /\ evaluating' = evaluating \ {s}
    /\ answers' = IF answers[s][r] = "none" THEN [answers EXCEPT ![s][r] = result] ELSE answers
    /\ IF callers = <<>>
         THEN stack' = <<>> /\ outcome' = result
         ELSE /\ stack' = Append(Front(callers), [Last(callers) EXCEPT !.answer = result])
              /\ UNCHANGED outcome

Return(result) == Deliver(Front(stack), Top.set, Top.flags, result)

\* Mutant: re-entry is looked for only in the innermost active call.
BusyInnermost(s) == stack # <<>> /\ Top.set = s
Busy(s) == s \in evaluating

(* The entry of lookupInvokeEntry, up to the first match to be tried. *)
Enter(s, r) ==
    /\ FindSet(s)
    /\ IF Busy(s)
         THEN \* error(): every active call is unwound
              /\ stack' = <<>>
              /\ evaluating' = {}
              /\ outcome' = "loop"
              /\ UNCHANGED answers
         ELSE IF byFlags[s][r] # Nothing
         THEN Deliver(stack, s, r, Verdict(byFlags[s][r]))
         ELSE /\ stack' = Append(stack, Call(s, r))
              /\ evaluating' = evaluating \cup {s}
              /\ UNCHANGED <<outcome, answers>>
    /\ UNCHANGED <<program, live, matches, next, byFlags, byKey>>

(* A lookup from outside: analyzeCallable or analyzeIsDefined. *)
Lookup ==
    /\ stack = <<>>
    /\ \E call \in program.calls : Enter(call[1], call[2])

(***************************************************************************)
(* matchInvoke.                                                            *)
(***************************************************************************)
Accepts(o) == Top.set \in program.accepts[o]

NeedsPredicate(o) == Accepts(o) /\ program.predicate[o] # Nothing /\ Top.answer = "none"

Succeeds(o) ==
    Accepts(o) /\ (program.predicate[o] = Nothing \/ Top.answer = "defined")

Fails(o) == ~Succeeds(o) /\ ~NeedsPredicate(o)

(* The overload the innermost call is matching, if any. *)
Candidate ==
    IF Top.doing = "interface" THEN program.interface[Top.set]
    ELSE IF Top.doing = "entries"
         THEN IF Top.i >= Len(matches[Top.set]) /\ Top.index < Len(overloads[Top.set])
              THEN overloads[Top.set][Top.index + 1] ELSE Nothing
    ELSE IF Top.index < Len(live[program.callable[Top.set]])
         THEN live[program.callable[Top.set]][Top.index + 1] ELSE Nothing

(* evaluateBool on the predicate: a nested lookup. *)
EvaluatePredicate ==
    /\ stack # <<>>
    /\ Candidate # Nothing
    /\ NeedsPredicate(Candidate)
    /\ Enter(program.predicate[Candidate][1], program.predicate[Candidate][2])

(* The interface, if there is one, must match. *)
PassInterface ==
    /\ stack # <<>>
    /\ Top.doing = "interface"
    /\ Candidate # Nothing => Succeeds(Candidate)
    /\ SetTop([Top EXCEPT !.doing = "entries", !.answer = "none", !.index = next[Top.set]])
    /\ UNCHANGED <<program, live, tables, evaluating, outcome, answers>>

FailInterface ==
    /\ stack # <<>>
    /\ Top.doing = "interface"
    /\ Candidate # Nothing
    /\ Fails(Candidate)
    /\ Return("undefined")
    /\ UNCHANGED <<program, live, tables>>

(***************************************************************************)
(* Going through the matches.                                              *)
(***************************************************************************)
(* findMatchingInvoke passes over an overload that does not match. *)
SkipOverload ==
    /\ stack # <<>>
    /\ Top.doing \in {"entries", "final"}
    /\ Candidate # Nothing
    /\ Fails(Candidate)
    /\ SetTop([Top EXCEPT !.index = @ + 1, !.answer = "none"])
    /\ UNCHANGED <<program, live, tables, evaluating, outcome, answers>>

\* Mutant: the overloads tried are counted only up to the match.
NextBeforeMatch(s, index) == [next EXCEPT ![s] = IF index > 0 THEN index - 1 ELSE 0]
\* Mutant: ++ once too often, as in the search for a second match.
NextPastOne(s, index) == [next EXCEPT ![s] = IF index + 2 > Len(overloads[s]) THEN index + 1 ELSE index + 2]
NextAfterMatch(s, index) == [next EXCEPT ![s] = index + 1]

(* getMatch: a match is remembered, with the place to go on from. *)
RememberMatch ==
    /\ stack # <<>>
    /\ Top.doing = "entries"
    /\ Candidate # Nothing
    /\ Succeeds(Candidate)
    /\ matches' = [matches EXCEPT ![Top.set] = Append(@, Candidate)]
    /\ next' = NextAfterMatch(Top.set, Top.index)
    /\ SetTop([Top EXCEPT !.index = next'[Top.set], !.answer = "none"])
    /\ UNCHANGED <<program, live, created, overloads, byFlags, byKey, evaluating,
                   outcome, answers>>

NoMatch ==
    /\ stack # <<>>
    /\ Top.doing = "entries"
    /\ Top.i >= Len(matches[Top.set])
    /\ Candidate = Nothing
    /\ Return("undefined")
    /\ UNCHANGED <<program, live, tables>>

Match == matches[Top.set][Top.i + 1]

\* Mutant: the index of the match is not advanced.
SameEntry(i) == i
NextEntry(i) == i + 1

WrongTempness ==
    /\ stack # <<>>
    /\ Top.doing = "entries"
    /\ Top.i < Len(matches[Top.set])
    /\ ~MatchTempness(Match, Top.flags)
    /\ SetTop([Top EXCEPT !.i = NextEntry(@)])
    /\ UNCHANGED <<program, live, tables, evaluating, outcome, answers>>

Known(s, key) == {e \in byKey[s] : e.key = key}

(* The match fits: its entry is found by its tempness key, or made; both maps are
   updated, and with -final-overloads the search goes on behind the last overload
   tried. *)
ChooseMatch ==
    /\ stack # <<>>
    /\ Top.doing = "entries"
    /\ Top.i < Len(matches[Top.set])
    /\ MatchTempness(Match, Top.flags)
    /\ LET key   == TempnessKey(Match, Top.flags)
           known == Known(Top.set, key)
           entry == IF known # {} THEN CHOOSE e \in known : TRUE
                    ELSE [overload |-> Match, key |-> key,
                          forwarded |-> ForwardedRValues(Match, Top.flags)]
       IN  /\ byKey' = [byKey EXCEPT ![Top.set] = @ \cup {entry}]
           /\ byFlags' = [byFlags EXCEPT ![Top.set][Top.flags] = entry]
           /\ IF known = {} /\ program.final
                THEN /\ SetTop([Top EXCEPT !.doing = "final", !.index = next[Top.set]])
                     /\ UNCHANGED <<evaluating, outcome, answers>>
                ELSE Return(Verdict(entry))
    /\ UNCHANGED <<program, live, created, overloads, matches, next>>

(***************************************************************************)
(* -final-overloads: the search for a second match.                        *)
(***************************************************************************)
(* A second match of other tempness: findMatchingInvoke is already past it, and
   ++j passes over one more overload. *)
OtherTempness ==
    /\ stack # <<>>
    /\ Top.doing = "final"
    /\ Candidate # Nothing
    /\ Succeeds(Candidate)
    /\ ~MatchTempness(Candidate, Top.flags)
    /\ SetTop([Top EXCEPT !.index = @ + 2, !.answer = "none"])
    /\ UNCHANGED <<program, live, tables, evaluating, outcome, answers>>

Chosen == byFlags[Top.set][Top.flags]

SecondMatch ==
    /\ stack # <<>>
    /\ Top.doing = "final"
    /\ Candidate # Nothing
    /\ Succeeds(Candidate)
    /\ MatchTempness(Candidate, Top.flags)
    /\ Return(IF program.default[Candidate] THEN Verdict(Chosen) ELSE "undefined")
    /\ UNCHANGED <<program, live, tables>>

OnlyMatch ==
    /\ stack # <<>>
    /\ Top.doing = "final"
    /\ Candidate = Nothing
    /\ Return(Verdict(Chosen))
    /\ UNCHANGED <<program, live, tables>>

Step ==
    \/ EvaluatePredicate \/ PassInterface \/ FailInterface \/ SkipOverload \/ RememberMatch \/ NoMatch
    \/ WrongTempness \/ ChooseMatch \/ OtherTempness \/ SecondMatch \/ OnlyMatch

Next == Lookup \/ Step \/ \E o \in Overloads : Register(o)

(* The compiler is sequential: an active lookup goes on.  Lookups and overloads
   come from the program and need not come at all. *)
Spec == Init /\ [][Next]_vars /\ WF_vars(Step)

(***************************************************************************)
(* Properties.                                                             *)
(***************************************************************************)
(* The predicate of o holds (fails) for good: the call it asks about came to an
   entry (to none).  An overload without a predicate holds. *)
PredicateHolds(o) ==
    program.predicate[o] = Nothing \/ answers[program.predicate[o][1]][program.predicate[o][2]] = "defined"

PredicateFails(o) ==
    program.predicate[o] # Nothing /\ answers[program.predicate[o][1]][program.predicate[o][2]] = "undefined"

Fits(o, s, r) == s \in program.accepts[o] /\ MatchTempness(o, r)

(* Overload o is the choice of list for a call: it fits, its predicate holds, and
   each overload before it does not fit or has a predicate that fails. *)
IsFirstMatch(o, list, s, r) ==
    \E i \in 1 .. Len(list) :
        /\ list[i] = o
        /\ Fits(o, s, r)
        /\ PredicateHolds(o)
        /\ \A j \in 1 .. i - 1 : Fits(list[j], s, r) => PredicateFails(list[j])

(* lookupInvokeEntry: the entry kept for a call is that of the first overload, in
   the order of the set's list, whose patterns, predicate and tempness all match,
   although entries are shared between calls by their tempness key, matches by
   all calls of the set, and lookups nest; and its code was made for the same
   forwarded rvalues. *)
EntryIsFirstMatch ==
    \A s \in Sets, r \in Flags :
        byFlags[s][r] # Nothing =>
            /\ IsFirstMatch(byFlags[s][r].overload, overloads[s], s, r)
            /\ byFlags[s][r].forwarded = ForwardedRValues(byFlags[s][r].overload, r)

(* A call is refused only if no overload of the set matches it, or the first that
   does has no body, or the interface does not, or with -final-overloads two do. *)
NoneOnlyIfNoMatch ==
    \A s \in Sets, r \in Flags :
        answers[s][r] = "undefined" =>
            \/ /\ program.interface[s] # Nothing
               /\ \/ s \notin program.accepts[program.interface[s]]
                  \/ PredicateFails(program.interface[s])
            \/ \A i \in 1 .. Len(overloads[s]) :
                  Fits(overloads[s][i], s, r) => PredicateFails(overloads[s][i])
            \/ \E o \in program.bodiless : IsFirstMatch(o, overloads[s], s, r)
            \/ /\ program.final
               /\ \E i, j \in 1 .. Len(overloads[s]) :
                     i < j /\ Fits(overloads[s][i], s, r) /\ Fits(overloads[s][j], s, r)

(* What the memo tables keep for a call is what matching it afresh would find:
   an entry if and only if there is a first match, and that one; and whoever asks is
   refused only by its lack of a body. *)
MemoIsFirstMatch == EntryIsFirstMatch /\ NoneOnlyIfNoMatch

(* Without -final-overloads, a call refused once is not accepted later: what nested lookups, other calls,
   overloads registered since and the memoised matches do makes no difference. *)
AnswersAgree ==
    ~program.final =>
        \A s \in Sets, r \in Flags :
            answers[s][r] = "undefined" =>
                byFlags[s][r] = Nothing \/ Verdict(byFlags[s][r]) = "undefined"

(* The evaluatingPredicate flags are those of the active lookups, each set being
   active once: a return, an error and a cached answer all clear their own. *)
FlagsMatchStack ==
    /\ evaluating = {stack[i].set : i \in 1 .. Len(stack)}
    /\ \A i, j \in 1 .. Len(stack) : stack[i].set = stack[j].set => i = j

(* Whatever predicates depend on each other, a lookup returns or is refused. *)
LookupsEnd == stack # <<>> ~> stack = <<>>

=============================================================================
