------------------------------- MODULE Parser -------------------------------
(***************************************************************************)
(* From the text of a file to its declarations: tokenize                   *)
(* (src/compiler/lexer.cpp), then module and applyParser                   *)
(* (src/compiler/parser.cpp).  A step reads one token, one import, the     *)
(* header, one bracket of the pattern variables that the parser skips, or  *)
(* one declaration; what is malformed is reported and skipped in the step  *)
(* that met it.                                                            *)
(*                                                                         *)
(* A text is a sequence of chunks, each with the outcome it has when it is *)
(* parsed alone; the parser sees their concatenation.  The second run of   *)
(* applyParser, which only sharpens the messages, is the one that is       *)
(* modelled.                                                               *)
(***************************************************************************)
EXTENDS Recognizer, FiniteSets, SequencesExt

CONSTANT Programs

VARIABLES program, source, phase, at, style, tokens, parser, bracket, log
vars == <<program, source, phase, at, style, tokens, parser, bracket, log>>

Concatenation(chunks) == FoldSeq(LAMBDA c, text : c.text \o text, "", chunks)

Kinds ==
  {"import", "in", "broken"} \cup
  {d.kind : d \in ToSet(Grammar.afterVars \o Grammar.fromStart)}

Phases == {"lex", "imports", "header", "items", "skip", "item", "done",
           "refused", "crashed"}

TypeOK ==
  /\ program \in Programs
  /\ phase \in Phases
  /\ at \in 1 .. Len(source) + 1
  /\ style \in {"code", "line", "block"}
  /\ \A i \in DOMAIN tokens : DOMAIN tokens[i] = {"kind", "str"}
  /\ parser.pos \in 1 .. Len(tokens) + 1
  /\ parser.start \in 1 .. Len(tokens) + 1
  /\ parser.fail \in 0 .. Len(tokens) + 1
  /\ Len(parser.errs) <= MaxParseErrors
  /\ ToSet(parser.errs) \subseteq 1 .. Len(tokens) + 1
  /\ bracket \in 0 .. Len(tokens)
  /\ \A i \in DOMAIN log : log[i].kind \in Kinds /\ log[i].errs \in Nat

Init ==
  /\ program \in Programs
  /\ source = Spelled(Concatenation(program))
  /\ phase = "lex"
  /\ at = 1
  /\ style = "code"
  /\ tokens = <<>>
  /\ parser = At(<<>>, 1)
  /\ bracket = 0
  /\ log = <<>>

-----------------------------------------------------------------------------
(* The first rule of a table that succeeds, with everything the attempts   *)
(* before it left behind; the last attempt when none does.                 *)
RECURSIVE FirstOf(_, _, _), FirstAfter(_, _, _, _)
FirstOf(table, i, s) == FirstAfter(table, i, s.pos, Run(table[i].rule, s))
FirstAfter(table, i, p, tried) ==
  IF tried.ok \/ i = Len(table) THEN [kind |-> table[i].kind, run |-> tried]
  ELSE FirstOf(table, i + 1, BackTo(tried, p))

-----------------------------------------------------------------------------
(* tokenize.                                                               *)

Lexing(s) ==
  /\ phase = "lex"
  /\ style = s
  /\ UNCHANGED <<program, source, parser, bracket, log>>

(* The text of a name, a keyword or an operator is what it is; the other   *)
(* tokens are their kind.                                                  *)
TokenOf(kind, from, to) ==
  LET str == IF kind \in {"identifier", "symbol", "opstring"}
             THEN FoldSeq(LAMBDA c, text : c \o text, "",
                          SubSeq(source, from, to))
             ELSE ""
  IN  [kind |-> IF str \in Grammar.keywords THEN "keyword" ELSE kind, str |-> str]

(* nextToken: at the end of the text the parser starts, and a character    *)
(* that starts no token ends the compilation.                              *)
LexToken ==
  /\ Lexing("code")
  /\ \E found \in {FirstOf(Grammar.nextToken, 1, At(source, at))} :
         \/ /\ found.run.ok
            /\ at' = found.run.pos
            /\ style' = CASE found.kind = "docline" -> "line"
                          [] found.kind = "docblock" -> "block"
                          [] OTHER -> "code"
            /\ tokens' =
                 IF found.kind \in {"space", "comment", "docline", "docblock"}
                 THEN tokens
                 ELSE Append(tokens, TokenOf(found.kind, at, found.run.pos - 1))
            /\ UNCHANGED phase
         \/ /\ ~found.run.ok
            /\ phase' = IF at > Len(source) THEN "imports" ELSE "refused"
            /\ UNCHANGED <<at, style, tokens>>

(* nextDocToken, after the spaces.                                         *)
LexDocToken ==
  /\ style # "code"
  /\ Lexing(style)
  /\ \E p \in {Run(Star(Grammar.docSpace[style]), At(source, at)).pos} :
     \E found \in {FirstOf(Grammar.nextDocToken[style], 1, At(source, p))} :
         \/ /\ found.run.ok
            /\ at' = found.run.pos
            /\ style' = IF found.kind = "docend" THEN "code" ELSE style
            /\ tokens' = IF found.kind = "docend" THEN tokens
                         ELSE Append(tokens, TokenOf(found.kind, 1, 0))
            /\ UNCHANGED phase
         \/ /\ ~found.run.ok
            /\ at' = p
            /\ style' = "code"
            /\ phase' = IF p > Len(source) THEN phase ELSE "refused"
            /\ UNCHANGED tokens

-----------------------------------------------------------------------------
(* What a step of the parser leaves in the log: what it found, how many    *)
(* places it reported, and whether pattern variables were skipped before a *)
(* declaration that then did not find them there.                          *)
Logged(kind, next) ==
  Append(log, [kind |-> kind,
               errs |-> Cardinality({next.errs[i] : i \in
                          Len(parser.errs) + 1 .. Len(next.errs)}),
               lost |-> kind \in {d.kind : d \in ToSet(Grammar.afterVars)}
                        /\ parser.start < parser.pos
                        /\ next.guard < parser.pos])

Parsing(p) ==
  /\ phase = p
  /\ UNCHANGED <<program, source, at, style, tokens>>

Starting ==
  LET s == IF parser.input = tokens THEN parser ELSE At(tokens, 1)
  IN  [BeginItem(s) EXCEPT !.start = s.pos, !.guard = s.pos]

(* Recovery, up to the limit of errors.                                    *)
AtLimit(s) == Len(s.errs) >= MaxParseErrors
Recovered(s) ==
  LET next == SynchronizeTopLevel(s)
  IN  IF AtLimit(next) THEN [next EXCEPT !.over = TRUE] ELSE next

-----------------------------------------------------------------------------
(* imports: a run that got past the keyword is a broken import, anything   *)
(* else is the start of the declarations.                                  *)

ParseImport ==
  /\ Parsing("imports")
  /\ \E r \in {Run(Grammar.import, Starting)},
        begun \in {Run(Grammar.importStart, Starting).ok} :
       LET back == BackTo(r, Starting.pos)
       IN  \/ /\ r.ok
              /\ parser' = r
              /\ phase' = phase
              /\ log' = Logged("import", r)
           \/ /\ ~r.ok /\ begun
              /\ parser' = Recovered(IF r.told THEN back ELSE RecordParseError(back))
              /\ phase' = IF parser'.over THEN "header" ELSE phase
              /\ log' = Logged("broken", parser')
           \/ /\ ~r.ok /\ ~begun
              /\ parser' = back
              /\ phase' = "header"
              /\ UNCHANGED log
  /\ UNCHANGED bracket

(* The exception of an error() in the grammar ends the parse, and nothing  *)
(* that was recorded before it is shown.                                   *)
Abandon == phase' = "refused" /\ UNCHANGED <<parser, log>>

(* A broken header ends the parse.                                         *)
ParseHeader ==
  /\ Parsing("header")
  /\ \E r \in {Run(Grammar.header, parser)} :
       IF r.fatal THEN Abandon
       ELSE IF r.ok
       THEN /\ parser' = r
            /\ phase' = "items"
            /\ log' = IF r.pos > parser.pos THEN Logged("in", r) ELSE log
       ELSE /\ parser' = IF r.errs = <<>> THEN RecordParseError(r) ELSE r
            /\ phase' = "done"
            /\ log' = Logged("broken", parser')
  /\ UNCHANGED bracket

-----------------------------------------------------------------------------
(* topLevelItems.                                                          *)

EndItems ==
  /\ Parsing("items")
  /\ AtEnd(parser)
  /\ phase' = "done"
  /\ UNCHANGED <<parser, bracket, log>>

(* skipOptPatternVar: one bracket opens pattern variables, two attributes. *)
StartItem ==
  /\ Parsing("items")
  /\ ~AtEnd(parser)
  /\ LET open == Terminal(Symbol("["), Starting)
         attributes == Terminal(Symbol("["), open)
     IN  IF open.ok /\ ~attributes.ok
         THEN /\ phase' = "skip"
              /\ bracket' = 1
              /\ parser' = BackTo(attributes, open.pos)
         ELSE /\ phase' = "item"
              /\ bracket' = 0
              /\ parser' = BackTo(open, Starting.pos)
  /\ UNCHANGED log

(* One turn of its loop, which looks for the bracket that closes the list. *)
SkipPatternVars ==
  /\ Parsing("skip")
  /\ LET open == Terminal(Symbol("["), parser)
         close == Terminal(Symbol("]"), BackTo(open, parser.pos))
         left == IF open.ok THEN bracket + 1
                 ELSE IF close.ok THEN bracket - 1 ELSE bracket
     IN  /\ bracket' = left
         /\ parser' = IF open.ok THEN open ELSE [close EXCEPT !.ok = TRUE]
         /\ phase' = IF left = 0 THEN "item" ELSE "skip"
  /\ UNCHANGED log

(* topLevelItem, after the pattern variables: the declarations that take   *)
(* them, then the ones that are read from the start of the item.           *)
OrFromStart(first) ==
  IF first.run.ok THEN first
  ELSE FirstOf(Grammar.fromStart, 1, BackTo(first.run, parser.start))
TopLevelItem == OrFromStart(FirstOf(Grammar.afterVars, 1, parser))

(* An item that got somewhere before it failed is reported at the farthest *)
(* failure, one that did not at its first token.                           *)
ParseItem ==
  /\ Parsing("item")
  /\ \E found \in {TopLevelItem} :
       LET r == found.run
           back == BackTo(r, parser.start)
       IN  \/ r.fatal /\ Abandon
           \/ /\ r.ok /\ ~r.fatal
              /\ parser' = r
              /\ phase' = IF r.crash THEN "crashed" ELSE "items"
              /\ log' = Logged(found.kind, r)
           \/ /\ ~r.ok /\ ~r.fatal
              /\ parser' = Recovered(IF r.fail > parser.start
                                     THEN RecordParseError(back)
                                     ELSE RecordError(back, parser.start))
              /\ phase' = IF parser'.over THEN "done" ELSE "items"
              /\ log' = Logged("broken", parser')
  /\ UNCHANGED bracket

-----------------------------------------------------------------------------
Over == phase \in {"done", "refused", "crashed"}
Finished == Over /\ UNCHANGED vars

Next ==
  \/ LexToken \/ LexDocToken
  \/ ParseImport \/ ParseHeader
  \/ EndItems \/ StartItem \/ SkipPatternVars \/ ParseItem
  \/ Finished

Spec == Init /\ [][Next]_vars

-----------------------------------------------------------------------------
Refused == <<[kind |-> "refused", errs |-> 1, lost |-> FALSE]>>
Expected ==
  FoldSeq(LAMBDA chunk, found : chunk.log \o found, <<>>, program)

(* An error is local: in a sequence of chunks every chunk has the outcome  *)
(* it has alone.  A malformed declaration is reported once, at the place   *)
(* where it stopped, and takes nothing of its neighbours with it, neither  *)
(* the one before nor the one after; everything well formed is found, as   *)
(* the declaration it is and with its pattern variables.  At the limit of  *)
(* errors the parser stops, and what it found before is a prefix.          *)
EachChunkOnItsOwn ==
  /\ phase = "done" => log = Expected
  /\ phase = "refused" => \E i \in DOMAIN program : program[i].log = Refused
  /\ phase # "crashed"

(* Every step reads something or goes on to the next part, so every text   *)
(* is read to an end: the recovery never stands still in front of the word *)
(* that it failed on.  The one loop that can stand still is the search for *)
(* the bracket that closes pattern variables, at the end of the text.      *)
StepForward ==
  \/ at' > at
  \/ style # "code" /\ style' = "code"
  \/ phase' # phase /\ ~(phase = "item" /\ phase' = "items")
  \/ phase # "item" /\ parser'.pos > parser.pos
  \/ phase = "item" /\ parser'.pos > parser.start
  \/ phase = "skip" /\ AtEnd(parser)
ReadsOn == [][StepForward]_vars

(* A declaration of the documented form is read with its pattern variables *)
(* and with the body it has, if any: after the type of what it overloads,  *)
(* `overload` in parser.cpp keeps both.                                    *)
DocumentedAsWritten ==
  phase # "crashed" /\ \A i \in DOMAIN log : ~log[i].lost
=============================================================================
