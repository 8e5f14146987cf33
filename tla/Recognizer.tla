----------------------------- MODULE Recognizer -----------------------------
(***************************************************************************)
(* Running the grammars of the lexer and the parser                        *)
(* (src/compiler/parser.cpp, the same shape in lexer.cpp).                 *)
(*                                                                         *)
(* The parser keeps its place in static variables, and nothing that fails  *)
(* undoes more than the position: the farthest failure, the flag of a      *)
(* variadic list and the errors recorded inside a block stay, even when    *)
(* the attempt that recorded them is given up.  They are threaded here in  *)
(* one record:                                                             *)
(*   input      the characters or tokens                                   *)
(*   pos, ok    the position, and whether the last attempt succeeded       *)
(*   max, fail  the farthest token read; the farthest that a terminal was  *)
(*              refused at, 0 for none                                     *)
(*   errs, over the places of the recorded errors; whether some were not   *)
(*              recorded because of the limit                              *)
(*   variadic   whether the current list has its variadic element          *)
(*   start      where the current item starts                              *)
(*   guard      where its pattern variables, as read again, end            *)
(*   told       whether a broken import has its error already              *)
(*   crash      whether a body that is not there was read                  *)
(*   fatal      whether error() was called: nothing is tried any more      *)
(***************************************************************************)
EXTENDS Peg

CONSTANTS
  Grammar,         \* Grammar.rules: what the names in the expressions stand for
  MaxParseErrors

ASSUME MaxParseErrorsIsPositive == MaxParseErrors \in Nat \ {0}

At(input, p) ==
  [input |-> input, pos |-> p, ok |-> TRUE, max |-> 0, fail |-> 0,
   errs |-> <<>>, over |-> FALSE, variadic |-> FALSE, start |-> p,
   guard |-> p, told |-> FALSE, crash |-> FALSE,
   fatal |-> FALSE]

-----------------------------------------------------------------------------
(* Errors and recovery.                                                    *)

RecordError(s, place) ==
  IF Len(s.errs) >= MaxParseErrors THEN [s EXCEPT !.over = TRUE]
  ELSE [s EXCEPT !.errs = Append(@, place)]

(* The farthest refused token, or the farthest read one.                   *)
RecordParseError(s) == RecordError(s, IF s.fail = 0 THEN s.max ELSE s.fail)

RecordImportExpected(s) == RecordError([s EXCEPT !.told = TRUE], s.pos)

BeginItem(s) ==
  [s EXCEPT !.max = s.pos, !.fail = 0, !.told = FALSE]

StmtStartKw ==
  {"if", "while", "for", "return", "switch", "break", "continue", "throw",
   "var", "ref", "alias", "forward", "try", "goto", "eval"}
TopLevelStartKw ==
  {"record", "variant", "instance", "enum", "overload", "external", "alias",
   "public", "private", "import", "in", "eval", "newtype", "inline",
   "forceinline", "noinline"}

(* Skipping a malformed run: over braces, up to a semicolon or a starting  *)
(* keyword.  In a block the brace that closes it is left; at the top level *)
(* the brace that closes the run, or a stray one, ends it.                 *)
RECURSIVE Synchronized(_, _, _, _, _)
Synchronized(input, p, depth, first, top) ==
  LET Is(w) == input[p] = [kind |-> "symbol", str |-> w]
      Starts == /\ input[p].kind = "keyword"
                /\ input[p].str \in IF top THEN TopLevelStartKw ELSE StmtStartKw
      Go(d) == Synchronized(input, p + 1, d, FALSE, top)
  IN  CASE p > Len(input) -> p
        [] p <= Len(input) /\ Is("{") -> Go(depth + 1)
        [] p <= Len(input) /\ Is("}") /\ top ->
             IF depth <= 1 THEN p + 1 ELSE Go(depth - 1)
        [] p <= Len(input) /\ Is("}") /\ ~top ->
             IF depth = 0 THEN p ELSE Go(depth - 1)
        [] OTHER ->
             IF depth = 0 /\ ~first /\ Is(";") THEN p + 1
             ELSE IF depth = 0 /\ ~first /\ Starts THEN p
             ELSE Go(depth)

SynchronizeBlock(s) ==
  [s EXCEPT !.pos = Synchronized(s.input, s.pos, 0, TRUE, FALSE)]
(* Slips: stopping where a block would, and at the very word that failed. *)
SynchronizeTopLevelAsBlock(s) ==
  [s EXCEPT !.pos = Synchronized(s.input, s.pos, 0, TRUE, FALSE)]
SynchronizeTopLevelAtStart(s) ==
  [s EXCEPT !.pos = Synchronized(s.input, s.pos, 0, FALSE, TRUE)]

SynchronizeTopLevel(s) ==
  [s EXCEPT !.pos = Synchronized(s.input, s.pos, 0, TRUE, TRUE)]

AtEnd(s) == s.pos > Len(s.input)
AtSymbol(s, w) ==
  ~AtEnd(s) /\ s.input[s.pos] = [kind |-> "symbol", str |-> w]

-----------------------------------------------------------------------------
(* Terminals: the next element is passed even when it is refused; whoever  *)
(* tries the terminal restores the position.                               *)

Matches(g, x) ==
  CASE g.op = "char" -> x \in g.in
    [] g.op = "any" -> TRUE
    [] g.op = "kind" -> x.kind \in g.kinds
    [] g.op = "word" -> x.kind = g.kind /\ x.str = g.word

(* A slip: passing over the end.                                           *)
TerminalPastEnd(g, s) ==
  LET hit == ~AtEnd(s) /\ Matches(g, s.input[s.pos])
  IN  [s EXCEPT !.ok = hit, !.pos = @ + 1]

Terminal(g, s) ==
  LET hit == ~AtEnd(s) /\ Matches(g, s.input[s.pos])
      told == g.op = "word" \/ (g.op = "kind" /\ g.told)
  IN  [s EXCEPT !.ok = hit,
                !.pos = IF AtEnd(s) THEN @ ELSE @ + 1,
                !.max = IF ~AtEnd(s) /\ s.pos > @ THEN s.pos ELSE @,
                !.fail = IF ~hit /\ told /\ s.pos > @ THEN s.pos ELSE @]

BackTo(s, p) == [s EXCEPT !.pos = p, !.ok = TRUE]

-----------------------------------------------------------------------------
(* Running a grammar expression.                                           *)

RECURSIVE Run(_, _), RunSeq(_, _, _), RunAlt(_, _, _, _), RunStar(_, _, _),
          RunBlockItems(_), RunExpression(_, _)

RunSeq(parts, i, s) ==
  IF i > Len(parts) \/ ~s.ok THEN s
  ELSE RunSeq(parts, i + 1, Run(parts[i], s))

RunAlt(parts, i, p, tried) ==
  IF tried.ok \/ i > Len(parts) THEN tried
  ELSE RunAlt(parts, i + 1, p, Run(parts[i], BackTo(tried, p)))

RunStar(g, p, more) ==
  IF more.ok /\ ~more.fatal THEN RunStar(g, more.pos, Run(g, more))
  ELSE BackTo(more, p)

(* The statements of a block: what is malformed is reported and skipped.   *)
Resume(next) ==
  IF Len(next.errs) >= MaxParseErrors THEN [next EXCEPT !.over = TRUE]
  ELSE RunBlockItems(next)
Malformed(back) ==
  IF AtEnd(back) \/ AtSymbol(back, "}") THEN back
  ELSE Resume(SynchronizeBlock(RecordParseError(back)))
AfterItem(item, p) ==
  IF item.fatal THEN item
  ELSE IF item.ok THEN RunBlockItems(item) ELSE Malformed(BackTo(item, p))
RunBlockItems(s) == AfterItem(Run(Rule("blockItem"), BeginItem(s)), s.pos)

Closed(close) ==
  IF close.ok THEN close ELSE [RecordParseError(close) EXCEPT !.ok = TRUE]
Opened(open) ==
  IF open.ok THEN Closed(Terminal(Symbol("}"), RunBlockItems(open))) ELSE open
RunBlock(s) == Opened(Terminal(Symbol("{"), s))

(* What is made of the outcome r of a part that was started at s.          *)
Negation(r, s) == [r EXCEPT !.pos = s.pos, !.ok = ~r.ok]
Chosen(g, r, s) == IF r.ok THEN Run(g.yes, r) ELSE Run(g.no, BackTo(r, s.pos))
Categorized(r, s) ==
  IF ~r.ok /\ s.pos > r.fail THEN [r EXCEPT !.fail = s.pos] ELSE r
Guarding(r, s) == [BackTo(r, s.pos) EXCEPT !.guard = r.pos]
Complained(r, s) ==
  IF r.ok THEN r ELSE [RecordImportExpected(BackTo(r, s.pos)) EXCEPT !.ok = FALSE]

Run(g, s) ==
  CASE s.fatal -> s
    [] ~s.fatal -> RunExpression(g, s)

RunExpression(g, s) ==
  CASE g.op \in {"char", "any", "kind", "word"} -> Terminal(g, s)
    [] g.op = "seq" -> RunSeq(g.parts, 1, s)
    [] g.op = "alt" -> RunAlt(g.parts, 1, s.pos, [s EXCEPT !.ok = FALSE])
    [] g.op = "star" -> RunStar(g.part, s.pos, Run(g.part, s))
    [] g.op = "rule" -> Run(Grammar.rules[g.name], s)
    [] g.op = "not" -> Negation(Run(g.part, s), s)
    [] g.op = "choice" -> Chosen(g, Run(g.part, s), s)
    [] g.op = "quiet" -> [Run(g.part, s) EXCEPT !.fail = s.fail]
    [] g.op = "category" -> Categorized(Run(g.part, s), s)
    [] g.op = "once" -> [s EXCEPT !.ok = ~s.variadic, !.variadic = TRUE]
    [] g.op = "scope" ->
         [Run(g.part, [s EXCEPT !.variadic = FALSE]) EXCEPT !.variadic = s.variadic]
    [] g.op = "block" -> RunBlock(s)
    [] g.op = "itemstart" -> Guarding(Run(g.part, BackTo(s, s.start)), s)
    [] g.op = "complain" -> Complained(Run(g.part, s), s)
    [] g.op = "nullbody" -> [s EXCEPT !.crash = TRUE]
    [] g.op = "fatal" -> [s EXCEPT !.fatal = TRUE]
=============================================================================
