-------------------------------- MODULE Peg --------------------------------
(***************************************************************************)
(* The recursive-descent style of src/compiler/lexer.cpp and parser.cpp,   *)
(* as grammar expressions.  Both files are hundreds of functions of one    *)
(* shape: try something, return false when it fails, and let the caller    *)
(* restore the position it saved.  An alternative is therefore an ordered  *)
(* choice: the first one that succeeds wins and the later ones are never   *)
(* tried.  A function is a record built with the operators below;          *)
(* Recognizer says what running one does.                                  *)
(***************************************************************************)
EXTENDS Integers, Sequences

CharsOf(str) == {SubSeq(str, i, i) : i \in 1 .. Len(str)}
Spelled(str) == [i \in 1 .. Len(str) |-> SubSeq(str, i, i)]

-----------------------------------------------------------------------------
(* Terminals: characters for the lexer, tokens for the parser.             *)

Char(S) == [op |-> "char", in |-> S]
AnyChar == [op |-> "any"]
Kind(ks) == [op |-> "kind", kinds |-> ks, told |-> FALSE]
Word(k, w) == [op |-> "word", kind |-> k, word |-> w]

Symbol(w) == Word("symbol", w)
OpSymbol(w) == Word("opstring", w)
Keyword(w) == Word("keyword", w)

(* A terminal that tells the farthest-failure record what it expected.     *)
Told(ks) == [op |-> "kind", kinds |-> ks, told |-> TRUE]

-----------------------------------------------------------------------------
(* Combinations.                                                           *)

Then(gs) == [op |-> "seq", parts |-> gs]
Alt(gs) == [op |-> "alt", parts |-> gs]
Star(g) == [op |-> "star", part |-> g]
Not(g) == [op |-> "not", part |-> g]
Rule(name) == [op |-> "rule", name |-> name]

Empty == Then(<<>>)
Opt(g) == Alt(<<g, Empty>>)
Plus(g) == Then(<<g, Star(g)>>)
Look(g) == Not(Not(g))
CharNot(S) == Then(<<Not(Char(S)), AnyChar>>)
Text(str) == Then([i \in 1 .. Len(str) |-> Char({SubSeq(str, i, i)})])

(* A commitment: once the first part succeeds, the second one decides.     *)
Choice(g, yes, no) == [op |-> "choice", part |-> g, yes |-> yes, no |-> no]

(* A probe that leaves no trace in the farthest-failure record.            *)
Quiet(g) == [op |-> "quiet", part |-> g]

(* A category: its failure is recorded at the place where it started.      *)
Category(g) == [op |-> "category", part |-> g]

(* Lists: with the comma given back when no element follows, and with a    *)
(* trailing comma allowed.                                                 *)
List(g) == Then(<<g, Star(Then(<<Symbol(","), g>>))>>)
ListWithTail(g) == Then(<<List(g), Opt(Symbol(","))>>)

-----------------------------------------------------------------------------
(* What the parser adds to a pure grammar.                                 *)

(* A flag that one list may set once (hasVarArg, hasVarField), and the     *)
(* list whose flag it is.                                                  *)
Once == [op |-> "once"]
OneVariadic(g) == [op |-> "scope", part |-> g]

(* A read through a pointer to a body that is not there.                   *)
NullBody == [op |-> "nullbody"]

(* error(): the exception leaves the parser, whatever was being tried.     *)
Fatal == [op |-> "fatal"]

(* A block, which commits on its brace and recovers from the errors in it. *)
Block == [op |-> "block"]

(* Read from the place where the current item starts, then come back.      *)
AtItemStart(g) == [op |-> "itemstart", part |-> g]

(* Record an error of its own, at its start, when the part fails.          *)
Complain(g) == [op |-> "complain", part |-> g]

(* An entry of a table that is tried in order.                             *)
As(kind, g) == [kind |-> kind, rule |-> g]
=============================================================================
