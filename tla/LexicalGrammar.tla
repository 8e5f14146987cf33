--------------------------- MODULE LexicalGrammar ---------------------------
(***************************************************************************)
(* The tokens of the language (src/compiler/lexer.cpp): one definition per *)
(* function of the lexer.  The content of a token is the text it spans;    *)
(* what an escape stands for is left out.  The vertical tab is not in the  *)
(* model's alphabet.                                                       *)
(***************************************************************************)
EXTENDS Peg

Letters == CharsOf("abcdefghijklmnopqrstuvwxyzABCDEFGHIJKLMNOPQRSTUVWXYZ_?")
Digits == CharsOf("0123456789")
HexDigits == Digits \cup CharsOf("abcdefABCDEF")
SpaceChars == CharsOf(" \t\n\r\f")
LineEnds == CharsOf("\r\n")
OpChars == CharsOf("=!<>+-*/\\%~|&")

Keywords ==
  {"public", "private", "import", "as", "record", "variant", "instance",
   "define", "overload", "default", "external", "alias", "rvalue", "ref",
   "forward", "inline", "noinline", "forceinline", "enum", "var", "and",
   "or", "not", "if", "else", "goto", "return", "while", "switch", "case",
   "break", "continue", "for", "in", "true", "false", "try", "catch",
   "throw", "finally", "onerror", "staticassert", "eval", "when",
   "newtype", "__FILE__", "__LINE__", "__COLUMN__", "__ARG__"}

identStr == Then(<<Char(Letters), Star(Char(Letters \cup Digits))>>)

symbol ==
  Alt([i \in 1 .. 15 |->
         Text(<<"..", "::", "^", "@", "(", ")", "[", "]", "{", "}", ":",
                ";", ",", ".", "#">>[i])])

opstring == Plus(Char(OpChars))
updateOp == Then(<<opstring, Text(":")>>)
opIdentifier == Then(<<Text("("), opstring, Text(")")>>)

-----------------------------------------------------------------------------
(* Characters and strings.                                                 *)

Quote == Text("\"")
TripleQuote == Text("\"\"\"")

hexEscapeChar == Then(<<Char(HexDigits), Char(HexDigits)>>)
escapeChar ==
  Then(<<Text("\\"),
        Alt(<<Char(CharsOf("nrtf\\'\"$0")),
              Then(<<Text("x"), hexEscapeChar>>)>>)>>)
oneChar == Alt(<<escapeChar, CharNot({"\\"})>>)
charToken == Then(<<Text("'"), Not(Text("'")), oneChar, Text("'")>>)

singleQuoteStringToken ==
  Then(<<Quote, Star(Then(<<Not(Quote), oneChar>>)), Quote>>)

(* Three quotes commit to the long form, which ends at three quotes that   *)
(* no fourth one follows.                                                  *)
tripleEnd == Then(<<TripleQuote, Not(Quote)>>)
stringToken ==
  Alt(<<Then(<<TripleQuote, Star(Then(<<Not(tripleEnd), oneChar>>)),
              tripleEnd>>),
        Then(<<Not(TripleQuote), singleQuoteStringToken>>)>>)

-----------------------------------------------------------------------------
(* Numbers: one underscore may follow every digit, the last one too.       *)

Separated(D) ==
  Then(<<Star(Then(<<Opt(Text("_")), Char(D)>>)), Opt(Text("_"))>>)
decimalDigits == Separated(Digits)
hexDigits == Separated(HexDigits)
hexInt == Then(<<Text("0x"), Char(HexDigits), hexDigits>>)
decimalInt == Then(<<Char(Digits), decimalDigits>>)
sign == Char({"+", "-"})
intToken == Then(<<Opt(sign), Alt(<<hexInt, decimalInt>>)>>)

exponentPart == Then(<<Char({"e", "E"}), Opt(sign), decimalInt>>)
fractionalPart == Then(<<Text("."), decimalDigits>>)
hexExponentPart == Then(<<Char({"p", "P"}), Opt(sign), decimalInt>>)
hexFractionalPart == Then(<<Text("."), hexDigits>>)
floatToken ==
  Then(<<Opt(sign),
        Alt(<<Then(<<hexInt, Opt(hexFractionalPart), hexExponentPart>>),
              Then(<<Not(hexInt), decimalInt,
                    Alt(<<Then(<<fractionalPart, Opt(exponentPart)>>),
                          exponentPart>>)>>)>>)>>)

staticIndex == Then(<<Text("."), Alt(<<hexInt, decimalInt>>)>>)
(* One that strtoul reads to its end: no underscore, and behind a leading  *)
(* zero no digit above seven.                                              *)
readableNumber ==
  Alt(<<Then(<<Text("0x"), Plus(Char(HexDigits))>>),
        Then(<<Text("0"), Star(Char(CharsOf("01234567")))>>),
        Then(<<Char(Digits \ {"0"}), Star(Char(Digits))>>)>>)
readableIndex ==
  Then(<<Text("."), readableNumber, Not(Char(Digits \cup {"_"}))>>)

-----------------------------------------------------------------------------
(* Spaces, comments and LLVM bodies.                                       *)

space == Plus(Char(SpaceChars))
lineComment == Then(<<Text("//"), Star(CharNot(LineEnds))>>)
blockComment ==
  Then(<<Text("/*"), Star(Then(<<Not(Text("*/")), AnyChar>>)), Text("*/")>>)

llvmStringChar == Alt(<<Then(<<Text("\\"), AnyChar>>), CharNot({"\\", "\""})>>)
llvmStringLiteral == Then(<<Quote, Star(llvmStringChar), Quote>>)
llvmComment == Then(<<Text(";"), Star(CharNot({"\n"})), Opt(Text("\n"))>>)
llvmBodyItem ==
  Alt(<<llvmComment, Rule("llvmBraces"), llvmStringLiteral, CharNot({"}"})>>)
llvmBraces == Then(<<Text("{"), Star(llvmBodyItem), Text("}")>>)
llvmToken == Then(<<Text("__llvm__"), Star(Char(SpaceChars)), llvmBraces>>)

-----------------------------------------------------------------------------
(* Documentation comments, line by line and as blocks.                     *)

docStartLine == Text("///")
docStartBlock == Text("/**")
StarsThenSlash == Then(<<Star(Text("*")), Text("/")>>)

docSpace ==
  [line |-> Char(SpaceChars \ LineEnds),
   block |-> Alt(<<Char(SpaceChars),
                   Then(<<Text("*"), Not(Text("/"))>>)>>)]
docEnd == [line |-> Char(LineEnds), block |-> StarsThenSlash]

(* The space that ends the key is read with it, a line end too.            *)
docProperty ==
  Then(<<Star(Char(SpaceChars)), Text("@"), Star(CharNot(SpaceChars)),
        Char(SpaceChars)>>)
knownProperty ==
  Then(<<Star(Char(SpaceChars)), Text("@"),
        Alt(<<Text("section"), Text("module"), Text("overload"),
              Text("default"), Text("record")>>), Char(SpaceChars)>>)

(* A text ends before the line end, or at the star that begins the end of  *)
(* the block; at the end of the file it is no token.                       *)
maybeDocEnd == Then(<<Text("*"), Look(StarsThenSlash)>>)
docText ==
  [line |-> Then(<<AnyChar, Star(CharNot(LineEnds)), Look(Char(LineEnds))>>),
   block |-> Then(<<AnyChar, Star(Then(<<Not(maybeDocEnd),
                                       CharNot(LineEnds)>>)),
                   Alt(<<maybeDocEnd, Look(Char(LineEnds))>>)>>)]

-----------------------------------------------------------------------------
(* The order in which nextToken and nextDocToken try them.                 *)

nextToken ==
  <<As("space", space), As("docline", docStartLine),
    As("docblock", docStartBlock), As("comment", lineComment),
    As("comment", blockComment), As("staticindex", readableIndex),
    As("badindex", staticIndex),
    As("opidentifier", opIdentifier), As("symbol", symbol),
    As("uopstring", updateOp), As("opstring", opstring),
    As("llvm", llvmToken), As("identifier", identStr),
    As("char", charToken), As("string", stringToken),
    As("float", floatToken), As("int", intToken)>>

nextDocToken ==
  [style \in {"line", "block"} |->
     <<As("docend", docEnd[style]), As("docproperty", knownProperty),
       As("badproperty", docProperty), As("doctext", docText[style])>>]
=============================================================================
