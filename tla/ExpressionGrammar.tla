------------------------- MODULE ExpressionGrammar -------------------------
(***************************************************************************)
(* Names, literals, expressions, formal arguments and patterns             *)
(* (src/compiler/parser.cpp), one definition per function of the parser.   *)
(***************************************************************************)
EXTENDS Peg

identifier == Told({"identifier", "opidentifier"})
identifierList == ListWithTail(identifier)
identifierListNoTail == List(identifier)
dottedName ==
  Then(<<identifier, Star(Quiet(Then(<<Symbol("."), identifier>>)))>>)
ellipsis == Symbol("..")

-----------------------------------------------------------------------------
(* Literals.  A number takes a following name as its type suffix.          *)

boolLiteral == Alt(<<Keyword("true"), Keyword("false")>>)
intLiteral == Then(<<Kind({"int"}), Opt(Kind({"identifier"}))>>)
floatLiteral == Then(<<Kind({"float"}), Opt(Kind({"identifier"}))>>)
charLiteral == Kind({"char"})
stringLiteral == Kind({"string"})
literal ==
  Alt(<<boolLiteral, intLiteral, floatLiteral, charLiteral, stringLiteral>>)

-----------------------------------------------------------------------------
(* Atoms and suffixes.                                                     *)

expressionList == ListWithTail(Rule("expression"))
optExpressionList == Opt(expressionList)
Bracketed(open, close) ==
  Then(<<Quiet(Symbol(open)), optExpressionList, Symbol(close)>>)

tupleExpr == Bracketed("[", "]")
parenExpr == Bracketed("(", ")")
argExpr == Then(<<Keyword("__ARG__"), identifier>>)
evalExpr == Then(<<Keyword("eval"), Rule("expression")>>)
atomicExpr ==
  Category(Alt(<<identifier, parenExpr, literal, tupleExpr,
                 Keyword("__FILE__"), Keyword("__LINE__"),
                 Keyword("__COLUMN__"), argExpr, evalExpr>>))

fieldRefSuffix == Then(<<Quiet(Symbol(".")), identifier>>)
(* strtoul must read the number to its end.                                *)
staticIndexingSuffix ==
  Alt(<<Kind({"staticindex"}), Then(<<Kind({"badindex"}), Fatal>>)>>)
suffix ==
  Alt(<<stringLiteral, Bracketed("[", "]"), Bracketed("(", ")"),
        fieldRefSuffix, staticIndexingSuffix, Quiet(Symbol("^"))>>)
suffixExpr == Then(<<atomicExpr, Star(suffix)>>)

-----------------------------------------------------------------------------
(* Operators, from the tightest.  A signed number stands before any other  *)
(* use of its sign, and takes no suffix.                                   *)

plusOrMinus == Alt(<<OpSymbol("+"), OpSymbol("-")>>)
signedLiteral == Alt(<<intLiteral, floatLiteral>>)

operatorOp ==
  Then(<<Not(OpSymbol("<--")), Not(OpSymbol("-->")), Not(OpSymbol("=>")),
        Not(OpSymbol("->")), Not(OpSymbol("~>")), Not(OpSymbol("=")),
        Told({"opstring"})>>)
preopExpr ==
  Alt(<<Then(<<plusOrMinus, signedLiteral>>),
        Then(<<operatorOp, Rule("prefixExpr")>>)>>)
prefixExpr ==
  Alt(<<Then(<<Symbol("@"), Rule("prefixExpr")>>),
        Then(<<OpSymbol("*"), Rule("prefixExpr")>>),
        preopExpr,
        Then(<<Symbol("#"), Rule("prefixExpr")>>),
        suffixExpr>>)

(* The tail is one list of operators: an operator without its operand      *)
(* fails the whole of it.                                                  *)
operands ==
  Then(<<Rule("prefixExpr"), Choice(operatorOp, Rule("operands"), Empty)>>)
operatorTail == Then(<<operatorOp, operands>>)
operatorExpr == Then(<<Rule("prefixExpr"), Star(operatorTail)>>)

notExpr == Then(<<Opt(Keyword("not")), operatorExpr>>)
andExpr ==
  Then(<<Rule("notExpr"), Star(Then(<<Keyword("and"), Rule("notExpr")>>))>>)
orExpr == Then(<<andExpr, Star(Then(<<Keyword("or"), andExpr>>))>>)

ifExpr ==
  Then(<<Keyword("if"), Symbol("("), Rule("expression"), Symbol(")"),
        Rule("expression"), Keyword("else"), Rule("expression")>>)

-----------------------------------------------------------------------------
(* Patterns and type annotations.                                          *)

dottedNameRef == Then(<<identifier, Star(fieldRefSuffix)>>)
atomicPattern == Alt(<<dottedNameRef, intLiteral>>)
pattern == Then(<<atomicPattern, Opt(Bracketed("[", "]"))>>)

optTypeSpec == Opt(Then(<<Quiet(Symbol(":")), pattern>>))
exprTypeSpec == Then(<<Symbol(":"), Rule("expression")>>)
optExprTypeSpec == Opt(Then(<<Quiet(Symbol(":")), Rule("expression")>>))

-----------------------------------------------------------------------------
(* Formal arguments: values with a tempness, a type and a conversion, and  *)
(* static ones.  At most one is variadic, and that one has no conversion.  *)

optVarArgTypeSpec == Opt(Then(<<Symbol(":"), identifier>>))
optArgTempness == Opt(Alt(<<Keyword("rvalue"), Keyword("ref"),
                            Keyword("forward")>>))
VariadicOr(variadic, plain) == Choice(ellipsis, Then(<<Once, variadic>>), plain)

valueFormalArg ==
  Then(<<optArgTempness,
        VariadicOr(Then(<<identifier, optVarArgTypeSpec, Not(Keyword("as"))>>),
                   Then(<<identifier, optTypeSpec,
                         Choice(Keyword("as"), pattern, Empty)>>))>>)
\* (Only an expression that is unpacked starts with two dots.)
staticFormalArg ==
  Then(<<Symbol("#"), Choice(Then(<<Look(ellipsis), Rule("expression")>>), Fatal,
                             Rule("expression"))>>)
formalArg == Alt(<<valueFormalArg, staticFormalArg, stringLiteral>>)
formalArgs == List(formalArg)
arguments ==
  OneVariadic(Then(<<Symbol("("), Opt(formalArgs), Symbol(")")>>))

-----------------------------------------------------------------------------
(* Returned expressions, lambdas and expressions.                          *)

returnKind == Opt(Alt(<<Keyword("ref"), Keyword("forward")>>))
returnExprList == Then(<<returnKind, optExpressionList>>)
returnExpr == Then(<<returnKind, Rule("expression")>>)

lambdaArgs == Alt(<<identifier, arguments, Empty>>)
lambdaArrow == Alt(<<OpSymbol("->"), OpSymbol("=>"), OpSymbol("~>")>>)
lambdaBody == Alt(<<returnExpr, Block>>)
lambda == Then(<<lambdaArgs, lambdaArrow, lambdaBody>>)

unpack == Then(<<ellipsis, Rule("expression")>>)
pairExpr == Then(<<identifier, Symbol(":"), Rule("expression")>>)

expression == Alt(<<lambda, pairExpr, Rule("orExpr"), ifExpr, unpack>>)
=============================================================================
