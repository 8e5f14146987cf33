-------------------------- MODULE StatementGrammar --------------------------
(***************************************************************************)
(* Bindings, pattern variables and statements (src/compiler/parser.cpp),   *)
(* one definition per function of the parser.                              *)
(***************************************************************************)
EXTENDS ExpressionGrammar

Ended(g) == Then(<<g, Symbol(";")>>)
Parens(g) == Then(<<Symbol("("), g, Symbol(")")>>)
Guarded(key, g) == Then(<<Keyword(key), g>>)

-----------------------------------------------------------------------------
(* Pattern variables with an optional condition.                           *)

predicate == Guarded("when", Rule("expression"))
patternVar == Then(<<Opt(ellipsis), identifier>>)
patternVarList == List(patternVar)
patternVarsWithCond ==
  Then(<<Symbol("["), Opt(patternVarList), Opt(predicate), Symbol("]")>>)
optPatternVarsWithCond == Opt(patternVarsWithCond)

-----------------------------------------------------------------------------
(* Local bindings.                                                         *)

bindingKind == Alt(<<Keyword("var"), Keyword("ref"), Keyword("alias"),
                     Keyword("forward")>>)
bindingArg ==
  VariadicOr(Then(<<identifier, optVarArgTypeSpec>>),
             Then(<<identifier, optTypeSpec>>))
bindingsBody ==
  OneVariadic(Then(<<bindingArg,
                    Star(Quiet(Then(<<Symbol(","), bindingArg>>)))>>))
localBinding ==
  Ended(Then(<<bindingKind, optPatternVarsWithCond, bindingsBody,
              Opt(Quiet(Symbol(","))), OpSymbol("="), expressionList>>))

-----------------------------------------------------------------------------
(* Simple statements.                                                      *)

labelDef == Then(<<identifier, Symbol(":")>>)
updateOperator == Told({"uopstring"})

assignment == Ended(Then(<<expressionList, OpSymbol("="), expressionList>>))
initAssignment ==
  Ended(Then(<<expressionList, OpSymbol("<--"), expressionList>>))
updateAssignment ==
  Ended(Then(<<Rule("expression"), updateOperator, Rule("expression")>>))
prefixUpdate == Ended(Then(<<updateOperator, Rule("expression")>>))
exprStatement == Ended(Rule("expression"))

gotoStatement == Ended(Guarded("goto", identifier))
returnStatement == Ended(Guarded("return", returnExprList))
breakStatement == Ended(Keyword("break"))
continueStatement == Ended(Keyword("continue"))
evalStatement == Ended(Guarded("eval", expressionList))
throwStatement ==
  Ended(Guarded("throw",
    Choice(Look(Symbol(";")), Empty,
           Then(<<Opt(Rule("expression")),
                 Choice(Keyword("in"), Opt(Rule("expression")), Empty)>>))))

staticAssert ==
  Ended(Guarded("staticassert",
    Parens(Then(<<Rule("expression"),
                 Star(Then(<<Symbol(","), Rule("expression")>>)),
                 Not(Symbol(","))>>))))

-----------------------------------------------------------------------------
(* Compound statements.                                                    *)

(* The condition of if, while and switch may follow statements: the first  *)
(* expression that no semicolon follows is the condition.                  *)
statementExprStatement ==
  Alt(<<localBinding, assignment, initAssignment, updateAssignment>>)
statementExpression ==
  Choice(statementExprStatement, Rule("statementExpression"),
         Then(<<Rule("expression"),
               Choice(Symbol(";"), Rule("statementExpression"), Empty)>>))

optElse == Choice(Keyword("else"), Rule("statement"), Empty)
ifStatement ==
  Then(<<Keyword("if"), Parens(Rule("statementExpression")), Rule("statement"),
        optElse>>)

caseBlock ==
  Then(<<Keyword("case"), Parens(expressionList), Rule("statement")>>)
caseBlockList == Plus(caseBlock)
switchStatement ==
  Then(<<Keyword("switch"), Parens(Rule("statementExpression")), caseBlockList,
        optElse>>)

whileStatement ==
  Then(<<Keyword("while"), Parens(Rule("statementExpression")),
        Rule("statement")>>)
forStatement ==
  Then(<<Keyword("for"),
        Parens(Then(<<identifierList, Keyword("in"), Rule("expression")>>)),
        Rule("statement")>>)
staticFor ==
  Then(<<ellipsis, Keyword("for"),
        Parens(Then(<<identifier, Keyword("in"), expressionList>>)),
        Rule("statement")>>)

catchBlock ==
  Then(<<Keyword("catch"),
        Parens(Then(<<identifier, optExprTypeSpec,
                     Choice(Keyword("in"), identifier, Empty)>>)),
        Block>>)
catchBlockList == Plus(catchBlock)
tryStatement == Guarded("try", Then(<<Block, catchBlockList>>))
finallyStatement == Guarded("finally", Rule("statement"))
onerrorStatement == Guarded("onerror", Rule("statement"))

statement ==
  Alt(<<Block, assignment, initAssignment, updateAssignment, prefixUpdate,
        ifStatement, switchStatement, returnStatement, evalStatement,
        exprStatement, whileStatement, breakStatement, continueStatement,
        forStatement, staticFor, tryStatement, throwStatement,
        finallyStatement, onerrorStatement, staticAssert, gotoStatement>>)

blockItem == Alt(<<labelDef, localBinding, statement>>)
=============================================================================
