------------------------------ MODULE Language ------------------------------
(***************************************************************************)
(* The grammar of the language, as Recognizer and Parser take it: the      *)
(* rules that refer to each other by name, the tables in which the lexer   *)
(* and topLevelItem try one thing after the other, and the parts of a      *)
(* file.                                                                   *)
(***************************************************************************)
EXTENDS LexicalGrammar, TopLevelGrammar

Rules ==
  [expression |-> expression, orExpr |-> orExpr, notExpr |-> notExpr,
   prefixExpr |-> prefixExpr, operands |-> operands, arguments |-> arguments,
   statement |-> statement, blockItem |-> blockItem,
   statementExpression |-> statementExpression,
   allReturnSpecs |-> allReturnSpecs, llvmBraces |-> llvmBraces]

DeclarationsAfterVars ==
  <<As("overload", overload), As("procedure", procedureWithInterface),
    As("procedure", procedureWithBody), As("record", record),
    As("variant", variant), As("instance", instance),
    As("enum", enumeration), As("variable", globalVariable),
    As("alias", globalAlias)>>
DeclarationsFromStart ==
  <<As("procedure", procedure), As("documentation", documentation),
    As("procedure", llvmProcedure), As("external", external),
    As("external", externalVariable), As("newtype", newtype),
    As("eval", evalTopLevel), As("staticassert", staticAssert)>>

Ceramic ==
  [rules |-> Rules, keywords |-> Keywords,
   nextToken |-> nextToken, docSpace |-> docSpace,
   nextDocToken |-> nextDocToken,
   import |-> import, importStart |-> importStart,
   header |-> Then(<<optModuleDeclaration, optTopLevelLLVM>>),
   afterVars |-> DeclarationsAfterVars, fromStart |-> DeclarationsFromStart]
=============================================================================
