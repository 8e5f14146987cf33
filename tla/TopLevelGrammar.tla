-------------------------- MODULE TopLevelGrammar --------------------------
(***************************************************************************)
(* Imports, the module header and the declarations of a file               *)
(* (src/compiler/parser.cpp), one definition per function of the parser.   *)
(* A declaration that takes pattern variables is read from after them; the *)
(* variables themselves are read again from the start of the item, and     *)
(* reading them never fails.                                               *)
(***************************************************************************)
EXTENDS StatementGrammar

optVisibility == Opt(Alt(<<Keyword("public"), Keyword("private")>>))
patternVarsOfItem == AtItemStart(optPatternVarsWithCond)

-----------------------------------------------------------------------------
(* Static parameters and bodies.                                           *)

staticVarParam == Then(<<ellipsis, identifier>>)
trailingVarParam == Then(<<Symbol(","), staticVarParam>>)
paramsAndVarParam ==
  Then(<<identifierListNoTail, Opt(trailingVarParam), Opt(Symbol(","))>>)
staticParamsInner == Alt(<<paramsAndVarParam, Opt(staticVarParam)>>)
optStaticParams ==
  Opt(Then(<<Symbol("["), staticParamsInner, Symbol("]")>>))

exprBody == Ended(Then(<<OpSymbol("="), returnExprList>>))
body == Alt(<<exprBody, Block>>)
llvmCode == Kind({"llvm"})

-----------------------------------------------------------------------------
(* Types.                                                                  *)

recordField ==
  VariadicOr(Then(<<identifier, Symbol(":"), identifier>>),
             Then(<<identifier, exprTypeSpec>>))
recordFields == ListWithTail(recordField)
recordBodyFields == Ended(OneVariadic(Parens(Opt(recordFields))))
recordBodyComputed == Ended(Then(<<OpSymbol("="), optExpressionList>>))
recordBody == Alt(<<recordBodyFields, recordBodyComputed>>)
record ==
  Then(<<optVisibility, Keyword("record"), patternVarsOfItem, identifier,
        optStaticParams, recordBody>>)

instances == Parens(optExpressionList)
optInstances ==
  Choice(Symbol("("), Then(<<optExpressionList, Symbol(")")>>), Empty)
variant ==
  Ended(Then(<<optVisibility, Keyword("variant"), patternVarsOfItem, identifier,
              optStaticParams, optInstances>>))
instance ==
  Ended(Then(<<Keyword("instance"), patternVarsOfItem, pattern, instances>>))
newtype ==
  Ended(Then(<<optVisibility, Keyword("newtype"), identifier, OpSymbol("="),
              Rule("expression")>>))
enumMemberList == ListWithTail(identifier)
enumeration ==
  Ended(Then(<<optVisibility, Keyword("enum"), patternVarsOfItem, identifier,
              Parens(enumMemberList)>>))

-----------------------------------------------------------------------------
(* Return types.                                                           *)

namedReturn == Then(<<identifier, Symbol(":"), Rule("orExpr")>>)
optReturnTypeList == Opt(List(Rule("orExpr")))
optNamedReturnList == Opt(List(namedReturn))
optVarReturnType == Opt(Then(<<ellipsis, Rule("orExpr")>>))
optVarNamedReturn == Opt(Then(<<ellipsis, namedReturn>>))

typedReturns == Then(<<optReturnTypeList, optVarReturnType>>)
allReturnSpecs ==
  Choice(Symbol(":"), typedReturns,
         Choice(OpSymbol("-->"),
                Then(<<optNamedReturnList, optVarNamedReturn>>), Empty))

-----------------------------------------------------------------------------
(* Procedures.                                                             *)

optAttributeList ==
  Choice(Look(Then(<<Symbol("["), Symbol("[")>>)),
         Then(<<Symbol("["), Symbol("["), List(identifier),
               Symbol("]"), Symbol("]")>>),
         Empty)
optInline == Opt(Alt(<<Keyword("inline"), Keyword("forceinline"),
                       Keyword("noinline")>>))
optCallByName == Opt(Keyword("alias"))
optPrivateOverload == Choice(Keyword("private"), Keyword("overload"), Empty)

llvmProcedure ==
  Then(<<optPatternVarsWithCond, optVisibility, optInline, identifier,
        Rule("arguments"), Rule("allReturnSpecs"), llvmCode>>)
procedureWithInterface ==
  Ended(Then(<<optVisibility, Keyword("define"), patternVarsOfItem, identifier,
              Rule("arguments"), Rule("allReturnSpecs"), optPrivateOverload>>))
procedureWithBody ==
  Then(<<optAttributeList, optVisibility, optInline, optCallByName, identifier,
        patternVarsOfItem, Rule("arguments"), Rule("allReturnSpecs"), body>>)
procedure ==
  Ended(Then(<<optVisibility, Keyword("define"), identifier,
              optPrivateOverload>>))

isOverload == Alt(<<Keyword("overload"), Keyword("default")>>)
overloadHead ==
  Then(<<optAttributeList, optInline, optCallByName, isOverload,
        patternVarsOfItem, pattern, Rule("arguments")>>)

(* A body, a semicolon or, unless called by name, LLVM code.  When a type  *)
(* follows a colon, the overload looks at the kind of the statement that   *)
(* is its body, also when it has none.                                     *)
exprRetSpecs == Then(<<Symbol(":"), Opt(ellipsis), Rule("orExpr")>>)
overloadBody(byName, typed) ==
  LET bodyless == IF byName THEN Symbol(";") ELSE Alt(<<Symbol(";"), llvmCode>>)
  IN  Alt(<<body, IF typed THEN Then(<<bodyless, NullBody>>) ELSE bodyless>>)
overloadTail(byName) ==
  Choice(Look(exprRetSpecs),
         Then(<<Rule("allReturnSpecs"), overloadBody(byName, TRUE)>>),
         Then(<<Rule("allReturnSpecs"), overloadBody(byName, FALSE)>>))
overload ==
  Choice(Look(Then(<<optAttributeList, optInline, Keyword("alias")>>)),
         Then(<<overloadHead, overloadTail(TRUE)>>),
         Then(<<overloadHead, overloadTail(FALSE)>>))

-----------------------------------------------------------------------------
(* Globals and foreign declarations.                                       *)

globalOf(key) ==
  Ended(Then(<<optVisibility, Keyword(key), patternVarsOfItem, identifier,
              optStaticParams, OpSymbol("="), Rule("expression")>>))
globalVariable == globalOf("var")
globalAlias == globalOf("alias")

optExternalAttributes == Opt(Parens(expressionList))
externalArg == Then(<<identifier, exprTypeSpec>>)
externalArgs == List(externalArg)
externalArgsBody ==
  Alt(<<Then(<<externalArgs, Opt(Then(<<Symbol(","), ellipsis>>))>>),
        Opt(ellipsis)>>)
externalBody == Alt(<<exprBody, Block, Symbol(";")>>)
optExternalReturn == Choice(Symbol(":"), Opt(Rule("expression")), Empty)
external ==
  Then(<<optVisibility, Keyword("external"), optExternalAttributes, identifier,
        Parens(externalArgsBody), optExternalReturn, externalBody>>)
externalVariable ==
  Ended(Then(<<optVisibility, Keyword("external"), optExternalAttributes,
              identifier, exprTypeSpec>>))

evalTopLevel == Ended(Guarded("eval", expressionList))
unknownAnnotation == Then(<<Kind({"badproperty"}), Fatal>>)
documentationAnnotation ==
  Alt(<<unknownAnnotation, Then(<<Kind({"docproperty"}), Kind({"doctext"})>>)>>)
documentation ==
  Alt(<<Then(<<Star(Kind({"doctext"})), documentationAnnotation,
              Star(Kind({"doctext"})), Opt(unknownAnnotation)>>),
        Plus(Kind({"doctext"}))>>)

-----------------------------------------------------------------------------
(* Imports and the header.                                                 *)

optImportAlias == Opt(Then(<<Keyword("as"), identifier>>))
importedMember == Then(<<optVisibility, identifier, optImportAlias>>)
importedMemberList == ListWithTail(importedMember)
import2 ==
  Then(<<optVisibility, Complain(dottedName),
        Choice(Then(<<Symbol("."), OpSymbol("*")>>), Empty,
               Choice(Then(<<Symbol("."), Symbol("(")>>),
                      Then(<<Complain(importedMemberList), Symbol(")")>>),
                      optImportAlias))>>)
importList == List(import2)
importStart == Then(<<optVisibility, Keyword("import")>>)
import == Ended(Then(<<importStart, importList>>))

optModuleDeclaration ==
  Choice(Keyword("in"),
         Ended(Then(<<dottedName,
                     Choice(Symbol("("),
                            Then(<<optExpressionList, Symbol(")")>>),
                            Empty)>>)),
         Empty)
optTopLevelLLVM == Opt(llvmCode)
=============================================================================
