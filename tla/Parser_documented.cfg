SPECIFICATION Spec
CONSTANTS
  Programs <- MCDocumented
  Grammar <- Ceramic
  MaxParseErrors = 20
INVARIANT DocumentedAsWritten
