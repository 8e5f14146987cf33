SPECIFICATION Spec
CONSTANTS
  Programs <- MCPrograms
  Grammar <- Ceramic
  MaxParseErrors = 20
INVARIANTS
  TypeOK
  EachChunkOnItsOwn
PROPERTY ReadsOn
