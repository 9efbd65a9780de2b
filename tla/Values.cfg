SPECIFICATION Spec
CONSTANTS
  Values <- AllColumns
  Garbage <- SomeGarbage
INVARIANTS
  TypeOK
  IntegersLoggedWithTheirSign
  TemporalsLogged
  DecimalsDecoded
  StringsRead
