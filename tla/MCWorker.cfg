SPECIFICATION Spec
CONSTANTS
  Char <- MCChar
  ToLower <- MCToLower
  Nul = "NUL"
  MethodNames <- MCNames
  Version <- MCVersion
  FirstLines <- MCFirstLines
  Lengths <- MCLengths
  MaxHeaders = 3
  Sizes = {0, 1, 2, 3}
  Patterns <- Strings
  DcgiCodes = {200}
INVARIANTS
  TypeOK
  FreedOnce
  BodyAsDeclared
  OutcomeAsPromised
  NothingUninitialisedIsSent
  ClosedClean
  OneResponse
  IcaseIsEquality
  RouteMatchIsExactOrPrefix
  QueryIsItsParameters
CHECK_DEADLOCK FALSE
