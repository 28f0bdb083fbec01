SPECIFICATION Spec
CONSTANTS
  NULL = NULL
  Definitions <- AllDefinitions
  GivenForms <- Forms
  Type = {"s", "t"}
  Single = "s"
  Var = {"T"}
  MaxSize = 2
  MaxEdits = 1
  Liberties = {}
CHECK_DEADLOCK FALSE
INVARIANT BuiltRight
INVARIANT VerifiedReads
INVARIANT VerifyExact
