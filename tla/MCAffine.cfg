SPECIFICATION Spec
CONSTANTS
  Modes = {"build", "text"}
  Consts <- MCConsts
  Operators = {"+", "-", "*", "floordiv", "ceildiv", "mod"}
  MaxSteps = 2
  MaxText = 7
INVARIANTS
  MeaningKept
  TextRight
  PrecedenceRight
CHECK_DEADLOCK FALSE
