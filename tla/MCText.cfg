SPECIFICATION Spec
CONSTANTS
  MaxOps = 3
  MaxPrints = 2
  MaxEdited = 2
  Hints <- OneHint
  Liberties = {}
INVARIANTS
  RoundTrip
  TextStable
