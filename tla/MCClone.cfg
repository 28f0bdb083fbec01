SPECIFICATION Spec
CONSTANTS
  MaxOps = 3
  MaxTweaks = 1
  Liberties = {}
INVARIANTS
  Separate
  ClonedAlike
  EquivalenceExact
