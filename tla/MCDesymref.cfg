SPECIFICATION Spec
CONSTANTS
  Sym = {a, b}
  Undef = Undef
  MaxOps <- SixOrFive
  Liberties = {}
INVARIANTS
  MeaningKept
  Dominated
  AtMostOnce
PROPERTIES
  Terminates
