SPECIFICATION Spec
CONSTANTS
  Op = {o1, o2, o3, o4}
  Block = {b1, b2}
  Region = {r1, r2}
  NULL = NULL
SYMMETRY Symmetry
CHECK_DEADLOCK FALSE
INVARIANTS
  TypeOK
  VisitsAll
  LinkInv
  OwnershipInv
  Acyclic
PROPERTIES
  ImplementsBlockSeqs
