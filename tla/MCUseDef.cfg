SPECIFICATION Spec
CONSTANTS
  o1 = o1
  o2 = o2
  o3 = o3
  r1 = r1
  r2 = r2
  r3 = r3
  b1 = b1
  b2 = b2
  Op = {o1, o2, o3}
  Block = {b1, b2}
  Arg = {a1, a2}
  Result = {r1, r2, r3}
  ResultsOf <- UserResults
  Holder <- Nesting
  Host <- Hosts
  NULL = NULL
  MaxOperands <- UserArity
  Scoped = TRUE
  Retry = FALSE
SYMMETRY Symmetry
CHECK_DEADLOCK FALSE
INVARIANTS
  TypeOK
  UseDefInv
  NoDangling
  ArgIndexInv
