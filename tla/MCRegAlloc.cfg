SPECIFICATION Spec
CONSTANTS
  a = a
  v1 = v1
  v2 = v2
  v3 = v3
  v4 = v4
  i = i
  w1 = w1
  w2 = w2
  j = j
  x = x
  c = c
  s = s
  r1 = r1
  r2 = r2
  f1 = f1
  NULL = NULL
  Value = {a, v1, v2, v3, v4, i, w1, w2, j, x}
  KindOf <- KindsF
  Block = {"entry", "body", "inner"}
  Entry = "entry"
  Regs <- RegLists
  Programs <- AllPrograms
  Limits = {NULL, 0, 1}
  MaxTrips = 2
CHECK_DEADLOCK FALSE
INVARIANTS
  RegsDisjoint
  ReadsRight
