SPECIFICATION Spec
CONSTANTS
  m = m
  x = x
  y = y
  z = z
  t = t
  c = c
  d = d
  NULL = NULL
  Module = m
  Op = {m, x, y, z, n}
  Block = {t, c, d}
  InitOps <- Ops1
  InitRegions <- Regions1
  Modes <- AllModes
  MaxActs = 3
  MaxCalls = 3
  Liberties <- Manners
INVARIANTS
  NoStale
  FixpointReached
  OriginalsMatched
  MatchedOnce
PROPERTIES
  Terminates
