SPECIFICATION Spec
CONSTANTS
  Texts = {"t"}
  Modules = {m, n}
  Passes = {p, q}
  Raised = Raised
  None = None
  MaxInputs = 4
INVARIANTS
  OutputCurrent
  ItemsCurrent
PROPERTY
  EventuallyCurrent
CHECK_DEADLOCK FALSE
