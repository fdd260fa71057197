SPECIFICATION Spec
CONSTANTS
  Items = {a, b, c}
  NoItem = none
  Capacity = 3
INVARIANTS
  WindowExact
PROPERTIES
  ImplementsBoundedLog
