SPECIFICATION Spec
CONSTANTS
  StackTop = 3
  MaxPc = 2
  Interrupt = 16
  Exception = 2
  ReturnValue = 7
  Clobbered = 9
INVARIANTS
  ContextIsOwn
PROPERTIES
  ReturnExact
