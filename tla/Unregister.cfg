SPECIFICATION Spec
CONSTANTS
  WordBits = 5
  Actors = {a1, a2}
  Nobody = nobody
  Priorities = {5, 10}
  Registrations = {}
  Requesters = {0}
  NewOwners = {}
  Contexts = {}
  Causes = {}
  MaxOps = 4
PROPERTIES
  UnregisterRemovesHandler
CHECK_DEADLOCK FALSE
