SPECIFICATION FairSpec
CONSTANTS
  WordBits = 5
  Actors = {a1, a2}
  Nobody = nobody
  Priorities = {5, 10}
  Registrations <- Clients
  Requesters = {0, 2}
  NewOwners = {3}
  Contexts = {7}
  Causes = {21, 13}
  MaxOps = 5
INVARIANTS
  SoleHandlersAgree
  DispatchCoversType
PROPERTIES
  RemovalAuthorised
  ContextLeavesNothing
  OperationsComplete
CHECK_DEADLOCK FALSE
