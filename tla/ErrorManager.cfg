SPECIFICATION FairSpec
CONSTANTS
  Callers = {c1, c2}
  Nobody = nobody
  Priorities = {1, 2}
  Entries <- MCEntries
  Reports <- MCReports
  Capacity = 2
  MaxHandlers = 2
  MaxErrors = 3
INVARIANTS
  HandlersCalledInOrder
  PanicModeGate
  LoggedOnce
PROPERTIES
  ErrorsGetResult
