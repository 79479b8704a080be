SPECIFICATION Spec
CONSTANTS
  preflight = preflight
  faultyMock = faultyMock
  first = first
  second = second
  faulty = faulty
  Requests <- MCRequests
  Kind <- MCKind
  Panicking <- MCPanicking
  Nobody = nobody
  Signals = 2
INVARIANTS
  ShutdownIsGraceful
CHECK_DEADLOCK FALSE
