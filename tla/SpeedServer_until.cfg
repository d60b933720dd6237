\* A client that is killed.
SPECIFICATION Spec
CONSTANTS
  a = a
  b = b
  Clients <- TwoClients
  Inputs <- FastAndSlow
  Backlog = 1
  MaxFds = 1
  MaxCalls = 1
  Interruptible = FALSE
  HostFails = FALSE
PROPERTY RunsUntilCancelled
CHECK_DEADLOCK FALSE
