\* Clients that retry, are interrupted and are killed.
SPECIFICATION Spec
CONSTANTS
  a = a
  b = b
  Clients <- TwoClients
  Inputs <- FastAndSlow
  Backlog = 1
  MaxFds = 2
  MaxCalls = 3
  Interruptible = TRUE
  HostFails = TRUE
INVARIANTS TypeOK AckedOnce DiesOnlyOfReset LeakOnlyOnFailure
CHECK_DEADLOCK FALSE
