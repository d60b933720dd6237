\* An injection, and calls before, during and after it.
SPECIFICATION Spec
CONSTANTS
  i1 = i1
  i2 = i2
  a = a
  b = b
  Injectors <- TwoInjectors
  Libs = {"good"}
  Bases = {FALSE}
  Clients <- TwoClients
  Inputs <- Slow
  Backlog = 1
  MaxFds = 1
  MaxCalls = 1
  Interruptible = FALSE
  HostFails = TRUE
INVARIANT ApplicationSurvives
PROPERTIES SuccessThenServer CallsAnswered
CHECK_DEADLOCK FALSE
