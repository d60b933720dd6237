SPECIFICATION Spec
CONSTANTS
  a = a
  b = b
  Threads <- MCThreads
  Use <- OwnClocks
  Scales = {250, 40}
  Mantissa = 8
  Grid <- SmallGrid
  MaxNow = 4
CHECK_DEADLOCK FALSE
INVARIANT TypeOK
PROPERTIES IsVirtualClock OrderedCalls
