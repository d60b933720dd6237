\* The monotonic clock beside a wall clock that is set back, past
\* the end of time_t.
SPECIFICATION Spec
CONSTANTS
  ClockIds = {"MONOTONIC", "REALTIME"}
  Settable = {"REALTIME"}
  Inputs <- MCInputs
  Unit = 2
  TimeT = 3
  SmallMantissa = 4
  Mantissa = 4
  Grid <- MCGrid
  MaxTime = 4
  MaxShown = 4
  MaxEntries = 2
INVARIANTS TypeOK DeliveredIsLast HookedOnce
PROPERTY MonotonicForward
CHECK_DEADLOCK FALSE
