\* A wall clock that may be set back and another clock of its slot, with
\* the drift the hooks accumulate.
SPECIFICATION DriftSpec
CONSTANTS
  ClockIds = {"REALTIME", "CPUTIME"}
  Settable = {"REALTIME"}
  Inputs <- MCInputs
  Unit = 2
  TimeT = 3
  SmallMantissa = 4
  Mantissa = 4
  Grid <- MCGrid
  MaxTime = 5
  MaxShown = 3
  MaxEntries = 1
  MaxReads = 2
INVARIANTS DriftBound Transparent
PROPERTY BackOnlyIfSet
CHECK_DEADLOCK FALSE
