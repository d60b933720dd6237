\* A library without hook_entry.
SPECIFICATION Spec
CONSTANTS
  i1 = i1
  i2 = i2
  i3 = i3
  Injectors <- One
  Libs = {"noentry"}
  Bases = {FALSE}
INVARIANT SuccessMeansHooked
CHECK_DEADLOCK FALSE
