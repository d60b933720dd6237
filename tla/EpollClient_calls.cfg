\* Two sessions, that follow each other or overlap, beside a file.
SPECIFICATION Spec
CONSTANTS
  MaxFd = 5
  MaxStarts = 2
  MaxFiles = 1
INVARIANTS TypeOK HarmNeedsMisuse FirstEndsWithServer
PROPERTY CloseNoticed
CHECK_DEADLOCK FALSE
