\* All copies of up to nine bytes.
SPECIFICATION Spec
CONSTANTS
  Byte <- MCByte
  Ones = 255
  MaxSize = 9
  Initial <- MCInitial
  Data <- MCData
INVARIANTS TypeOK OutsideKept Copied
CHECK_DEADLOCK FALSE
