SPECIFICATION Spec
CONSTANTS
  BlockSize = 8
  WordBytes = 2
  Radix = 16
  Lengths = {0, 1, 3, 8, 13, 32, 37}
  MaxBytes = 72
INVARIANT TypeOK
PROPERTY IsHash
CHECK_DEADLOCK FALSE
