CONSTANTS
  Numbers <- PlainNumbers
  Strings <- PlainStrings
  MaxFields = 3
SPECIFICATION Spec
INVARIANT TypeOK
INVARIANT ReadsWhatWasWritten
CHECK_DEADLOCK FALSE
