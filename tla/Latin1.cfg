\* Two-lane vectors, strings of up to 2 * 8 + 2 + 1 units.
SPECIFICATION Spec
CONSTANTS
  Lanes = 2
  MaxSize = 19
  Strings <- MCStrings
INVARIANTS TypeOK ScanIsExact OutputIsPrefix
CHECK_DEADLOCK FALSE
