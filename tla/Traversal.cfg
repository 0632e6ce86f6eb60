\* encodeSync() and encodeAsync() over heaps that accessors may change.
SPECIFICATION TraversalSpec
CONSTANTS
  MaxGroups = 1
  TopLimit = 8
  Heaps <- MCHeaps
  Roots <- MCRoots
  IntegerOf <- Integral
  MinusZero <- NegativeZero
  StoredValues <- Stored
  StoredNames <- Names
  MaxDepth = 2
  MaxChanges = 1
  Int32Inputs = {}
  Uint32Inputs = {}
  DoubleInputs = {}
  Utf8Inputs = {}
  Utf16Inputs = {}
  BinaryInputs = {}
  ViewInputs = {}
  LengthInputs = {}
  MaxBytes = 0
  MaxOpen = 0
INVARIANTS EncodedIsInput RefusedForCause CopyIsWritten NativeForCause
           WalkIsBounded KeysFollowSnapshot
CHECK_DEADLOCK FALSE
