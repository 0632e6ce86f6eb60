\* encodeSync() and encodeAsync() of arrays with elements that are not
\* enumerable, and with a named property.
SPECIFICATION TraversalSpec
CONSTANTS
  MaxGroups = 1
  TopLimit = 8
  Heaps <- HiddenHeaps
  Roots <- MCRoots
  IntegerOf <- Integral
  MinusZero <- NegativeZero
  StoredValues <- Stored
  StoredNames <- Names
  MaxDepth = 2
  MaxChanges = 1
  Int32Inputs = {}
  Uint32Inputs = {}
  DoubleInputs = {}
  Utf8Inputs = {}
  Utf16Inputs = {}
  BinaryInputs = {}
  ViewInputs = {}
  LengthInputs = {}
  MaxBytes = 0
  MaxOpen = 0
INVARIANTS NamedPropertiesThrow
CHECK_DEADLOCK FALSE
