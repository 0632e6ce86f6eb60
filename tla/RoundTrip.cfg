\* Every message of up to MaxBytes bytes, whole and truncated, and its reading.
SPECIFICATION Spec
CONSTANTS
  MaxGroups = 2
  TopLimit = 2
  Int32Inputs <- Ints
  Uint32Inputs <- UInts
  DoubleInputs <- OneDouble
  Utf8Inputs <- OneUtf8
  Utf16Inputs <- Strings
  BinaryInputs <- Binaries
  ViewInputs <- OneView
  LengthInputs = {0, 1, 2}
  MaxBytes = 10
  MaxOpen = 3
  MaxDepth = 3
INVARIANTS WholeMessageDecodes TruncationIsNoticed BrokenMessageIsRejected
