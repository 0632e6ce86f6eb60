\* Every method of Writer with an allocation failure at every push, and what
\* the caller does after it.
SPECIFICATION FSpec
CONSTANTS
  MaxGroups = 1
  TopLimit = 4
  Int32Inputs <- OneInt
  Uint32Inputs = {}
  DoubleInputs <- OneDouble
  Utf8Inputs <- OneUtf8
  Utf16Inputs <- FaultyStrings
  BinaryInputs <- FaultyBinaries
  ViewInputs <- OneView
  LengthInputs = {0, 2}
  MaxBytes = 7
  MaxOpen = 3
  FramesReserved = 1
INVARIANTS OuterFramesWait FramesMatchRecord
PROPERTY BuildsDocument
