\* Documented promise of take(), with a null data pointer.
SPECIFICATION RSpec
CONSTANTS
  MaxGroups = 1
  TopLimit = 4
  Int32Inputs <- Ints
  Uint32Inputs <- UInts
  DoubleInputs <- OneDouble
  Utf8Inputs <- OneUtf8
  Utf16Inputs <- FaultyStrings
  BinaryInputs <- NullBinary
  ViewInputs <- TwoViews
  LengthInputs = {0, 2}
  MaxBytes = 8
  FramesReserved = 1
  MaxOpen = 3
PROPERTY TakenHoldsRoot
