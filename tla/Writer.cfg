\* Every method of Writer on every kind of input, against the record of its
\* calls, with an eight-bit uint32.
SPECIFICATION RSpec
CONSTANTS
  MaxGroups = 2
  TopLimit = 2
  Int32Inputs <- Ints
  Uint32Inputs <- UInts
  DoubleInputs <- OneDouble
  Utf8Inputs <- OneUtf8
  Utf16Inputs <- StringCases
  BinaryInputs <- BinaryCases
  ViewInputs <- TwoViews
  LengthInputs = {0, 2}
  MaxBytes = 8
  MaxOpen = 3
  FramesReserved = 1
INVARIANTS HeaderOrDrained
PROPERTIES MisuseIsHarmless BalanceFollowsCalls TwoByteAligned
