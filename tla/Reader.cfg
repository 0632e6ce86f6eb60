\* decodeSync() and decodeAsync() of messages whole, damaged and at the limits
\* of the codecs, with at most one later write to the buffer.
SPECIFICATION DecodeSpec
CONSTANTS
  MaxGroups = 2
  TopLimit = 16
  MaxDepth = 2
  Inputs = {}
  Sources <- MCSources
  MaxChanges = 1
  ProtoName <- Proto
INVARIANTS TypeOK OnlyInputIsRead FramesSound
           InputIsSnapshot DecodableIsBuildable BuiltIsDecoded
           VarintIsExact NumbersAreWritten Utf8IsExact
PROPERTY CallEnds
CHECK_DEADLOCK FALSE
