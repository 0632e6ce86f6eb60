\* Three encoding calls, small and large messages, memory that is reused.
SPECIFICATION BufferSpec
CONSTANTS
  Calls = {c1, c2, c3}
  Blocks = {b1, b2, b3}
  Messages = {s1, s2, l1, l2}
  NoBlock = NoBlock
  Unused = Unused
  s1 = s1
  s2 = s2
  l1 = l1
  l2 = l2
  size <- Sizes
  kMinExternalBufferSize = 4096
INVARIANTS BuffersKeepMessage EveryBlockHasOneOwner
PROPERTY MemoryIsReturned
CHECK_DEADLOCK FALSE
