\* Any cutting of up to three packets into reads.
SPECIFICATION FairSpec
CONSTANTS
  HeaderSize = 2
  Sizes = {1, 2, 3}
  MaxPackets = 3
  ResetMidBody = FALSE
INVARIANTS TypeOK DigestMatches DecodedWhenComplete BufferHoldsPrefix
PROPERTY ImplementsStream
