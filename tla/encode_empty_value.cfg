\* encode() given a repeated header with an empty value; the peer decodes the block.
CONSTANTS
  Peers = {"proxygen"}
  Version = v3
  OtherDicts = {v2}
  NoDict = NoDict
  DictBytes <- MC_DictBytes
  SizeModulus = 256
  CounterModulus = 65536
  CommonHeaderCodes <- MC_CommonHeaderCodes
  MaxExpanded = 1000
  SortThreshold = 16
  MaxAlloc = 1000
  RawImages = {}
  MaxUncompressed = 1000
  Inputs <- MC_EmptyValueInputs
  ForeignEntries <- MC_ForeignEntries
  MaxFrames = 2
  MallocSlack = {0}
  NeighbourCalls = {}

SPECIFICATION Spec
INVARIANT EncodedBlocksRoundTrip
CHECK_DEADLOCK FALSE
