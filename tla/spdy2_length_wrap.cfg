\* encode() with the 2-byte size fields of SPDY/2, scaled down: SizeModulus 4
\* stands for 2^16, so a merged value of 4 or more elements wraps its length.
CONSTANTS
  Peers = {"proxygen"}
  Version = v3
  OtherDicts = {v2}
  NoDict = NoDict
  DictBytes <- MC_DictBytes
  SizeModulus = 4
  CounterModulus = 65536
  CommonHeaderCodes <- MC_CommonHeaderCodes
  MaxExpanded = 1000
  SortThreshold = 16
  MaxAlloc = 1000
  RawImages = {}
  MaxUncompressed = 1000
  Inputs <- MC_Inputs
  ForeignEntries <- MC_ForeignEntries
  MaxFrames = 2
  MallocSlack = {0}
  NeighbourCalls = {}

SPECIFICATION Spec
INVARIANT EncodedBlocksRoundTrip
CHECK_DEADLOCK FALSE
