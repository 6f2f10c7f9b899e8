\* Blocks this code's encode() produced, decoded by a peer GzipHeaderCodec
\* over one persistent stream; caps large enough never to be reached.
CONSTANTS
  Peers = {"proxygen"}
  Version = v3
  OtherDicts = {v2}
  NoDict = NoDict
  DictBytes <- MC_DictBytes
  SizeModulus = 256
  CounterModulus = 65536
  CommonHeaderCodes <- MC_CommonHeaderCodes
  MaxExpanded = 1000
  SortThreshold = 16
  MaxAlloc = 1000
  RawImages = {}
  MaxUncompressed = 1000
  Inputs <- MC_Inputs
  ForeignEntries <- MC_ForeignEntries
  MaxFrames = 2
  MallocSlack = {0}
  NeighbourCalls = {}

SPECIFICATION Spec
INVARIANT EncodedBlocksRoundTrip
INVARIANT EncodeStaysInReservation
CHECK_DEADLOCK FALSE
