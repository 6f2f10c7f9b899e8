\* Blocks another SPDY encoder sent (valid, malformed, NUL-joined, garbage,
\* empty, primed with another version's dictionary), decoded with caps that
\* some of them reach exactly and some exceed.
CONSTANTS
  Peers = {"foreign"}
  Version = v3
  OtherDicts = {v2}
  NoDict = NoDict
  DictBytes <- MC_DictBytes
  SizeModulus = 256
  CounterModulus = 65536
  CommonHeaderCodes <- MC_CommonHeaderCodes
  MaxExpanded = 2
  SortThreshold = 16
  MaxAlloc = 1000
  RawImages <- MC_RawImages
  MaxUncompressed = 11
  Inputs <- MC_Inputs
  ForeignEntries <- MC_ForeignEntries
  MaxFrames = 2
  MallocSlack = {0}
  NeighbourCalls <- MC_NeighbourCalls

SPECIFICATION Spec
INVARIANT TypeOK
INVARIANT ForeignBlocksDecodeAsSpecified
INVARIANT DecodedCountMatchesDeclared
 
CHECK_DEADLOCK FALSE
