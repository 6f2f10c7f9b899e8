\* decode() of a block whose entry has an empty value.
CONSTANTS
  Peers = {"foreign"}
  Version = v3
  OtherDicts = {v2}
  NoDict = NoDict
  DictBytes <- MC_DictBytes
  SizeModulus = 256
  CounterModulus = 65536
  CommonHeaderCodes <- MC_CommonHeaderCodes
  MaxExpanded = 1000
  SortThreshold = 16
  MaxAlloc = 1000
  RawImages = {}
  MaxUncompressed = 1000
  Inputs <- MC_Inputs
  ForeignEntries <- MC_ForeignEmptyValueEntries
  MaxFrames = 2
  MallocSlack = {0}
  NeighbourCalls = {}

SPECIFICATION Spec
INVARIANT ForeignBlocksDecodeAsSpecified
CHECK_DEADLOCK FALSE
