\* A hostile block declaring 2^31 entries (scaled: SizeModulus and
\* CounterModulus both stand for 2^32) in front of a single entry.
CONSTANTS
  Peers = {"foreign"}
  Version = v3
  OtherDicts = {v2}
  NoDict = NoDict
  DictBytes <- MC_DictBytes
  SizeModulus = 16
  CounterModulus = 16
  CommonHeaderCodes <- MC_CommonHeaderCodes
  MaxExpanded = 1000
  SortThreshold = 16
  MaxAlloc = 1000
  RawImages <- MC_WrapImages
  MaxUncompressed = 1000
  Inputs <- MC_Inputs
  ForeignEntries = {}
  MaxFrames = 2
  MallocSlack = {0}
  NeighbourCalls = {}

SPECIFICATION Spec
INVARIANT DecodedCountMatchesDeclared
CHECK_DEADLOCK FALSE
