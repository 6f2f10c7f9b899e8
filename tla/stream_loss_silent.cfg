\* Three blocks of this code's encode() on one stream, one of which the
\* session loses or delivers out of order.
CONSTANTS
  Peers = {"proxygen"}
  Version = v3
  OtherDicts = {v2}
  NoDict = NoDict
  DictBytes <- MC_DictBytes
  SizeModulus = 256
  CounterModulus = 65536
  CommonHeaderCodes <- MC_CommonHeaderCodes
  MaxExpanded = 1000
  SortThreshold = 16
  MaxAlloc = 1000
  RawImages = {}
  MaxUncompressed = 1000
  Inputs <- MC_LossInputs
  ForeignEntries = {}
  MaxFrames = 3
  MallocSlack = {0}
  NeighbourCalls = {}
  MaxFaults = 1

SPECIFICATION LossySpec
INVARIANT NoSilentCorruption
CHECK_DEADLOCK FALSE
