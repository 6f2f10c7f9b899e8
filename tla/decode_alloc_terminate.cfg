\* A hostile block whose value length runs past the end of the image and
\* beyond what the process can allocate.
CONSTANTS
  Peers = {"foreign"}
  Version = v3
  OtherDicts = {v2}
  NoDict = NoDict
  DictBytes <- MC_DictBytes
  SizeModulus = 256
  CounterModulus = 65536
  CommonHeaderCodes <- MC_CommonHeaderCodes
  MaxExpanded = 1000
  SortThreshold = 16
  MaxAlloc = 4
  RawImages <- MC_RawImages
  MaxUncompressed = 1000
  Inputs <- MC_Inputs
  ForeignEntries = {}
  MaxFrames = 2
  MallocSlack = {0}
  NeighbourCalls = {}

SPECIFICATION Spec
INVARIANT NoDecodeTerminates
CHECK_DEADLOCK FALSE
