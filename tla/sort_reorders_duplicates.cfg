\* encode() of three-header lists with a repeated name, with std::sort's
\* insertion-sort cutoff (16 in libstdc++) scaled to 2 so that these lists
\* take the introsort path, which does not keep equal elements in order.
CONSTANTS
  Peers = {"proxygen"}
  Version = v3
  OtherDicts = {v2}
  NoDict = NoDict
  DictBytes <- MC_DictBytes
  SizeModulus = 256
  CounterModulus = 65536
  CommonHeaderCodes <- MC_CommonHeaderCodes
  MaxExpanded = 1000
  SortThreshold = 2
  MaxAlloc = 1000
  RawImages = {}
  MaxUncompressed = 1000
  Inputs <- MC_Inputs
  ForeignEntries <- MC_ForeignEntries
  MaxFrames = 2
  MallocSlack = {0}
  NeighbourCalls = {}

SPECIFICATION Spec
INVARIANT DuplicateOrderPreserved
CHECK_DEADLOCK FALSE
