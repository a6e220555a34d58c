CONSTANTS
  Frame = {1, 2}
  FrameCount = 3
  FrameCountP2 = 4
  IndexRange = 16
  MaxCall = 4
  MaxEnqueues = 9
  MaxBlocks = 6
  Constructions <- SmallBlocks
  Keys = {"a", "b", "c"}
  Hash <- TwoBuckets
  LOST = LOST
  Hosts = {h1, h2}
  Ssrcs = {1, 2}
  OwnSsrcs = {2, 3}
  sendermultiplier = 2
  membermultiplier = 2
  byemultiplier = 1
  SELF = SELF
  UNSET = UNSET
  Own = "o"
  CnameLengths = {4, 5, 6, 7}
  ReasonLengths = {0, 3}
  AppLengths = {8}
  PacketSizes = {72, 100, 124, 128}
  MaxCount = 2
  FULL = FULL
  tmin = 6
  bandwidth = 3
  Sizes = {3, 6}
  Factors = {41, 82, 123}
  MaxMembers = 4
  MaxByes = 2
  MaxLeaves = 2
  Sessions = {"a", "b", "c"}
  FREE = FREE
  PortNumbers = {1, 2}
  Groups = {1}
  MaxPending = 1
  Interfaces = {"a"}
  Named = {"b", "c"}
  Loopback = "lo"
  NULL = NULL
  MaxPackets = 2
  MaxAborts = 2
  ItemLengths = {0, 20}
  Intervals = {1, 2}
  Cycle = 2
  Fixed = {"CNAME"}
  Changing = {"NOTE"}
  Values = {{}, {1}, {2}}
  PrivPrefixes = {"p", "q"}
  MaxPrivItems = 1
  Csrcs = {"a", "b", "c"}
  MaxCsrcs = 2
  PayloadTypes = {0, 73, 200}
  PayloadLengths = {0, 3}
  ExtensionLengths = {0, 2}
  MaxPackSizes = {24, 40}
  SeqNrs = 2
  NONE = NONE
SPECIFICATION StructuresSpec
CHECK_DEADLOCK FALSE
INVARIANT SourcesConsistent
INVARIANT BuiltIsRead
INVARIANT StaysMember
INVARIANT NothingLeft
INVARIANT ListsWhatWasAsked
PROPERTY ImplementsBoundedFifo
PROPERTY ImplementsMarkQueue
PROPERTY ImplementsKeyList
PROPERTY NotTooSoon
