CONSTANTS
  Bytes = 224
  Request = {8, 24, 40}
  CountDown = 2
  User = {p1, p2}
  StrongVar = {x1, x2}
  WeakVar = {y1, y2}
  UniqueVar = {z1, z2}
  Obj = {o1, o2}
  Null = Null
  NoItem = NoItem
  Caller = {x1, x2, x3}
  maxSemaphores = 2
  Key = {1, 2, 3}
  SemOp <- MCSemOp
  MaxValue = 2
  maxFds = 5
  Inode = {1, 2}
  Layout <- MCLayout
  FsBlock = 4
  DevBlock = 2
  DiskBlocks = 8
  NDirect = 2
  RefSize = 2
  ReadLen = {1, 3, 6}
  SeekTo = {0, 5, 13, 14}
  Core = {y1, y2}
  Item = {x1, x2, x3}
  Queue = {o1, o2}
  Image <- MCImage
  Options <- MCOptions
  Part <- MCPart
  MaxFaults = 2
  Cut = {0, 5}
  UNINSTALL_DATA_MAX = 256
  SectorCells = 10
  BlockGuess <- MCBlockGuess
  LbGuess <- MCLbGuess
  NMbr = 2
  NGpt = 3
  Primary = 3
  Secondary = 2
  MinStart = 3
  MinSize = 20
  MaxLba = 50
  Boot <- MCBoot
  Stage2 <- MCStage2
  PItem <- MCPItem
  MaxItems = 2
  MaxLen = 13
  IntWord = 256
  LongWord = 131072
  ConvertSize = 6
  Space = {y1, y2}
  Anonymous = 0
  FRAME_SIZE = 2
  MapLen = {1, 6}
  What <- MCWhat
  PrivateEnd = 5
  SharedStart = 5
  SharedEnd = 7
  UserRange <- MCRange
  MaxCalls = 5
  NCores = 3
  Bsp = 1
  Listing <- MCListing
  LimineGdt <- MCGdt
  ResetVector = 255
  Elapsed = {62000}
  Modules <- MCModules
  RamDiskPath = "ramdisk"
  Lookups = {"d", "f", "s", "up"}
  SymlinkMax = 60
  Writer = {y1, y2}
  NoWriter = NoWriter
  KText <- MCText
  UserText <- MCUserText
  ConsoleByte = 256
  MaxTexts = 2
SPECIFICATION PartsSpec
SYMMETRY Symmetry
CHECK_DEADLOCK FALSE
INVARIANTS HeapWellFormed FailsOnlyWhenFull NothingDangles CountsExact
  KeysAgree UnitsExact ReadsContiguous WellFormed
  Restored InstalledExactly DirectivesIndependent NumbersReadBack
  MappingsExact RangeAnswerTrue CoreReady LookupRight TextsWhole
PROPERTIES ImplementsAllocator ImplementsFifo
