SPECIFICATION McSpec
CONSTANTS
  HeaderSize = 8
  StdSize = 32
  CfgSize = 56
  Places = {8, 16, 24, 32, 40, 48}
  Ids <- MCIds
  Length <- MCLength
  Known = {"null", "exp", "vndr", "odd", "broken"}
  Tabled = {"exp"}
  Devices <- NewDevices
  Functions <- MCFunctions
  Written = {{}, {2}, {0, 1, 2, 3, 4}}
  LastBar = 2
  Threads = {t1, t2}
  None = None
  BarLen <- MCBarLen
  Table <- MCTable
  RomLen = 16
  RomSize = 10
  Keys <- MCKeys
  MaxEventfds = 2
  Accesses <- MCAccesses
  Vectors = {1, 2, 3, 4}
  VpdAddrs = {0, 4}
  VpdData = {1, 2}
  Readrqs = {0, 1, 2}
  MaxReadrq = 1
  Overlap = FALSE
  MaxLeaked = 3
INVARIANT MarksKnownIds
