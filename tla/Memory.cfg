SPECIFICATION Spec
CONSTANTS
  SizeMax = 255
  MulNoOverflow = 16
  PageSize = 4
  HugePage = 32
  Word = 1
  ProcMax = 4
  Count = 1
  MapMax = 3
  PageCounts <- SomePageCounts
  ListenerPages = 6
  LocalLen = 3
  ThreadLen = 2
  SocketLen = 3
  ServiceLen = 3
  ListenerLen = 6
  EchoLen = 6
  BufLen = 7
CHECK_DEADLOCK FALSE
INVARIANTS OneOwner NothingLost RecordsTrue Confined Reachable StackSound
