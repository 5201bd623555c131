SPECIFICATION Spec
CONSTANTS
  req = req
  resp = resp
  FD = FD
  NoThread = NoThread
  Threads <- Pipeline
  Source <- PipeSource
  Sink <- PipeSink
  Program <- IoProgram
  BufLen = 2
  MaxLen = 2
CHECK_DEADLOCK FALSE
INVARIANTS DataWakesPeer FdWaiterPolled ForwardNeverHoards
