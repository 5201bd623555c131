SPECIFICATION FairSpec
CONSTANTS
  req = req
  resp = resp
  FD = FD
  NoThread = NoThread
  Threads <- Pipeline
  Source <- PipeSource
  Sink <- PipeSink
  Program <- FlowProgram
  BufLen = 2
  MaxLen = 3
CHECK_DEADLOCK FALSE
PROPERTIES WriterGoesOn
