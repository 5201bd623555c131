SPECIFICATION Spec
CONSTANTS
  req = req
  resp = resp
  FD = FD
  NoThread = NoThread
  Threads <- Pipeline
  Source <- PipeSource
  Sink <- PipeSink
  Program <- HupProgram
  BufLen = 2
  MaxLen = 2
CHECK_DEADLOCK FALSE
INVARIANTS TypeOK QueuesAgree EndedIsGone HupBoundary
