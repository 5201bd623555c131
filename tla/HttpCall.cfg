SPECIFICATION HttpSpec
CONSTANTS
  Request = Request
  Response = Response
  FD = FD
  NoThread = NoThread
  Threads <- Both
  Source <- PipeSource
  Sink <- PipeSink
  Program <- HttpProgram
  BufLen = 2
  MaxLen = 2
  MaxBody = 2
  MaxRequests = 2
INVARIANTS EndsInOrder
