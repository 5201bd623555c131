SPECIFICATION RedisSpec
CONSTANTS
  Request = Request
  Response = Response
  FD = FD
  NoThread = NoThread
  Threads <- Both
  Source <- PipeSource
  Sink <- PipeSink
  Program <- RedisProgram
  BufLen = 3
  MaxLen = 2
  QueryLen = 2
  MaxArgs = 1
  MaxCommands = 3
INVARIANTS QueriesWhole RepliesFollowCommands AnsweredWhenIdle FreedIsClosed
PROPERTIES ReturnsToPoll
