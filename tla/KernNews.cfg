SPECIFICATION FairSpec
CONSTANTS
  Main = m  Procs = {m, a}
  l = l  o = o  FDs = {l, c, d}  Accepted = {c, d}
  MainSockets <- ListenerOnly
  NoFD = NoFD  NoProc = NoProc
  Requests = {"TERM", "USR1", "SHUTDOWN"}  Lingers = TRUE
INVARIANTS ListsAreSound
PROPERTIES NewsIsDispatched
CHECK_DEADLOCK FALSE
