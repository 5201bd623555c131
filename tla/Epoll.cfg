SPECIFICATION EpollSpec
CONSTANTS
  Main = m  Procs = {m, a}
  l = l  FDs = {l, c, d}  Accepted = {c, d}
  MainSockets <- ListenerOnly
  NoFD = NoFD  NoProc = NoProc
  Requests = {}  Lingers = FALSE
  Methods = {"EDGE", "ONESHOT"}  EvMax = 1
INVARIANTS FreedNeverDispatched EdgeKept EdgeNeverRefused
PROPERTIES ReadyIsServed
CHECK_DEADLOCK FALSE
