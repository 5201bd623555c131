SPECIFICATION Spec
CONSTANTS
  Main = m  Procs = {m, a, b}
  l = l  o = o  FDs = {l, o, c, d}  Accepted = {c, d}
  MainSockets <- ListenerOutput
  NoFD = NoFD  NoProc = NoProc
  Requests = {}  Lingers = FALSE
INVARIANTS TypeOK LiveProcListed FreedNeverDispatched InterestWatched EventsReachWaiter
CHECK_DEADLOCK FALSE
