SPECIFICATION Spec
CONSTANTS
  RxRings = {rx}
  TxRings = {tx}
  BufLen = 1
  AcceptedLen = 1
  Byte = {a, nl}
  NewLine = nl
  Faults = {"EAGAIN", "EIO"}
  Closable = {rx, tx}
PROPERTIES EffectRaised
