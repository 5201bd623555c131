SPECIFICATION Spec
CONSTANTS
  RxRings = {rx}
  TxRings = {tx}
  BufLen = 2
  AcceptedLen = 2
  Byte = {a, nl}
  NewLine = nl
  Faults = {}
  Closable = {}
INVARIANTS TypeOK NeverOverflows VectorsPartition LineFound
PROPERTIES ImplementsFifo
