CONSTANTS
  Conn = {c1, c2}
  MaxXid = 3
  MaxCid = 2
SPECIFICATION Spec
INVARIANTS
  SessionInv
PROPERTIES
  BlockEndedByClient
  EngineTransactionsEnd
