CONSTANTS
  Blocks = {b1, b2, b3}
  NoBlock = NoBlock
  BlockSize = 2
  QueueCap = 1
  Requests = {r1, r2}
  NoRequest = NoRequest
  MaxBody = 4
  MaxPayload = 3
  Budget = 3
  WorkerCap = 1
SPECIFICATION Spec
INVARIANTS TypeOK BlockConservation OneOutcome NoSilentLoss InflightAccounting
PROPERTIES QueuedBlocksFrozen KeepsPromise
SYMMETRY Symmetry
VIEW View
