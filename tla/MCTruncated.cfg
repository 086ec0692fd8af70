CONSTANTS
  Blocks = {b1, b2, b3}
  NoBlock = NoBlock
  BlockSize = 1
  QueueCap = 1
  Requests = {r1, r2}
  NoRequest = NoRequest
  MaxBody = 3
  MaxPayload = 2
  Budget = 2
  WorkerCap = 1
SPECIFICATION Spec
INVARIANT CompleteMeansWhole
SYMMETRY Symmetry
