CONSTANTS
  Blocks = {b1, b2}
  NoBlock = NoBlock
  BlockSize = 1
  QueueCap = 1
  Requests = {r1, r2}
  NoRequest = NoRequest
  Long = r1
  MaxBody = 2
  MaxPayload = 2
  Budget = 2
  WorkerCap = 1
SPECIFICATION MCFairSpec
PROPERTIES CaptureNeverBlocks BlocksComeHome PartialsGo
