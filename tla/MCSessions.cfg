CONSTANTS
  Requests = {r1, r2}
  NoRequest = NoRequest
  Workers = {w1, w2}
  Exited = Exited
  ResultsCap = 1
  CollectorCap = 1
SPECIFICATION FairSpec
INVARIANTS TypeOK SplitOnlyByExpiry NoSendOnClosed
PROPERTIES EntryConservation ShutdownCompletes SessionsExpire
