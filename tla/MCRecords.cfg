CONSTANTS
  Absent = Absent
  Blank = Blank
  Field = Field
  Plain = Plain
  None = None
  MinDigits = 3
  MaxDigits = 4
  maxLatencyBucketMS = 2
  Percentiles = {50, 95, 99}
  RequestBodies <- MCRequestBodies
  Answer <- MCAnswer
  Openings <- MCOpenings
  Found <- MCFound
  MaxRequests = 1
  MaxWindows = 2
SPECIFICATION MCSpec
INVARIANTS LogsTellPayloads PercentilesTrue EvidenceMatchesMetrics CountedOnce ValidatorsExact
