CONSTANTS
  Absent = Absent
  Blank = Blank
  Field = Field
  Plain = Plain
  None = None
  MinDigits = 3
  MaxDigits = 4
  maxLatencyBucketMS = 2
  Percentiles = {50, 95, 99}
  RequestBodies <- MCRequestBodies
  Answer <- MCAnswer
  Openings <- EventOpening
  Found <- MCFound
  MaxRequests = 1
  MaxWindows = 2
SPECIFICATION MCSpec
INVARIANT StreamsAreScanned
