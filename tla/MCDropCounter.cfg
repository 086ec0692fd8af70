CONSTANTS
  Callers = {c1, c2, c3}
  MaxDrops = 4
SPECIFICATION FairSpec
INVARIANTS Accounted WarningsWithinTotal StopFlushes
PROPERTY DropsAreReported
