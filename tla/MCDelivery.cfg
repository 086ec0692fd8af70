CONSTANTS
  MaxEntries = 4
  InputCap = 1
  BatchSize = 2
  MaxBacklog = 1
  LineSize = 2
  InitialAvg = 2
  MaxSize = 4
  MaxFiles = 1
  MaxFaults = 2
  MaxRestarts = 1
SPECIFICATION FairSpec
INVARIANTS TypeOK InOrderNoLoss CountedIsPersisted BatchInOneFile SizeTracked DiskBounded
PROPERTIES KeepsLog DrainsAtClose EntriesAreFlushed
