CONSTANTS
  MaxEntries = 2
  InputCap = 1
  BatchSize = 1
  MaxBacklog = 0
  LineSize = 2
  InitialAvg = 2
  MaxSize = 9
  MaxFiles = 1
  MaxFaults = 1
  MaxRestarts = 0
SPECIFICATION Spec
INVARIANT OneObjectPerLine
