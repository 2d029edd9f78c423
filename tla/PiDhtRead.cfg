SPECIFICATION Spec
CHECK_DEADLOCK FALSE
CONSTANTS
  Low = 50
  Zero = 28
  One = 70
  DisturbedLow = {0, 49, 60, 900, 31999, 32000}
  DisturbedHigh = {0, 49, 50, 31999, 32000}
  DHT_MAXCOUNT = 32000
  Readings <- MCReadings
INVARIANTS
  TypeOK
  ReadsWhatWasSent
  ReturnsClean
