SPECIFICATION Spec
CHECK_DEADLOCK FALSE
CONSTANTS
  early = early
  other = other
  s1 = s1
  s2 = s2
  s3 = s3
  x = x
  y = y
  z = z
  Nobody = Nobody
  NoEntry = NoEntry
  Incomplete = Incomplete
  Sample = {early, other, s1, s2, s3}
  Live = {s1, s2, s3}
  Wanted = {early, s1, s2, s3}
  EXPORT_INTERVAL_SECONDS = 1
  MaxTime = 2
  maximumEntriesPerSensor = 2
  SensorOf <- MCSensorOf
  TimeOf <- MCTimeOf
  KeysOf <- MCKeysOf
  DataKey <- MCDataKey
INVARIANTS
  KeepsLastN
