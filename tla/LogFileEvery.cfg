SPECIFICATION Spec
CHECK_DEADLOCK FALSE
CONSTANTS
  s1 = s1
  s2 = s2
  s3 = s3
  e1 = e1
  sensorLog = sensorLog
  errorLog = errorLog
  Sample = {s1, s2, s3, e1}
  File = {sensorLog, errorLog}
  OldFiles = {sensorLog, errorLog}
  FileOf <- MCFileOf
INVARIANTS
  EveryMeasurementLogged
