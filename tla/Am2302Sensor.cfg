SPECIFICATION FairSpec
CHECK_DEADLOCK FALSE
CONSTANTS
  c1 = c1
  c2 = c2
  c3 = c3
  None = None
  Call = {c1, c2, c3}
  Overlap = FALSE
  RETRIES_IN_ERROR_CASE = 4
  ALLOWED_TEMPERATURE_VARIATION = 5
  ALLOWED_HUMIDITY_VARIATION = 10
  Reading <- MCReading
  ErrorCode <- MCErrorCode
INVARIANTS
  TypeOK
  SampleIsOwnReading
  OutliersAreRetried
PROPERTIES
  MeasureEnds
