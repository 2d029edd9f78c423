SPECIFICATION NodeSpec
CHECK_DEADLOCK FALSE
CONSTANTS
  m1 = m1
  m2 = m2
  weather = weather
  bare = bare
  system = system
  temperature = temperature
  wind = wind
  Measurement = {m1, m2}
  HttpXml = {weather, bare}
  SystemStats = {system}
  Missing = {bare}
  SensorsFor <- MCSensorsFor
  PathsOf <- MCPathsOf
  Documents <- MCDocuments
  Post <- MCPost
  Sample <- MCPost
  File <- MCFile
  OldFiles <- MCOldFiles
  FileOf <- MCFileOf
  ActiveReceivers <- MCActiveReceivers
INVARIANTS
  NodeTypeOK
  OneLinePerSample
  SocketsAreClosed
  CarbonHasFirstLines
PROPERTIES
  ReceiversAreIsolated
