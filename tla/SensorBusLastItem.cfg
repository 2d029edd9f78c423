SPECIFICATION Spec
CONSTANTS
  a = a
  b = b
  temp = temp
  http = http
  console = console
  NoSample = NoSample
  Node = {a, b}
  Sensor = {temp, http}
  Receiver = {console}
  StampsFirst = {http}
  MaxRounds = 2
  PlatformOf <- MCPlatformOf
  SampleType <- MCSampleType
  ErrorType <- MCErrorType
  NamePart <- MCNamePart
  SensorsOf <- HttpSensorsOf
  ReceiversOf <- MCReceiversOf
  TypePattern <- MCTypePattern
  PlatformPattern <- MCPlatformPattern
INVARIANTS
  KeepsLastItem
