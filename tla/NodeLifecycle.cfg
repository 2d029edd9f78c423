SPECIFICATION FairSpec
CHECK_DEADLOCK FALSE
CONSTANTS
  Null = Null
  Shipped <- MCShipped
  Configurations <- MCConfigurations
INVARIANTS
  TypeOK
  HookStopsAll
  TriggerFindsNodeReady
PROPERTIES
  StopEnds
