SPECIFICATION Spec
CHECK_DEADLOCK FALSE
CONSTANTS
  Null = Null
  Shipped <- MCShipped
  Configurations <- MCConfigurations
INVARIANTS
  DefaultsWork
