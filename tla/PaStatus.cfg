SPECIFICATION FairSpec
CONSTANTS
  LastState = 1
  LineMax = 7
  Burst = 2
  Faults = 1
  Reporters = {host}
INVARIANTS PaInv
PROPERTIES ReportsNeverGoBack ReportsSettle
