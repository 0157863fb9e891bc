CONSTANTS
  Conn = {c1, c2}
  NoConn = NoConn
  Other = Other
  Fd = {4, 5, 6}
  Patient = TRUE
  SpawnFails = FALSE
SPECIFICATION FairSpec
INVARIANTS OwnConnectionOnly NoLeak
PROPERTIES OneAtATime SlotFreed HostFed
