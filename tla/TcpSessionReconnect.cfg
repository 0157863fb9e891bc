CONSTANTS
  Conn = {c1, c2}
  NoConn = NoConn
  Other = Other
  Fd = {4, 5, 6}
  Patient = FALSE
  SpawnFails = FALSE
SPECIFICATION Spec
INVARIANTS OwnConnectionOnly
