CONSTANTS
  Ip = {ip1, ip2}
  Mask = Mask
  Old = Old
  Files <- MCFiles
  Missing = Missing
  MaxLines = 4
SPECIFICATION Spec
INVARIANTS EthInv NothingLost LastCallDecides
