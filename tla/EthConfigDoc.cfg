CONSTANTS
  Ip = {ip1}
  Mask = Mask
  Old = Old
  Files <- DocFiles
  Missing = Missing
  MaxLines = 4
SPECIFICATION Spec
INVARIANTS AcknowledgedIsSet
