CONSTANTS
  Byte = {1, 2}
  Size = 3
  MaxRequest = 3
SPECIFICATION Spec
INVARIANTS RngInv AccountsAgree
PROPERTIES IsFifo UnreadKept
