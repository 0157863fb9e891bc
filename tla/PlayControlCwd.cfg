CONSTANTS
  f1 = f1
  f2 = f2
  gone = gone
  File <- MCFile
  Stored <- MCStored
  Size <- MCSize
  NameLen <- MCNameLen
  Packet = 4
  Length = 8
  MaxFailed = 1
  Empty = Empty
  Garbled = Garbled
SPECIFICATION Spec
INVARIANTS WorkDirRestored
