SPECIFICATION FairSpec
CONSTANTS
  Proc = {p1, p2}
  RoomName = {r1}
  Null = Null
  MaxClock = 2
  IntMax = 2
  WidthMax = 3
  MaxOther = 1
INVARIANTS
  SInv
  NonceNeverReused
  LogTruthful
PROPERTIES
  NonceIncreases
  SendsEnd
