SPECIFICATION Spec
CONSTANTS
  Proc = {p1, p2}
  RoomName = {r1}
  Null = Null
  MaxClock = 3
  IntMax = 3
  WidthMax = 4
  MaxOther = 0
SYMMETRY Symmetry
PROPERTIES
  AcceptedSendSucceeds
