SPECIFICATION AttendedSpec
CONSTANTS
  Proc = {p1}
  Null = Null
  Curl = Curl
  MaxSeq = 2
  MaxGen = 0
  RingSize = 2
  PageSize = 2
  Timer = {p1}
  Operator = {p1}
  Killable = {"kArchive"}
  MaxKills = 1
PROPERTIES
  AcknowledgedArchived
