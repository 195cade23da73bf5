SPECIFICATION ReviewSpec
CONSTANTS
  Proc = {timer, operator}
  Null = Null
  Curl = Curl
  MaxSeq = 2
  MaxGen = 1
  RingSize = 2
  PageSize = 2
  Timer = {timer}
  Operator = {operator}
  Killable <- AnyPlace
  MaxKills = 1
INVARIANTS
  EvidenceKept
  NoReplayAcknowledged
PROPERTIES
  AdvanceIsReviewed
