SPECIFICATION ReviewSpec
CONSTANTS
  Proc = {p1}
  Null = Null
  Curl = Curl
  MaxSeq = 3
  MaxGen = 1
  RingSize = 2
  PageSize = 2
  Timer = {p1}
  Operator = {p1}
  Killable <- AnyPlace
  MaxKills = 1
INVARIANTS
  ReviewTypeOK
  EvidenceKept
  NoReplayAcknowledged
PROPERTIES
  SavedBatchKept
