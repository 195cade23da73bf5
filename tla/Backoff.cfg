SPECIFICATION FairBackoffSpec
CONSTANTS
  Proc = {p1, p2}
  Null = Null
  Curl = Curl
  MaxSeq = 2
  MaxGen = 0
  RingSize = 2
  PageSize = 1
  Looper = {p1}
  MaxAttempts = 3
  InitialDelay = 2
  MaxDelay = 6
  MaxJitter = 0
INVARIANTS
  DelaySchedule
  OneBatchPrinted
PROPERTIES
  SuccessIsMarked
  LoopsEnd
