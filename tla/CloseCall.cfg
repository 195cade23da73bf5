SPECIFICATION Spec
CONSTANTS
  Kinds <- MCKinds
  Artifacts <- MCArtifacts
  Referee = referee
  Stranger = stranger
  MaxSweeps = 2
  None = None
INVARIANTS
  HonestAccepted
  ReportFaithful
  ReportsExtend
  FinalIsFinal
  ArchiveAgrees
  RecordsGenuine
