SPECIFICATION Spec
CONSTANTS
  Proc = {p1, p2}
  Null = Null
  Configs <- MCConfigs
  MaxSeq = 3
  Forged = {2}
  Receipts = {2, 3}
  MaxSnapshots = 3
  Budget = 11
  MaxFaults = 1
  MaxDamage = 1
SYMMETRY Symmetry
INVARIANTS
  ChainIntact
  StorageBounded
  CoverageExact
  ReportedKept
  CleanExit
PROPERTIES
  ExtendsVerified
