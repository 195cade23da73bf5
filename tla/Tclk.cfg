SPECIFICATION Spec
CONSTANTS
  a = a
  b = b
  c = c
  r1 = r1
  r2 = r2
  Party = {a, b, c}
  Offers <- MCOffers
  Secrets = {s1, s2}
  Rails = {r1, r2}
  Refs = {x, y}
  Times = {1, 2}
  None = None
  MaxFrames = 6
SYMMETRY Symmetry
CHECK_DEADLOCK FALSE
INVARIANTS
  TclkTypeOK
  Indexed
  JustifiedStatus
  AuditConsistent
PROPERTIES
  ImplementsLifecycle
