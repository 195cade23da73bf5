SPECIFICATION Spec
CONSTANTS
  Proc = {p1, p2}
  Null = Null
  Curl = Curl
  MaxSeq = 4
  MaxGen = 0
  RingSize = 3
  PageSize = 2
SYMMETRY Symmetry
PROPERTIES
  NoSilentGap
