SPECIFICATION Spec
CONSTANTS
  Proxy = {p1, p2, p3}
  Value = {v, w}
  FAILURES_TOLERATED = 1
  MaxFaulty = 1
  MaxRelays = 1
SYMMETRY Symmetry
INVARIANTS
  
  
  EnoughCorrectAccept
