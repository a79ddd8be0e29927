\* A token; any step may be interrupted, any number of times.
CONSTANTS
  p1 = p1
  p2 = p2
  t = t
  NoPrefix = NoPrefix
  NoToken = NoToken
  NoCert = NoCert
  NoConfig = NoConfig
  Prefix = {p1, p2}
  Token = {t}
  MaxSerial = 3
  MaxVersion = 2
SPECIFICATION Spec
INVARIANTS Unique VersionsServed TokenOnce RevokedListed Announced
SYMMETRY MCSymmetry
CHECK_DEADLOCK FALSE
