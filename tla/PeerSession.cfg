\* Two nodes with synchronised clocks: hello, loss, duplication, restarts.
CONSTANTS
  a = a
  b = b
  Node = {a, b}
  MaxSecret = 4
  MaxSeq = 4
  MaxCert = 2
  Synchronised = TRUE
SPECIFICATION Spec
INVARIANTS NumbersInOrder SessionsAgree
PROPERTY SecretsIncrease
SYMMETRY MCSymmetry
CHECK_DEADLOCK FALSE
