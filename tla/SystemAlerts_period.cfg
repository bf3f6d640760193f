SPECIFICATION Spec
CONSTANTS
  Mins = {1, 2}
  Share = 2
  Filesystems = {root, extra}
  Values = {0, 3}
  Threshold = 1
  Goroutines = {g1, g2}
  None = None

INVARIANTS TypeOK InStep
PROPERTIES Settles
