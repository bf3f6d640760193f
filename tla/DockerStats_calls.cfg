SPECIFICATION Spec
CONSTANTS
  Ids = {c1, c2}
  Fickle = {c1}
  Intervals = {i1, i2}
  Alive = 2
  Sem = 1
  NoCtr = NoCtr

INVARIANTS TypeOK NoLeak
PROPERTIES CallReturns
