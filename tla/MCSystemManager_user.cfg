SPECIFICATION Spec
CONSTANTS
  s1 = s1
  s3 = s3
  c1 = c1
  Sys = {s1, s2}
  Conns = {c1, c2}
  Users = {u1}
  NoSys = NoSys
  NoConn = NoConn
  Recycle = TRUE
CONSTRAINT OneDisturbance
SYMMETRY Symmetry
INVARIANTS TypeOK DeadNotRegistered CutOff
PROPERTIES OrphansNeedOverlap
CHECK_DEADLOCK FALSE
