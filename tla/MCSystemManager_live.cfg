SPECIFICATION LiveSpec
CONSTANTS
  s1 = s1
  s3 = s3
  c1 = c1
  Sys = {s1, s2, s3}
  Conns = {c1, c2}
  Users = {}
  NoSys = NoSys
  NoConn = NoConn
  Recycle = FALSE

PROPERTIES LossSeen RecoverySeen UpdaterStops
CHECK_DEADLOCK FALSE
