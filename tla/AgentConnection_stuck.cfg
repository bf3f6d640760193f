SPECIFICATION Spec
CONSTANTS
  Main = main
  Connectors = {r1}
  Conns = {c1, c2}
  NoConn = NoConn

PROPERTIES Reconnects
CHECK_DEADLOCK FALSE
