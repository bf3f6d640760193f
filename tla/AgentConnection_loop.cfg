SPECIFICATION Spec
CONSTANTS
  Main = main
  Connectors = {r1}
  Conns = {c1, c2}
  NoConn = NoConn

INVARIANTS TypeOK ConnectedIsOpen
PROPERTIES KeepsTrying EventsTaken
CHECK_DEADLOCK FALSE
