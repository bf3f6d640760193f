SPECIFICATION Spec
CONSTANTS
  Clients = {c1, c2}
  Systems = {s1}
  Handlers = {h1, h2}
  Workers = {w1, w2}
  CountMod = 4

INVARIANTS TypeOK CountsAgree Served
PROPERTIES WorkersEnd
