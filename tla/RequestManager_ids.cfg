SPECIFICATION Spec
CONSTANTS
  Callers = {a, b}
  MaxId = 3
  LegacyAgent = FALSE

INVARIANTS TypeOK ContextsEnd NobodyForgotten PendingIsWatched
PROPERTIES ReplySpec CallEnds Drained
