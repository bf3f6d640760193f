SPECIFICATION Spec
CONSTANTS
  Savers = {u, v}
  Alerts = {a1}
  Timers = {t1, t2}
  NoTimer = NoTimer
  Restarts = TRUE

INVARIANTS TypeOK Watched EntryTimed
PROPERTIES Alarmed
