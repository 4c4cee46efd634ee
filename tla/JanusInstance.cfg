SPECIFICATION FairSpec
CONSTANTS
  Conn = {c1, c2, c3}
  SessionIds = {s1}
  HandleIds = {h1, h2}
  BeatPeriod = 6
  MaxLate = 2
  MaxDelay = 3
  SessionTimeout = 12
  Faults = {"noconn", "drop", "refuse", "slowboot", "crash"}
  None = None
INVARIANTS
  TypeOK
  SessionKept
  HandlesGranted
PROPERTIES
  GrantsHandles
  BecomesReady
