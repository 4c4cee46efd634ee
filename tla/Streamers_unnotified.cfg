SPECIFICATION Spec
CONSTANTS
  StartingPort = 6001
  PortSpace = 65536
  Ids = {i1}
  PsAddr = {p1}
  Conn = {c1, c2}
  MountIds = {m1}
  ParticipantIds = {}
  Interval = 1
  Faults = {}
  None = None
INVARIANTS
  NotifiedBeforeKill
