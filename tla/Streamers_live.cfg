SPECIFICATION FairSpec
CONSTANTS
  StartingPort = 6001
  PortSpace = 65536
  Ids = {i1}
  PsAddr = {p1}
  Conn = {c1, c2, c3}
  MountIds = {m1}
  ParticipantIds = {}
  Interval = 1
  Faults = {"drop", "refuse", "nopsc"}
  None = None
INVARIANTS
  TasksServeLive
  NoDanglingCreation
PROPERTIES
  CreationAnswered
  ExpiredPurged
  ShutdownCompletes
