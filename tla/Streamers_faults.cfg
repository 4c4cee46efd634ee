SPECIFICATION Spec
CONSTANTS
  StartingPort = 6001
  PortSpace = 65536
  Ids = {i1, i2}
  PsAddr = {p1, p2}
  Conn = {c1, c2, c3}
  MountIds = {m1, m2}
  ParticipantIds = {}
  Interval = 0
  Faults = {"unready", "drop", "refuse"}
  None = None
SYMMETRY Symmetry
INVARIANTS
  PortsDisjoint
  OwnMount
PROPERTIES
  AnswerReachesAsker
  ImplementsLeases
