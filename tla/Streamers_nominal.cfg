SPECIFICATION Spec
CONSTANTS
  StartingPort = 6001
  PortSpace = 65536
  Ids = {i1}
  PsAddr = {p1, p2}
  Conn = {c1, c2, c3, c4}
  MountIds = {m1, m2}
  ParticipantIds = {u1}
  Interval = 0
  Faults = {}
  None = None
SYMMETRY Symmetry
INVARIANTS
  TypeOK
  AnswerOwed
  NoDoubleAnswer
  SourceHasRoom
PROPERTIES
  MountsAccounted
  RoomBeforeAnswer
