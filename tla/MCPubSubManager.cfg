\* Two clients open up to two streams; three updates are published.
SPECIFICATION Spec
CONSTANTS
  Clients = {c1, c2}
  Reactors = {r1, r2}
  NoReactor = NoReactor
  MaxChanges = 3
INVARIANTS
  TypeOK
  NoDanglingReactor
  QueueIsBeingWritten
  VersionsInOrder
PROPERTIES
  UpdatesArrive
  StreamsEnd
CHECK_DEADLOCK FALSE
