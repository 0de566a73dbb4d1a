\* Two files with two contents; two threads, an upload and another task.
SPECIFICATION Spec
CONSTANTS
  Paths = {p1, p2}
  MaxWrites = 2
  Length <- LongThenShort
  Capacity = 2
  MaxFailures = 1
  Workers = {w1, w2}
  Tasks = {u1, k1}
  Uploads = {u1}
  ChunkSize = 2
  MaxSize = 3
INVARIANTS
  TypeOK
  NobodyOversleeps
  TasksAreKeptOnce
  UploadsAreReported
  ChangesAreNotLost
PROPERTIES
  NoticedFilesAreStored
  ApplicationEnds
CHECK_DEADLOCK FALSE
