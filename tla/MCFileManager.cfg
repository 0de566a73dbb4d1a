\* Three threads, three clients and one file of up to two chunks, which the system
\* may fail to open, to create, to write and to remove.
SPECIFICATION Spec
CONSTANTS
  Clients = {c1, c2, c3}
  Files = {f1}
  Threads = {t1, t2, t3}
  Chunks = {v1}
  Hole = v1
  FaultyFiles = {f1}
  MaxReaders = 3
  MaxChunks = 2
  NoFile = NoFile
  NoCall = NoCall
SYMMETRY Symmetry
INVARIANTS
  TypeOK
  MutualExclusion
  CountsCoverSessions
  PendingWritersCounted
  HandlesHaveFiles
  NoLostWriterWakeup
PROPERTIES
  ReadersSeeOneFile
  OneSessionEndsAtATime
  ReadersYieldToWriters
  ImplementsLockedStore
\* A thread that hangs in the destructor of a condition variable stops them all.
CHECK_DEADLOCK FALSE
