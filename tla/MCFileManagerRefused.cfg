\* A writer that waited is refused: is the reader that waits for it told?
SPECIFICATION Spec
CONSTANTS
  Clients = {c1, c2}
  Files = {f1}
  Threads = {t1, t2}
  Chunks = {v1}
  Hole = v1
  FaultyFiles = {f1}
  MaxReaders = 3
  MaxChunks = 1
  NoFile = NoFile
  NoCall = NoCall
SYMMETRY Symmetry
INVARIANT
  NoLostReaderWakeup
CHECK_DEADLOCK FALSE
