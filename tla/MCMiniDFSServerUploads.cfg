\* Two clients upload a file, maybe an empty one, and one of them may be cut off;
\* two update streams, of any clients.
SPECIFICATION Spec
CONSTANTS
  t1 = t1
  t2 = t2
  c1 = c1
  c2 = c2
  c3 = c3
  v1 = v1
  v2 = v2
  Threads = {t1, t2}
  Clients = {c1, c2}
  Files = {f1}
  Chunks = {v1, v2}
  Hole = v1
  FaultyFiles = {}
  MaxReaders = 4
  MaxChunks = 2
  NoFile = NoFile
  NoCall = NoCall
  Reactors = {r1, r2}
  NoReactor = NoReactor
  MaxChanges = 2
  NoClient = NoClient
  ClientOf <- OneClientEach
  Kinds = {"store"}
  LocalFiles <- OneChunkOrNone
  MayVanish = {t1}
  PoolSize = 2
  MaxOperations = 1
INVARIANT
  IdleClientsHoldNothing
PROPERTIES
  LocksAreAnswered
  UploadsReachSubscribers
CHECK_DEADLOCK FALSE
