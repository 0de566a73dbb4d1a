\* Uploads of two chunks and of one, one after the other.
SPECIFICATION Spec
CONSTANTS
  t1 = t1
  t2 = t2
  c1 = c1
  c2 = c2
  c3 = c3
  v1 = v1
  v2 = v2
  Threads = {t1, t2}
  Clients = {c1, c2}
  Files = {f1}
  Chunks = {v1, v2}
  Hole = v1
  FaultyFiles = {}
  MaxReaders = 4
  MaxChunks = 2
  NoFile = NoFile
  NoCall = NoCall
  Reactors = {}
  NoReactor = NoReactor
  MaxChanges = 2
  NoClient = NoClient
  ClientOf <- OneClientEach
  Kinds = {"store"}
  LocalFiles <- OneOrTwoChunks
  MayVanish = {}
  PoolSize = 3
  MaxOperations = 1
PROPERTY
  StoresReplace
CHECK_DEADLOCK FALSE
