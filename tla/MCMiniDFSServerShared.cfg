\* Two of three operations are made under one client id.
SPECIFICATION Spec
CONSTANTS
  t1 = t1
  t2 = t2
  c1 = c1
  c2 = c2
  c3 = c3
  v1 = v1
  v2 = v2
  Threads = {t1, t2, t3}
  Clients = {c1, c2}
  Files = {f1}
  Chunks = {v1, v2}
  Hole = v1
  FaultyFiles = {f1}
  MaxReaders = 4
  MaxChunks = 2
  NoFile = NoFile
  NoCall = NoCall
  Reactors = {}
  NoReactor = NoReactor
  MaxChanges = 3
  NoClient = NoClient
  ClientOf <- TwoShareAClient
  Kinds = {"store", "fetch"}
  LocalFiles <- AnyLocalFile
  MayVanish = {t1}
  PoolSize = 4
  MaxOperations = 1
INVARIANT
  ReadersCoverFetches
CHECK_DEADLOCK FALSE
