\* Two clients make two operations each, of any kind, on one file; one of the
\* clients may vanish, and the system may fail to open or change the file.
SPECIFICATION Spec
CONSTANTS
  t1 = t1
  t2 = t2
  c1 = c1
  c2 = c2
  c3 = c3
  v1 = v1
  v2 = v2
  Threads = {t1, t2}
  Clients = {c1, c2}
  Files = {f1}
  Chunks = {v1, v2}
  Hole = v1
  FaultyFiles = {f1}
  MaxReaders = 4
  MaxChunks = 2
  NoFile = NoFile
  NoCall = NoCall
  Reactors = {}
  NoReactor = NoReactor
  MaxChanges = 4
  NoClient = NoClient
  ClientOf <- OneClientEach
  Kinds = {"store", "fetch", "remove"}
  LocalFiles <- AnyLocalFile
  MayVanish = {t1}
  PoolSize = 3
  MaxOperations = 2
INVARIANT
  TypeOK
PROPERTIES
  FetchesAreSnapshots
  StoresAreWhole
CHECK_DEADLOCK FALSE
