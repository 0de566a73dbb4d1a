------------------------- MODULE FileManagerProofs -------------------------
(***************************************************************************)
(* Proofs about the lock table, for any number of clients, files and       *)
(* threads and any bounds.                                                 *)
(***************************************************************************)
EXTENDS FileManager, FiniteSetTheorems, TLAPS

(* MutualExclusion is not inductive: a waiting writer is admitted because  *)
(* of has_writer and readers, so these must account for every session, and *)
(* a FileLock made anew must start from nothing.  pending_writers stays a  *)
(* natural number because it counts the threads that will decrement it.    *)
TableInv == NewLocksAreFree /\ CountsCoverSessions /\ MutualExclusion
QueueInv == WaitersHaveLocks /\ PendingWritersCounted
IInv == Types /\ QueueInv /\ TableInv /\ HandlesHaveFiles

-----------------------------------------------------------------------------
(* An empty file is a file.                                                *)
LEMMA EmptyFile == <<>> \in Seq(Chunks) /\ <<>> # NoFile
<1>1. <<>> \in Seq(Chunks)
  OBVIOUS
<1>. QED
  BY <1>1, ChunksAssumption

-----------------------------------------------------------------------------
(* What the helpers do to the sessions.                                    *)

(* A session that is set is the only one that changes.                     *)
LEMMA SetSessionEffect ==
  ASSUME Types, NEW c \in Clients, NEW f \in Files, NEW kind \in Sessions,
         SetSession(c, f, kind)
  PROVE  /\ sessions' \in [Files -> [Clients -> Sessions]]
         /\ \A g \in Files, d \in Clients :
              sessions'[g][d] = IF g = f /\ d = c THEN kind ELSE sessions[g][d]
<1>. DEFINE row == [sessions[f] EXCEPT ![c] = kind]
<1>1. sessions \in [Files -> [Clients -> Sessions]]
  BY DEF Types
<1>2. row \in [Clients -> Sessions] /\ \A d \in Clients :
        row[d] = IF d = c THEN kind ELSE sessions[f][d]
  BY <1>1
<1>3. sessions' = [sessions EXCEPT ![f] = row]
  BY DEF SetSession
<1>4. \A g \in Files : sessions'[g] = IF g = f THEN row ELSE sessions[g]
  BY <1>1, <1>3
<1>5. sessions' \in [Files -> [Clients -> Sessions]]
  BY <1>1, <1>2, <1>3
<1>. QED
  BY <1>2, <1>4, <1>5

(* How the sets of readers and writers change with it.                     *)
LEMMA SetSessionHolders ==
  ASSUME Types, NEW c \in Clients, NEW f \in Files, NEW kind \in Sessions,
         SetSession(c, f, kind)
  PROVE  /\ ReadersOf(f)' = IF kind = "reader" THEN ReadersOf(f) \cup {c}
                                               ELSE ReadersOf(f) \ {c}
         /\ WritersOf(f)' = IF kind \in {"writer", "closed"}
                              THEN WritersOf(f) \cup {c} ELSE WritersOf(f) \ {c}
         /\ \A g \in Files \ {f} : /\ ReadersOf(g)' = ReadersOf(g)
                                   /\ WritersOf(g)' = WritersOf(g)
BY SetSessionEffect DEF ReadersOf, WritersOf

(* When the sessions of a file are cleared, nobody holds it.               *)
LEMMA ClearSessionsEffect ==
  ASSUME Types, NEW f \in Files, ClearSessions(f)
  PROVE  /\ sessions' \in [Files -> [Clients -> Sessions]]
         /\ \A c \in Clients : sessions'[f][c] = "none"
         /\ ReadersOf(f)' = {} /\ WritersOf(f)' = {}
         /\ \A g \in Files \ {f} : /\ sessions'[g] = sessions[g]
                                   /\ ReadersOf(g)' = ReadersOf(g)
                                   /\ WritersOf(g)' = WritersOf(g)
<1>1. sessions' \in [Files -> [Clients -> Sessions]]
  BY DEF ClearSessions, Types, Sessions
<1>2. \A c \in Clients : sessions'[f][c] = "none"
  BY DEF ClearSessions, Types
<1>3. \A g \in Files \ {f} : sessions'[g] = sessions[g]
  BY DEF ClearSessions, Types
<1>. QED
  BY <1>1, <1>2, <1>3 DEF ReadersOf, WritersOf

(* The readers of a file are finitely many.                                *)
LEMMA ReadersFinite ==
  ASSUME NEW f \in Files
  PROVE  /\ IsFiniteSet(ReadersOf(f))
         /\ Cardinality(ReadersOf(f)) \in Nat
<1>1. ReadersOf(f) \in SUBSET Clients
  BY DEF ReadersOf
<1>. QED
  BY <1>1, FS_Subset, FS_CardinalityType, FiniteAssumption

-----------------------------------------------------------------------------
(* Type correctness.                                                       *)

(* Writing a chunk to a file leaves it a sequence of chunks.               *)
LEMMA WriteAtType ==
  ASSUME NEW s \in Seq(Chunks), NEW v \in Chunks, NEW i \in Nat \ {0}
  PROVE  WriteAt(s, i, v) \in Seq(Chunks)
<1>. DEFINE n == IF i > Len(s) THEN i ELSE Len(s)
<1>1. n \in Nat
  OBVIOUS
<1>2. WriteAt(s, i, v) \in [1..n -> Chunks]
  BY ChunksAssumption DEF WriteAt
<1>. QED
  BY <1>1, <1>2

(* What an admitted thread does keeps the types of the variables it can    *)
(* change.                                                                 *)
LEMMA EntersType ==
  ASSUME Types, NEW c \in Clients, NEW f \in Files, NEW m \in Modes,
         NEW granted \in BOOLEAN, Enters(c, f, m, granted)
  PROVE  /\ readers' \in [Files -> 0..MaxReaders]
         /\ hasWriter' \in [Files -> BOOLEAN]
         /\ sessions' \in [Files -> [Clients -> Sessions]]
         /\ disk' \in [Files -> Seq(Chunks) \cup {NoFile}]
<1>1. ASSUME NEW kind \in Sessions, SetSession(c, f, kind)
      PROVE  sessions' \in [Files -> [Clients -> Sessions]]
  BY <1>1, SetSessionEffect
<1>2. CASE m = "read"
  <2>1. ReaderEnters(c, f, granted)
    BY <1>2 DEF Enters
  <2>2. sessions' \in [Files -> [Clients -> Sessions]]
    BY <1>1, <2>1 DEF ReaderEnters, Types, Sessions
  <2>3. readers' \in [Files -> 0..MaxReaders]
    <3>1. readers \in [Files -> 0..MaxReaders] /\ readers[f] \in 0..MaxReaders
      BY DEF Types
    <3>2. CASE granted
      <4>1. readers[f] + 1 \in 0..MaxReaders
        BY <2>1, <3>1, <3>2, CountAssumption DEF ReaderEnters
      <4>2. readers' = [readers EXCEPT ![f] = readers[f] + 1]
        BY <2>1, <3>2 DEF ReaderEnters
      <4>. QED
        BY <3>1, <4>1, <4>2
    <3>3. CASE ~granted
      BY <2>1, <3>1, <3>3 DEF ReaderEnters
    <3>. QED
      BY <3>2, <3>3
  <2>. QED
    BY <2>1, <2>2, <2>3 DEF ReaderEnters, Types
<1>3. CASE m # "read"
  <2>1. WriterEnters(c, f, m, granted)
    BY <1>3 DEF Enters
  <2>2. sessions' \in [Files -> [Clients -> Sessions]]
    BY <1>1, <2>1 DEF WriterEnters, Types, Sessions
  <2>3. disk' \in [Files -> Seq(Chunks) \cup {NoFile}]
    <3>1. <<>> \in Seq(Chunks)
      OBVIOUS
    <3>. QED
      BY <2>1, <3>1 DEF WriterEnters, Types
  <2>. QED
    BY <2>1, <2>2, <2>3 DEF WriterEnters, Types
<1>. QED
  BY <1>2, <1>3


-----------------------------------------------------------------------------
(* The threads that wait.                                                  *)

(* The waiting writers are finitely many.                                  *)
LEMMA WaitingFinite ==
  ASSUME NEW f \in Files
  PROVE  /\ IsFiniteSet(WaitingWriters(f))
         /\ Cardinality(WaitingWriters(f)) \in Nat
<1>1. WaitingWriters(f) \in SUBSET Threads
  BY DEF WaitingWriters
<1>. QED
  BY <1>1, FS_Subset, FS_CardinalityType, FiniteAssumption

(* A step that leaves the waiting threads where they are, or notifies some *)
(* of them, keeps the accounts of the queue.                               *)
LEMMA QueueUnchanged ==
  ASSUME Types, QueueInv, UNCHANGED <<call, pendingWriters>>,
         fileLocks \subseteq fileLocks',
         \A t \in Threads : \/ pc'[t] = pc[t]
                            \/ /\ pc[t] \in {"waiting", "ready"}
                               /\ pc'[t] \in {"waiting", "ready"}
  PROVE  QueueInv'
<1>1. WaitersHaveLocks'
  BY DEF QueueInv, WaitersHaveLocks
<1>2. ASSUME NEW f \in Files
      PROVE  WaitingWriters(f)' = WaitingWriters(f)
  BY DEF WaitingWriters, At
<1>3. PendingWritersCounted'
  BY <1>2 DEF QueueInv, PendingWritersCounted
<1>. QED
  BY <1>1, <1>3 DEF QueueInv

(* Notifying the threads that wait for a file is such a step.              *)
LEMMA NotifyAllEffect ==
  ASSUME Types, NEW f \in Files, NotifyAll(f)
  PROVE  /\ pc' \in [Threads -> ThreadStates]
         /\ \A t \in Threads : \/ pc'[t] = pc[t]
                               \/ pc[t] = "waiting" /\ pc'[t] = "ready"
BY DEF NotifyAll, At, Types, ThreadStates

-----------------------------------------------------------------------------
(* The table.                                                              *)

(* TableInv depends on the lock table alone.                               *)
LEMMA TableUnchanged ==
  ASSUME TableInv, UNCHANGED <<readers, hasWriter, sessions>>,
         fileLocks \subseteq fileLocks'
  PROVE  TableInv'
BY DEF TableInv, NewLocksAreFree, CountsCoverSessions, MutualExclusion,
       ReadersOf, WritersOf

(* The accounts of one file.                                               *)
FileInv(f) ==
  /\ WritersOf(f) # {} => hasWriter[f]
  /\ Cardinality(ReadersOf(f)) <= readers[f]
  /\ \A c \in WritersOf(f) : WritersOf(f) \cup ReadersOf(f) = {c}

(* A file that nobody reads or writes has its accounts in order, whatever  *)
(* its flag and counter say.                                               *)
LEMMA NobodyHolds ==
  ASSUME NEW f \in Files, readers'[f] \in Nat, ReadersOf(f)' = {}, WritersOf(f)' = {}
  PROVE  FileInv(f)'
<1>1. Cardinality(ReadersOf(f)') = 0
  BY FS_EmptySet
<1>2. Cardinality(ReadersOf(f)') <= readers'[f]
  BY <1>1
<1>. QED
  BY <1>2 DEF FileInv

(* The accounts of the table are the accounts of its files.                *)
LEMMA TableByFile ==
  TableInv <=> NewLocksAreFree /\ \A f \in Files : FileInv(f)
BY DEF TableInv, CountsCoverSessions, MutualExclusion, FileInv

(* A step that changes the entries of f only has f's accounts to keep.     *)
LEMMA TableAtFile ==
  ASSUME TableInv, NEW f \in Files,
         \A g \in Files \ {f} : /\ readers'[g] = readers[g]
                                /\ hasWriter'[g] = hasWriter[g]
                                /\ sessions'[g] = sessions[g],
         fileLocks' \cup {f} = fileLocks \cup {f},
         f \notin fileLocks' => /\ readers'[f] = 0 /\ ~hasWriter'[f]
                                /\ \A c \in Clients : sessions'[f][c] = "none",
         FileInv(f)'
  PROVE  TableInv'
<1>1. NewLocksAreFree'
  BY DEF TableInv, NewLocksAreFree
<1>2. ASSUME NEW g \in Files \ {f}
      PROVE  FileInv(g)'
  <2>1. ReadersOf(g)' = ReadersOf(g) /\ WritersOf(g)' = WritersOf(g)
    BY DEF ReadersOf, WritersOf
  <2>. QED
    BY <2>1, TableByFile DEF FileInv
<1>3. \A g \in Files : FileInv(g)'
  BY <1>2
<1>. QED
  BY <1>1, <1>3, TableByFile DEF TableInv, CountsCoverSessions, MutualExclusion, FileInv

(* Whoever is admitted and enters keeps the accounts: a reader finds no    *)
(* writer and is counted, a writer finds the file free and is flagged.     *)
LEMMA EntersTable ==
  ASSUME Types, TableInv, NEW c \in Clients, NEW f \in Files, NEW m \in Modes,
         NEW granted \in BOOLEAN, Admitted(f, m), Enters(c, f, m, granted),
         fileLocks' = fileLocks \cup {f}
  PROVE  TableInv'
<1>1. ~hasWriter[f] /\ WritersOf(f) = {}
  BY TableByFile DEF Admitted, FileInv
<1>2. FileInv(f) /\ ReadersOf(f) \subseteq Clients /\ readers[f] \in Nat
  BY TableByFile DEF ReadersOf, Types
<1>3. CASE ~granted
  <2>1. UNCHANGED <<readers, hasWriter, sessions>>
    BY <1>3 DEF Enters, ReaderEnters, WriterEnters
  <2>. QED
    BY <2>1, TableUnchanged
<1>4. CASE granted /\ m = "read"
  <2>1. /\ SetSession(c, f, "reader")
        /\ readers' = [readers EXCEPT ![f] = readers[f] + 1]
        /\ UNCHANGED hasWriter
    BY <1>4 DEF Enters, ReaderEnters
  <2>2. /\ ReadersOf(f)' = ReadersOf(f) \cup {c}
        /\ WritersOf(f)' = WritersOf(f) \ {c}
    BY <2>1, SetSessionHolders DEF Sessions
  <2>3. Cardinality(ReadersOf(f) \cup {c}) <= readers[f] + 1
    <3>. DEFINE R == ReadersOf(f)
    <3>1. IsFiniteSet(R) /\ Cardinality(R) \in Nat
      BY ReadersFinite
    <3>2. Cardinality(R \cup {c}) \in {Cardinality(R), Cardinality(R) + 1}
      <4>. HIDE DEF R
      <4>. QED
        BY <3>1, FS_AddElement
    <3>3. Cardinality(R) <= readers[f]
      BY <1>2 DEF FileInv
    <3>. QED
      BY <1>2, <3>1, <3>2, <3>3
  <2>4. FileInv(f)'
    BY <1>1, <2>1, <2>2, <2>3 DEF FileInv, Types
  <2>5. \A g \in Files \ {f} : sessions'[g] = sessions[g] /\ readers'[g] = readers[g]
    BY <2>1 DEF SetSession, Types
  <2>. QED
    BY <2>1, <2>4, <2>5, TableAtFile
<1>5. CASE granted /\ m # "read"
  <2>1. PICK kind \in {"writer", "closed"} : SetSession(c, f, kind)
    BY <1>5 DEF Enters, WriterEnters
  <2>2. hasWriter' = [hasWriter EXCEPT ![f] = TRUE] /\ UNCHANGED readers
    BY <1>5 DEF Enters, WriterEnters
  <2>3. ReadersOf(f) = {}
    <3>1. Cardinality(ReadersOf(f)) = 0
      BY <1>2, <1>5, ReadersFinite DEF Admitted, FileInv
    <3>. QED
      BY <3>1, ReadersFinite, FS_EmptySet
  <2>4. WritersOf(f)' = {c} /\ ReadersOf(f)' = {}
    BY <1>1, <2>1, <2>3, SetSessionHolders DEF Sessions
  <2>5. FileInv(f)'
    BY <1>2, <2>2, <2>3, <2>4 DEF FileInv, Types
  <2>6. \A g \in Files \ {f} : sessions'[g] = sessions[g] /\ hasWriter'[g] = hasWriter[g]
    BY <2>1, <2>2 DEF SetSession, Types
  <2>. QED
    BY <2>2, <2>5, <2>6, TableAtFile
<1>. QED
  BY <1>3, <1>4, <1>5

(* When a client is no reader any more, the count still covers the others. *)
LEMMA ReadersOfOthers ==
  ASSUME Types, TableInv, NEW f \in Files, NEW c \in Clients
  PROVE  Cardinality(ReadersOf(f) \ {c}) <= readers[f]
<1>1. /\ IsFiniteSet(ReadersOf(f))
      /\ Cardinality(ReadersOf(f)) \in Nat
  BY ReadersFinite
<1>3. Cardinality(ReadersOf(f) \ {c}) <= Cardinality(ReadersOf(f))
  BY <1>1, FS_Subset
<1>2. Cardinality(ReadersOf(f)) <= readers[f] /\ readers[f] \in Nat
  BY DEF TableInv, CountsCoverSessions, Types
<1>4. Cardinality(ReadersOf(f) \ {c}) \in Nat
  BY <1>1, FS_Subset, FS_CardinalityType
<1>. QED
  BY <1>1, <1>2, <1>3, <1>4

-----------------------------------------------------------------------------
(* The handles.                                                            *)

(* A step that neither opens a handle nor removes a file leaves every open *)
(* handle a file.                                                          *)
LEMMA HandlesUnchanged ==
  ASSUME HandlesHaveFiles,
         \A f \in Files : Exists(f) => Exists(f)',
         \A f \in Files, c \in Clients :
           sessions'[f][c] \in {sessions[f][c], "none", "closed"}
  PROVE  HandlesHaveFiles'
BY DEF HandlesHaveFiles

(* Whoever enters with an open handle found, or made, the file.            *)
LEMMA EntersHandles ==
  ASSUME Types, HandlesHaveFiles, NEW c \in Clients, NEW f \in Files,
         NEW m \in Modes, NEW granted \in BOOLEAN, Enters(c, f, m, granted)
  PROVE  HandlesHaveFiles'
<1>1. \A g \in Files : Exists(g) => Exists(g)'
  BY EmptyFile DEF Enters, ReaderEnters, WriterEnters, Exists, Types
<1>2. CASE UNCHANGED sessions
  BY <1>1, <1>2, HandlesUnchanged
<1>3. ASSUME NEW kind \in Sessions, SetSession(c, f, kind),
             kind \in {"reader", "writer"} => Exists(f)'
      PROVE  HandlesHaveFiles'
  BY <1>1, <1>3, SetSessionEffect DEF HandlesHaveFiles
<1>4. CASE granted /\ m = "read"
  <2>1. SetSession(c, f, "reader") /\ Exists(f)
    BY <1>4 DEF Enters, ReaderEnters
  <2>. QED
    BY <1>1, <1>3, <2>1 DEF Sessions
<1>5. CASE granted /\ m # "read"
  <2>1. PICK kind \in {"writer", "closed"} :
          /\ kind = "writer" => m = "create" \/ Exists(f)
          /\ SetSession(c, f, kind)
    BY <1>5 DEF Enters, WriterEnters
  <2>2. m = "create" => Exists(f)'
    BY <1>5, EmptyFile DEF Enters, WriterEnters, Exists, Types
  <2>. QED
    BY <1>1, <1>3, <2>1, <2>2 DEF Sessions
<1>. QED
  BY <1>2, <1>4, <1>5 DEF Enters, ReaderEnters, WriterEnters

-----------------------------------------------------------------------------
(* One lemma for each action: it keeps the inductive invariant.            *)

(* A call that finds the file free: whoever Admitted lets in is entered in *)
(* the table, or refused without a trace in it.                            *)
LEMMA AcquireAtOnceInv ==
  ASSUME IInv, NEW t \in Threads, NEW c \in Clients, NEW f \in Files,
         NEW m \in Modes, NEW granted \in BOOLEAN,
         AcquireAtOnce(t, c, f, m, granted)
  PROVE  IInv'
<1>1. Types /\ QueueInv /\ TableInv /\ HandlesHaveFiles
  BY DEF IInv
<1>2. Enters(c, f, m, granted) /\ Admitted(f, m)
  BY DEF AcquireAtOnce
<1>3. Types'
  BY <1>1, <1>2, EntersType DEF AcquireAtOnce, Types
<1>4. QueueInv'
  BY <1>1, QueueUnchanged DEF AcquireAtOnce
<1>5. TableInv'
  BY <1>1, <1>2, EntersTable DEF AcquireAtOnce
<1>6. HandlesHaveFiles'
  BY <1>1, <1>2, EntersHandles
<1>. QED
  BY <1>3, <1>4, <1>5, <1>6 DEF IInv

(* A call that has to wait: one more waiting thread, and one more pending  *)
(* writer if it is to write.                                               *)
LEMMA AcquireWaitsInv ==
  ASSUME IInv, NEW t \in Threads, NEW c \in Clients, NEW f \in Files,
         NEW m \in Modes, AcquireWaits(t, c, f, m)
  PROVE  IInv'
<1>1. Types /\ QueueInv /\ TableInv /\ HandlesHaveFiles
  BY DEF IInv
<1>2. Types'
  BY <1>1 DEF AcquireWaits, Types, Calls, ThreadStates
<1>3. WaitersHaveLocks'
  BY <1>1 DEF AcquireWaits, QueueInv, WaitersHaveLocks, Types, Calls
<1>4. PendingWritersCounted'
  <2>1. \A g \in Files : g # f \/ m = "read" => WaitingWriters(g)' = WaitingWriters(g)
    BY <1>1 DEF AcquireWaits, WaitingWriters, At, Types
  <2>2. m # "read" => /\ WaitingWriters(f)' = WaitingWriters(f) \cup {t}
                      /\ t \notin WaitingWriters(f)
    BY <1>1 DEF AcquireWaits, WaitingWriters, At, Types
  <2>3. m # "read" =>
          Cardinality(WaitingWriters(f)') = Cardinality(WaitingWriters(f)) + 1
    BY <2>2, WaitingFinite, FS_AddElement
  <2>. QED
    BY <1>1, <2>1, <2>3 DEF AcquireWaits, QueueInv, PendingWritersCounted, Types
<1>5. TableInv'
  BY <1>1, TableUnchanged DEF AcquireWaits
<1>6. HandlesHaveFiles'
  BY <1>1, HandlesUnchanged DEF AcquireWaits, Exists
<1>. QED
  BY <1>2, <1>3, <1>4, <1>5, <1>6 DEF IInv, QueueInv

(* A thread that is admitted after its wait leaves the queue, and comes    *)
(* out of pending_writers whether its file opens or not.                   *)
LEMMA WakesUpInv ==
  ASSUME IInv, NEW t \in Threads, NEW granted \in BOOLEAN, WakesUp(t, granted)
  PROVE  IInv'
<1>1. Types /\ QueueInv /\ TableInv /\ HandlesHaveFiles
  BY DEF IInv
<1>. PICK c \in Clients, f \in Files, m \in Modes :
       call[t] = [client |-> c, file |-> f, mode |-> m]
  BY <1>1 DEF WakesUp, QueueInv, WaitersHaveLocks, Calls
<1>2. f \in fileLocks /\ pc[t] = "ready"
  BY <1>1 DEF WakesUp, QueueInv, WaitersHaveLocks
<1>3. Enters(c, f, m, granted) /\ Admitted(f, m)
  BY DEF WakesUp
<1>4. m # "read" =>
        /\ WaitingWriters(f)' = WaitingWriters(f) \ {t}
        /\ t \in WaitingWriters(f)
  BY <1>1, <1>2 DEF WakesUp, WaitingWriters, At, Types
<1>5. m # "read" =>
        /\ Cardinality(WaitingWriters(f)') = Cardinality(WaitingWriters(f)) - 1
        /\ Cardinality(WaitingWriters(f)') \in Nat
  <2>1. Cardinality(WaitingWriters(f) \ {t}) \in Nat
    BY <1>2, WaitingFinite, FS_RemoveElement, FS_CardinalityType
  <2>2. Cardinality(WaitingWriters(f)) \in Nat /\ IsFiniteSet(WaitingWriters(f))
    BY <1>2, WaitingFinite
  <2>3. t \in WaitingWriters(f) =>
          Cardinality(WaitingWriters(f) \ {t}) = Cardinality(WaitingWriters(f)) - 1
    BY <2>2, FS_RemoveElement
  <2>. QED
    BY <1>4, <2>1, <2>3
<1>6. /\ pendingWriters' \in [Files -> Nat]
      /\ \A g \in Files : pendingWriters'[g] =
           IF g = f /\ m # "read" THEN pendingWriters[g] - 1 ELSE pendingWriters[g]
  <2>1. pendingWriters \in [Files -> Nat]
    BY <1>1 DEF Types
  <2>2. pendingWriters' = [pendingWriters EXCEPT ![f] =
                             IF m = "read" THEN pendingWriters[f] ELSE pendingWriters[f] - 1]
    BY DEF WakesUp
  <2>3. m # "read" => pendingWriters[f] - 1 \in Nat
    BY <1>1, <1>2, <1>4, <1>5, WaitingFinite DEF QueueInv, PendingWritersCounted
  <2>. QED
    BY <1>2, <2>1, <2>2, <2>3
<1>7. Types'
  <2>1. /\ readers' \in [Files -> 0..MaxReaders]
        /\ hasWriter' \in [Files -> BOOLEAN]
        /\ sessions' \in [Files -> [Clients -> Sessions]]
        /\ disk' \in [Files -> Seq(Chunks) \cup {NoFile}]
    BY <1>1, <1>2, <1>3, EntersType
  <2>. QED
    BY <1>1, <1>6, <2>1 DEF WakesUp, Types, ThreadStates
<1>8. WaitersHaveLocks'
  BY <1>1 DEF WakesUp, QueueInv, WaitersHaveLocks, Types
<1>9. PendingWritersCounted'
  <2>1. \A g \in Files : g # f \/ m = "read" => WaitingWriters(g)' = WaitingWriters(g)
    BY <1>1, <1>2 DEF WakesUp, WaitingWriters, At, Types
  <2>. QED
    BY <1>1, <1>2, <1>5, <1>6, <2>1 DEF QueueInv, PendingWritersCounted
<1>10. TableInv'
  <2>1. fileLocks' = fileLocks \cup {f}
    BY <1>2 DEF WakesUp
  <2>. QED
    BY <1>1, <1>2, <1>3, <2>1, EntersTable
<1>11. HandlesHaveFiles'
  BY <1>1, <1>3, EntersHandles
<1>. QED
  BY <1>7, <1>8, <1>9, <1>10, <1>11 DEF IInv, QueueInv

(* A thread that is not admitted goes on waiting and changes nothing else. *)
LEMMA WaitsAgainInv ==
  ASSUME IInv, NEW t \in Threads, WaitsAgain(t) \/ SpuriousWakeup(t)
  PROVE  IInv'
<1>1. Types /\ QueueInv /\ TableInv /\ HandlesHaveFiles
  BY DEF IInv
<1>2. /\ UNCHANGED <<lockVars, disk, call>>
      /\ \/ pc[t] = "ready" /\ pc' = [pc EXCEPT ![t] = "waiting"]
         \/ pc[t] = "waiting" /\ pc' = [pc EXCEPT ![t] = "ready"]
  BY DEF WaitsAgain, SpuriousWakeup
<1>3. Types'
  BY <1>1, <1>2 DEF Types, ThreadStates, lockVars
<1>4. QueueInv'
  BY <1>1, <1>2, QueueUnchanged DEF Types, lockVars
<1>5. TableInv'
  BY <1>1, <1>2, TableUnchanged DEF lockVars
<1>6. HandlesHaveFiles'
  BY <1>1, <1>2, HandlesUnchanged DEF lockVars, Exists
<1>. QED
  BY <1>3, <1>4, <1>5, <1>6 DEF IInv

(* ReleaseWriteLock resets has_writer for any session it erases: when that *)
(* was a reader's, there was no writer, and the flag covers none.          *)
LEMMA ReleaseWriteLockInv ==
  ASSUME IInv, NEW c \in Clients, NEW f \in Files, ReleaseWriteLock(c, f)
  PROVE  IInv'
<1>1. Types /\ QueueInv /\ TableInv /\ HandlesHaveFiles
  BY DEF IInv
<1>2. CASE ~(f \in fileLocks /\ sessions[f][c] # "none")
  <2>1. UNCHANGED vars
    BY <1>2 DEF ReleaseWriteLock, vars, lockVars
  <2>. QED
    BY <1>1, <2>1, QueueUnchanged, TableUnchanged, HandlesUnchanged
       DEF IInv, Types, Exists, vars, lockVars
<1>3. CASE f \in fileLocks /\ sessions[f][c] # "none"
  <2>1. /\ SetSession(c, f, "none") /\ NotifyAll(f)
        /\ hasWriter' = [hasWriter EXCEPT ![f] = FALSE]
        /\ UNCHANGED <<fileLocks, readers, pendingWriters, disk, call>>
    BY <1>3 DEF ReleaseWriteLock
  <2>2. /\ ReadersOf(f)' = ReadersOf(f) \ {c}
        /\ WritersOf(f)' = WritersOf(f) \ {c}
        /\ sessions' \in [Files -> [Clients -> Sessions]]
    BY <1>1, <2>1, SetSessionHolders, SetSessionEffect DEF Sessions
  <2>3. Types' /\ QueueInv'
    BY <1>1, <2>1, <2>2, NotifyAllEffect, QueueUnchanged DEF Types
  <2>4. WritersOf(f)' = {}
    <3>1. sessions[f][c] \in {"reader", "writer", "closed"}
      BY <1>1, <1>3 DEF Types, Sessions
    <3>2. c \in ReadersOf(f) \cup WritersOf(f)
      BY <3>1 DEF ReadersOf, WritersOf
    <3>. QED
      BY <1>1, <2>2, <3>2 DEF TableInv, MutualExclusion
  <2>5. Cardinality(ReadersOf(f) \ {c}) <= readers[f]
    BY <1>1, ReadersOfOthers
  <2>6. FileInv(f)'
    BY <2>1, <2>2, <2>4, <2>5 DEF FileInv
  <2>7. \A g \in Files \ {f} : sessions'[g] = sessions[g] /\ hasWriter'[g] = hasWriter[g]
    BY <1>1, <2>1 DEF SetSession, Types
  <2>8. TableInv'
    BY <1>1, <1>3, <2>1, <2>6, <2>7, TableAtFile
  <2>9. HandlesHaveFiles'
    BY <1>1, <2>1, SetSessionEffect, HandlesUnchanged DEF Sessions, Exists
  <2>. QED
    BY <2>3, <2>8, <2>9 DEF IInv
<1>. QED
  BY <1>2, <1>3

(* ReleaseReadLock counts down for any session it erases: a reader's was   *)
(* counted, and a writer's leaves a counter that covers no reader.         *)
LEMMA ReleaseReadLockInv ==
  ASSUME IInv, NEW c \in Clients, NEW f \in Files, ReleaseReadLock(c, f)
  PROVE  IInv'
<1>1. Types /\ QueueInv /\ TableInv /\ HandlesHaveFiles
  BY DEF IInv
<1>2. CASE ~(f \in fileLocks /\ sessions[f][c] # "none")
  <2>1. UNCHANGED vars
    BY <1>2 DEF ReleaseReadLock, vars, lockVars
  <2>. QED
    BY <1>1, <2>1, QueueUnchanged, TableUnchanged, HandlesUnchanged
       DEF IInv, Types, Exists, vars, lockVars
<1>3. CASE f \in fileLocks /\ sessions[f][c] # "none"
  <2>. DEFINE n == IF readers[f] = 0 THEN MaxReaders ELSE readers[f] - 1
  <2>1. /\ SetSession(c, f, "none")
        /\ readers' = [readers EXCEPT ![f] = n]
        /\ UNCHANGED <<fileLocks, pendingWriters, hasWriter, disk, call>>
        /\ NotifyAll(f) \/ UNCHANGED pc
    BY <1>3 DEF ReleaseReadLock
  <2>2. /\ ReadersOf(f)' = ReadersOf(f) \ {c}
        /\ WritersOf(f)' = WritersOf(f) \ {c}
        /\ sessions' \in [Files -> [Clients -> Sessions]]
    BY <1>1, <2>1, SetSessionHolders, SetSessionEffect DEF Sessions
  <2>3. readers[f] \in 0..MaxReaders /\ MaxReaders \in Nat
    BY <1>1, CountAssumption DEF Types
  <2>4. n \in 0..MaxReaders
    BY <2>3
  <2>5. readers' \in [Files -> 0..MaxReaders] /\ readers'[f] = n
    BY <1>1, <2>1, <2>4 DEF Types
  <2>6. Types'
    BY <1>1, <2>1, <2>2, <2>5, NotifyAllEffect DEF Types
  <2>7. QueueInv'
    BY <1>1, <2>1, NotifyAllEffect, QueueUnchanged
  <2>8. FileInv(f)'
    <3>1. sessions[f][c] \in {"reader", "writer", "closed"}
      BY <1>1, <1>3 DEF Types, Sessions
    <3>2. Cardinality(ReadersOf(f) \ {c}) <= n
      <4>1. CASE c \in ReadersOf(f)
        <5>1. /\ Cardinality(ReadersOf(f)) \in Nat
              /\ Cardinality(ReadersOf(f) \ {c}) = Cardinality(ReadersOf(f)) - 1
              /\ Cardinality(ReadersOf(f) \ {c}) \in Nat
          BY <4>1, ReadersFinite, FS_RemoveElement, FS_CardinalityType
        <5>2. Cardinality(ReadersOf(f)) <= readers[f]
          BY <1>1 DEF TableInv, CountsCoverSessions
        <5>. QED
          BY <2>3, <5>1, <5>2
      <4>2. CASE c \notin ReadersOf(f)
        <5>1. c \in WritersOf(f)
          BY <3>1, <4>2 DEF ReadersOf, WritersOf
        <5>2. ReadersOf(f) = {}
          BY <1>1, <4>2, <5>1 DEF TableInv, MutualExclusion
        <5>3. Cardinality(ReadersOf(f) \ {c}) = 0
          BY <5>2, FS_EmptySet
        <5>. QED
          BY <2>4, <5>3
      <4>. QED
        BY <4>1, <4>2
    <3>3. WritersOf(f)' # {} => hasWriter[f]
      BY <1>1, <2>2 DEF TableInv, CountsCoverSessions
    <3>4. \A d \in WritersOf(f)' : WritersOf(f)' \cup ReadersOf(f)' = {d}
      BY <1>1, <2>2 DEF TableInv, MutualExclusion
    <3>. QED
      BY <2>1, <2>2, <2>5, <3>2, <3>3, <3>4 DEF FileInv
  <2>9. \A g \in Files \ {f} : sessions'[g] = sessions[g] /\ readers'[g] = readers[g]
    BY <1>1, <2>1 DEF SetSession, Types
  <2>10. TableInv'
    BY <1>1, <1>3, <2>1, <2>8, <2>9, TableAtFile
  <2>11. HandlesHaveFiles'
    BY <1>1, <2>1, SetSessionEffect, HandlesUnchanged DEF Sessions, Exists
  <2>. QED
    BY <2>6, <2>7, <2>10, <2>11 DEF IInv
<1>. QED
  BY <1>2, <1>3

(* WriteFile changes the contents, or closes the handle of a session that  *)
(* stays a writer's.                                                       *)
LEMMA WriteFileInv ==
  ASSUME IInv, NEW c \in Clients, NEW f \in Files, NEW i \in 1..MaxChunks,
         NEW v \in Chunks, NEW written \in BOOLEAN,
         WriteFile(c, f, i, v, written)
  PROVE  IInv'
<1>1. Types /\ QueueInv /\ TableInv /\ HandlesHaveFiles
  BY DEF IInv
<1>2. UNCHANGED <<fileLocks, readers, pendingWriters, hasWriter, pc, call>>
  BY DEF WriteFile
<1>3. QueueInv'
  BY <1>1, <1>2, QueueUnchanged
<1>4. CASE UNCHANGED <<sessions, disk>>
  BY <1>1, <1>2, <1>3, <1>4, TableUnchanged, HandlesUnchanged DEF IInv, Types, Exists
<1>5. CASE written
  <2>1. Exists(f)
    BY <1>1, <1>5 DEF WriteFile, HandlesHaveFiles
  <2>2. disk[f] \in Seq(Chunks) /\ i \in Nat \ {0}
    BY <1>1, <2>1, CountAssumption DEF Exists, Types
  <2>3. WriteAt(disk[f], i, v) \in Seq(Chunks)
    BY <2>2, WriteAtType
  <2>4. UNCHANGED sessions /\ disk' = [disk EXCEPT ![f] = WriteAt(disk[f], i, v)]
    BY <1>5 DEF WriteFile
  <2>5. Types'
    BY <1>1, <1>2, <2>3, <2>4 DEF Types
  <2>6. HandlesHaveFiles'
    <3>1. \A g \in Files : Exists(g) => Exists(g)'
      BY <1>1, <2>3, <2>4, ChunksAssumption DEF Exists, Types
    <3>. QED
      BY <1>1, <2>4, <3>1, HandlesUnchanged
  <2>. QED
    BY <1>1, <1>2, <1>3, <2>4, <2>5, <2>6, TableUnchanged DEF IInv
<1>6. CASE ~written /\ sessions[f][c] = "writer"
  <2>1. SetSession(c, f, "closed") /\ WritesInPart(f, i)
    BY <1>6 DEF WriteFile
  <2>2. c \in WritersOf(f)
    BY <1>6 DEF WritersOf
  <2>3. WritersOf(f)' = WritersOf(f) /\ ReadersOf(f)' = ReadersOf(f)
    <3>1. c \notin ReadersOf(f)
      BY <1>6 DEF ReadersOf
    <3>. QED
      BY <1>1, <2>1, <2>2, <3>1, SetSessionHolders DEF Sessions
  <2>4. FileInv(f)'
    BY <1>1, <1>2, <2>3, TableByFile DEF FileInv
  <2>5. f \in fileLocks
    BY <1>1, <1>6 DEF TableInv, NewLocksAreFree
  <2>6. TableInv'
    BY <1>1, <1>2, <2>1, <2>4, <2>5, TableAtFile DEF SetSession, Types
  <2>7. /\ disk' \in [Files -> Seq(Chunks) \cup {NoFile}]
        /\ \A g \in Files : Exists(g) => Exists(g)'
    <3>1. disk[f] \in Seq(Chunks) /\ i \in Nat \ {0}
      BY <1>1, <1>6, CountAssumption DEF HandlesHaveFiles, Exists, Types
    <3>2. CASE UNCHANGED disk
      BY <1>1, <3>2 DEF Types, Exists
    <3>3. ASSUME NEW part \in Chunks, disk' = [disk EXCEPT ![f] = WriteAt(disk[f], i, part)]
          PROVE  /\ disk' \in [Files -> Seq(Chunks) \cup {NoFile}]
                 /\ \A g \in Files : Exists(g) => Exists(g)'
      <4>1. WriteAt(disk[f], i, part) \in Seq(Chunks)
        BY <3>1, WriteAtType
      <4>. QED
        BY <1>1, <3>3, <4>1, ChunksAssumption DEF Types, Exists
    <3>. QED
      BY <2>1, <3>2, <3>3 DEF WritesInPart
  <2>8. Types'
    BY <1>1, <1>2, <2>1, <2>7, SetSessionEffect DEF Types, Sessions
  <2>9. HandlesHaveFiles'
    BY <1>1, <2>1, <2>7, SetSessionEffect, HandlesUnchanged DEF Sessions
  <2>. QED
    BY <1>3, <2>6, <2>8, <2>9 DEF IInv
<1>7. CASE ~written /\ sessions[f][c] # "writer"
  BY <1>4, <1>7 DEF WriteFile
<1>. QED
  BY <1>5, <1>6, <1>7

(* The two ways RemoveFile can take the FileLock away.                     *)
LEMMA EraseLockInv ==
  ASSUME IInv, NEW f \in Files, EraseLock(f), UNCHANGED call,
         disk' \in [Files -> Seq(Chunks) \cup {NoFile}],
         \A g \in Files \ {f} : disk'[g] = disk[g],
         pc' \in [Threads -> ThreadStates],
         \A t \in Threads :
           \/ pc'[t] = Orphaned(f)[t]
           \/ pc[t] = "idle" /\ pc'[t] = "destroying"
  PROVE  IInv'
<1>1. Types /\ QueueInv /\ TableInv /\ HandlesHaveFiles
  BY DEF IInv
<1>2. /\ fileLocks' = fileLocks \ {f}
      /\ readers' = [readers EXCEPT ![f] = 0]
      /\ pendingWriters' = [pendingWriters EXCEPT ![f] = 0]
      /\ hasWriter' = [hasWriter EXCEPT ![f] = FALSE]
      /\ ClearSessions(f)
  BY DEF EraseLock
<1>3. Types'
  BY <1>1, <1>2, ClearSessionsEffect, CountAssumption DEF Types
<1>4. \A t \in Threads :
        /\ At(t, f, {"waiting", "ready"}) => pc'[t] = "orphaned"
        /\ ~At(t, f, {"waiting", "ready"}) =>
             \/ pc'[t] = pc[t]
             \/ pc[t] = "idle" /\ pc'[t] = "destroying"
  BY DEF Orphaned, At
<1>5. WaitersHaveLocks'
  BY <1>1, <1>2, <1>4 DEF QueueInv, WaitersHaveLocks, At
<1>6. PendingWritersCounted'
  <2>1. WaitingWriters(f)' = {}
    BY <1>4 DEF WaitingWriters, At
  <2>2. \A g \in Files \ {f} : WaitingWriters(g)' = WaitingWriters(g)
    BY <1>4 DEF WaitingWriters, At
  <2>. QED
    BY <1>1, <1>2, <2>1, <2>2, FS_EmptySet DEF QueueInv, PendingWritersCounted, Types
<1>7. TableInv'
  <2>1. readers'[f] = 0 /\ ~hasWriter'[f]
    BY <1>1, <1>2 DEF Types
  <2>2. FileInv(f)'
    BY <1>1, <1>2, <2>1, ClearSessionsEffect, NobodyHolds
  <2>. QED
    BY <1>1, <1>2, <2>1, <2>2, ClearSessionsEffect, TableAtFile DEF Types
<1>8. HandlesHaveFiles'
  BY <1>1, <1>2, ClearSessionsEffect DEF HandlesHaveFiles, Exists
<1>. QED
  BY <1>3, <1>5, <1>6, <1>7, <1>8 DEF IInv, QueueInv

(* RemoveFile refuses, or clears the sessions of the file, or takes its    *)
(* FileLock away and orphans the threads that wait on it.                  *)
LEMMA RemoveFileInv ==
  ASSUME IInv, NEW t \in Threads, NEW c \in Clients, NEW f \in Files,
         NEW status \in FileStatus, RemoveFile(t, c, f, status)
  PROVE  IInv'
<1>1. Types /\ QueueInv /\ TableInv /\ HandlesHaveFiles
  BY DEF IInv
<1>2. CASE status = "FILE_LOCKED"
  <2>1. UNCHANGED vars
    BY <1>2 DEF RemoveFile, vars, FileStatus
  <2>. QED
    BY <1>1, <2>1, QueueUnchanged, TableUnchanged, HandlesUnchanged
       DEF IInv, Types, Exists, vars, lockVars
<1>3. CASE status = "FILE_NOT_FOUND"
  <2>1. /\ ClearSessions(f) /\ MayRemove(c, f)
        /\ UNCHANGED <<fileLocks, readers, pendingWriters, hasWriter, disk, pc, call>>
    BY <1>3 DEF RemoveFile
  <2>2. Types' /\ QueueInv'
    BY <1>1, <2>1, ClearSessionsEffect, QueueUnchanged DEF Types
  <2>3. readers[f] \in Nat
    BY <1>1 DEF Types
  <2>4. FileInv(f)'
    BY <1>1, <2>1, <2>3, ClearSessionsEffect, NobodyHolds
  <2>5. TableInv'
    BY <1>1, <2>1, <2>4, ClearSessionsEffect, TableAtFile DEF MayRemove
  <2>6. HandlesHaveFiles'
    BY <1>1, <2>1, ClearSessionsEffect DEF HandlesHaveFiles, Exists
  <2>. QED
    BY <2>2, <2>5, <2>6 DEF IInv
<1>4. CASE status \in {"FILE_OK", "FILE_ERROR"}
  <2>1. /\ EraseLock(f) /\ UNCHANGED call /\ pc' = Orphaned(f)
        /\ disk' = IF status = "FILE_OK" THEN [disk EXCEPT ![f] = NoFile] ELSE disk
    BY <1>4 DEF RemoveFile
  <2>2. /\ disk' \in [Files -> Seq(Chunks) \cup {NoFile}]
        /\ \A g \in Files \ {f} : disk'[g] = disk[g]
    BY <1>1, <2>1 DEF Types
  <2>3. pc' \in [Threads -> ThreadStates]
    BY <1>1, <2>1 DEF Types, Orphaned, ThreadStates
  <2>. QED
    BY <2>1, <2>2, <2>3, EraseLockInv
<1>. QED
  BY <1>2, <1>3, <1>4 DEF FileStatus

(* The same when the destructor of the condition variable never returns.   *)
LEMMA RemoveFileHangsInv ==
  ASSUME IInv, NEW t \in Threads, NEW c \in Clients, NEW f \in Files,
         RemoveFileHangs(t, c, f)
  PROVE  IInv'
<1>1. Types
  BY DEF IInv
<1>2. /\ EraseLock(f) /\ UNCHANGED call /\ pc[t] = "idle"
      /\ pc' = [Orphaned(f) EXCEPT ![t] = "destroying"]
      /\ disk' = [disk EXCEPT ![f] = NoFile] \/ UNCHANGED disk
  BY DEF RemoveFileHangs
<1>3. /\ disk' \in [Files -> Seq(Chunks) \cup {NoFile}]
      /\ \A g \in Files \ {f} : disk'[g] = disk[g]
  BY <1>1, <1>2 DEF Types
<1>4. Orphaned(f) \in [Threads -> ThreadStates]
  BY <1>1 DEF Types, Orphaned, ThreadStates
<1>5. /\ pc' \in [Threads -> ThreadStates]
      /\ \A u \in Threads : pc'[u] = IF u = t THEN "destroying" ELSE Orphaned(f)[u]
  BY <1>2, <1>4 DEF ThreadStates
<1>. QED
  BY <1>2, <1>3, <1>5, EraseLockInv

(* A thread that comes back from a destroyed FileLock can make a file, and *)
(* touches no entry of the table.                                          *)
LEMMA OrphanReturnsInv ==
  ASSUME IInv, NEW t \in Threads, OrphanReturns(t)
  PROVE  IInv'
<1>1. Types /\ QueueInv /\ TableInv /\ HandlesHaveFiles
  BY DEF IInv
<1>. PICK f \in Files : call[t].file = f
  BY <1>1 DEF OrphanReturns, QueueInv, WaitersHaveLocks, Calls
<1>2. /\ disk' = disk \/ disk' = [disk EXCEPT ![f] = <<>>]
      /\ pc[t] = "orphaned"
      /\ pc' = [pc EXCEPT ![t] = "idle"]
      /\ call' = [call EXCEPT ![t] = NoCall]
      /\ UNCHANGED <<fileLocks, readers, pendingWriters, hasWriter, sessions>>
  BY DEF OrphanReturns, lockVars
<1>3. disk' \in [Files -> Seq(Chunks) \cup {NoFile}]
  <2>1. <<>> \in Seq(Chunks)
    OBVIOUS
  <2>. QED
    BY <1>1, <1>2, <2>1 DEF Types
<1>4. Types'
  BY <1>1, <1>2, <1>3 DEF Types, ThreadStates
<1>5. WaitersHaveLocks'
  BY <1>1, <1>2 DEF QueueInv, WaitersHaveLocks, Types
<1>6. PendingWritersCounted'
  <2>1. \A g \in Files : WaitingWriters(g)' = WaitingWriters(g)
    BY <1>1, <1>2 DEF WaitingWriters, At, Types
  <2>. QED
    BY <1>1, <1>2, <2>1 DEF QueueInv, PendingWritersCounted
<1>7. HandlesHaveFiles'
  <2>1. \A g \in Files : Exists(g) => Exists(g)'
    BY <1>1, <1>2, EmptyFile DEF Exists, Types
  <2>. QED
    BY <1>1, <1>2, <2>1, HandlesUnchanged
<1>. QED
  BY <1>1, <1>2, <1>4, <1>5, <1>6, <1>7, TableUnchanged DEF IInv, QueueInv

-----------------------------------------------------------------------------
(* The theorems.                                                           *)

(* At the start the table is empty and nobody waits.                       *)
LEMMA InitInv == Init => IInv
<1>. SUFFICES ASSUME Init PROVE IInv
  OBVIOUS
<1>1. Types
  <2>1. disk \in [Files -> Seq(Chunks) \cup {NoFile}]
    BY EmptyFile DEF Init
  <2>2. 0 \in 0..MaxReaders /\ 0 \in Nat
    BY CountAssumption
  <2>3. sessions \in [Files -> [Clients -> Sessions]]
    BY DEF Init, Sessions
  <2>. QED
    BY <2>1, <2>2, <2>3 DEF Init, Types, ThreadStates
<1>2. WaitersHaveLocks /\ NewLocksAreFree /\ HandlesHaveFiles
  BY DEF Init, WaitersHaveLocks, NewLocksAreFree, HandlesHaveFiles
<1>3. PendingWritersCounted
  <2>1. \A f \in Files : WaitingWriters(f) = {}
    BY DEF Init, WaitingWriters, At
  <2>. QED
    BY <2>1, FS_EmptySet DEF Init, PendingWritersCounted
<1>4. \A f \in Files : ReadersOf(f) = {} /\ WritersOf(f) = {}
  BY DEF Init, ReadersOf, WritersOf
<1>5. MutualExclusion
  BY <1>4 DEF MutualExclusion
<1>6. CountsCoverSessions
  <2>1. Cardinality({}) = 0
    BY FS_EmptySet
  <2>2. ASSUME NEW f \in Files
        PROVE  Cardinality(ReadersOf(f)) <= readers[f]
    <3>1. Cardinality(ReadersOf(f)) = 0
      BY <1>4, <2>1
    <3>2. readers[f] = 0
      BY DEF Init
    <3>. QED
      BY <3>1, <3>2
  <2>. QED
    BY <1>4, <2>2 DEF CountsCoverSessions
<1>. QED
  BY <1>1, <1>2, <1>3, <1>5, <1>6 DEF IInv, QueueInv, TableInv

(* Every step keeps the inductive invariant.                               *)
LEMMA NextInv == IInv /\ [Next]_vars => IInv'
<1>. SUFFICES ASSUME IInv, [Next]_vars PROVE IInv'
  OBVIOUS
<1>1. CASE UNCHANGED vars
  <2>1. Types /\ QueueInv /\ TableInv /\ HandlesHaveFiles
    BY DEF IInv
  <2>. QED
    BY <1>1, <2>1, QueueUnchanged, TableUnchanged, HandlesUnchanged
       DEF IInv, Types, Exists, vars, lockVars
<1>2. ASSUME NEW t \in Threads, ThreadStep(t)
      PROVE  IInv'
  BY <1>2, WaitsAgainInv, OrphanReturnsInv, WakesUpInv DEF ThreadStep
<1>3. ASSUME NEW t \in Threads, NEW c \in Clients, NEW f \in Files, Call(t, c, f)
      PROVE  IInv'
  BY <1>3, AcquireWaitsInv, AcquireAtOnceInv, RemoveFileInv, RemoveFileHangsInv,
     ReleaseWriteLockInv, ReleaseReadLockInv, WriteFileInv DEF Call
<1>. QED
  BY <1>1, <1>2, <1>3 DEF Next

(* Everything reachable is accounted for: the inductive invariant of the   *)
(* lock table, from which the theorems below follow.                       *)
THEOREM Invariance == Spec => []IInv
BY InitInv, NextInv, PTL DEF Spec

(* The variables have their types: readers stays within the width of its   *)
(* counter and pending_writers never goes below zero; the threads that     *)
(* wait do so on a FileLock of the table.                                  *)
THEOREM TypeCorrectness == Spec => []TypeOK
<1>1. IInv => TypeOK
  BY DEF IInv, QueueInv, TableInv, TypeOK
<1>. QED
  BY <1>1, Invariance, PTL

(* No two clients hold a file that only one may hold, whatever they        *)
(* release, acquire again or fail to remove.                               *)
THEOREM Exclusion == Spec => []MutualExclusion
<1>1. IInv => MutualExclusion
  BY DEF IInv, TableInv
<1>. QED
  BY <1>1, Invariance, PTL

(* Every session is accounted for by has_writer or by readers.             *)
THEOREM Accounting == Spec => []CountsCoverSessions
<1>1. IInv => CountsCoverSessions
  BY DEF IInv, TableInv
<1>. QED
  BY <1>1, Invariance, PTL

(* pending_writers is the number of threads that wait to write.            *)
THEOREM PendingWriters == Spec => []PendingWritersCounted
<1>1. IInv => PendingWritersCounted
  BY DEF IInv, QueueInv
<1>. QED
  BY <1>1, Invariance, PTL

(* An open handle has a file under it.                                     *)
THEOREM OpenHandles == Spec => []HandlesHaveFiles
<1>1. IInv => HandlesHaveFiles
  BY DEF IInv
<1>. QED
  BY <1>1, Invariance, PTL

-----------------------------------------------------------------------------
(* What a step does to a file and its holders.  The properties of steps    *)
(* and the refinement need no more of the operations than this: which      *)
(* client is concerned, that it was free to do it, and what becomes of the *)
(* contents.                                                               *)

BeginsToRead(c, f) ==
  /\ SetSession(c, f, "reader")
  /\ WritersOf(f) = {} /\ WaitingWriters(f) = {} /\ Exists(f)
  /\ UNCHANGED disk

BeginsToWrite(c, f) ==
  /\ \E kind \in {"writer", "closed"} : SetSession(c, f, kind)
  /\ WritersOf(f) = {} /\ ReadersOf(f) = {}
  /\ \/ UNCHANGED disk
     \/ ~Exists(f) /\ disk' = [disk EXCEPT ![f] = <<>>]

Leaves(c, f) ==
  /\ c \in ReadersOf(f) \cup WritersOf(f)
  /\ SetSession(c, f, "none")
  /\ UNCHANGED disk

Writes(c, f) ==
  /\ c \in WritersOf(f) /\ Exists(f)
  /\ UNCHANGED sessions \/ SetSession(c, f, "closed")
  /\ UNCHANGED disk \/ \E s \in Seq(Chunks) : disk' = [disk EXCEPT ![f] = s]

Removes(c, f) ==
  /\ c \in WritersOf(f)
  /\ ClearSessions(f)
  /\ UNCHANGED disk \/ disk' = [disk EXCEPT ![f] = NoFile]

Appears(f) ==
  /\ ~Exists(f)
  /\ UNCHANGED sessions /\ disk' = [disk EXCEPT ![f] = <<>>]

Effect(c, f) ==
  \/ UNCHANGED <<sessions, disk>>
  \/ BeginsToRead(c, f) \/ BeginsToWrite(c, f) \/ Leaves(c, f)
  \/ Writes(c, f) \/ Removes(c, f) \/ Appears(f)

(* Who is admitted enters a file it is free to enter.                      *)
LEMMA EntersEffect ==
  ASSUME IInv, NEW c \in Clients, NEW f \in Files, NEW m \in Modes,
         NEW granted \in BOOLEAN, Admitted(f, m), Enters(c, f, m, granted)
  PROVE  Effect(c, f)
<1>1. Types /\ QueueInv /\ TableInv
  BY DEF IInv
<1>2. WritersOf(f) = {}
  BY <1>1 DEF Admitted, TableInv, CountsCoverSessions
<1>3. CASE granted /\ m = "read"
  <2>1. WaitingWriters(f) = {}
    <3>1. Cardinality(WaitingWriters(f)) = 0
      BY <1>1, <1>3 DEF Admitted, QueueInv, PendingWritersCounted
    <3>. QED
      BY <3>1, WaitingFinite, FS_EmptySet
  <2>. QED
    BY <1>2, <1>3, <2>1 DEF Effect, BeginsToRead, Enters, ReaderEnters
<1>4. CASE granted /\ m # "read"
  <2>1. ReadersOf(f) = {}
    <3>1. Cardinality(ReadersOf(f)) <= readers[f] /\ readers[f] = 0
      BY <1>1, <1>4 DEF Admitted, TableInv, CountsCoverSessions
    <3>2. Cardinality(ReadersOf(f)) = 0
      BY <3>1, ReadersFinite
    <3>. QED
      BY <3>2, ReadersFinite, FS_EmptySet
  <2>. QED
    BY <1>2, <1>4, <2>1 DEF Effect, BeginsToWrite, Enters, WriterEnters, Exists
<1>5. CASE ~granted
  BY <1>5 DEF Effect, Enters, ReaderEnters, WriterEnters
<1>. QED
  BY <1>3, <1>4, <1>5

(* The steps of threads that wait, and of those that come back from a      *)
(* destroyed FileLock: they concern the client and the file of their call. *)
LEMMA ThreadStepEffect ==
  ASSUME IInv, NEW t \in Threads, ThreadStep(t)
  PROVE  call[t] \in Calls /\ Effect(call[t].client, call[t].file)
<1>. PICK c \in Clients, f \in Files, m \in Modes :
       call[t] = [client |-> c, file |-> f, mode |-> m]
  BY DEF IInv, QueueInv, WaitersHaveLocks, Calls, ThreadStep, WaitsAgain, SpuriousWakeup,
         OrphanReturns, WakesUp
<1>1. CASE WaitsAgain(t) \/ SpuriousWakeup(t)
  BY <1>1 DEF WaitsAgain, SpuriousWakeup, lockVars, Effect, Calls
<1>2. CASE OrphanReturns(t)
  BY <1>2 DEF OrphanReturns, lockVars, Effect, Appears, Calls
<1>3. ASSUME NEW granted \in BOOLEAN, WakesUp(t, granted)
      PROVE  Effect(c, f)
  BY <1>3, EntersEffect DEF WakesUp
<1>. QED
  BY <1>1, <1>2, <1>3 DEF ThreadStep, Calls

(* The calls of clients.                                                   *)
LEMMA CallEffect ==
  ASSUME IInv, NEW t \in Threads, NEW c \in Clients, NEW f \in Files, Call(t, c, f)
  PROVE  Effect(c, f)
<1>1. Types
  BY DEF IInv
<1>2. sessions[f][c] \in Sessions
  BY <1>1 DEF Types
<1>3. ASSUME NEW m \in Modes, NEW granted \in BOOLEAN, AcquireAtOnce(t, c, f, m, granted)
      PROVE  Effect(c, f)
  BY <1>3, EntersEffect DEF AcquireAtOnce
<1>4. ASSUME NEW m \in Modes, AcquireWaits(t, c, f, m) PROVE Effect(c, f)
  BY <1>4 DEF AcquireWaits, Effect
<1>5. CASE ReleaseWriteLock(c, f) \/ ReleaseReadLock(c, f)
  BY <1>2, <1>5 DEF ReleaseWriteLock, ReleaseReadLock, Effect, Leaves, ReadersOf, WritersOf,
                    Sessions
<1>6. ASSUME NEW i \in 1..MaxChunks, NEW v \in Chunks, NEW written \in BOOLEAN,
             WriteFile(c, f, i, v, written)
      PROVE  Effect(c, f)
  <2>1. CASE sessions[f][c] = "writer"
    <3>1. c \in WritersOf(f) /\ Exists(f)
      BY <2>1 DEF WritersOf, IInv, HandlesHaveFiles
    <3>2. \A w \in Chunks : WriteAt(disk[f], i, w) \in Seq(Chunks)
      BY <1>1, <3>1, CountAssumption, WriteAtType DEF Exists, Types
    <3>. QED
      BY <1>6, <2>1, <3>1, <3>2 DEF WriteFile, WritesInPart, Effect, Writes
  <2>2. CASE sessions[f][c] # "writer"
    BY <1>6, <2>2 DEF WriteFile, Effect
  <2>. QED
    BY <2>1, <2>2
<1>7. ASSUME MayRemove(c, f) PROVE c \in WritersOf(f)
  BY <1>7 DEF MayRemove, WritersOf
<1>8. ASSUME NEW status \in FileStatus, RemoveFile(t, c, f, status) PROVE Effect(c, f)
  BY <1>7, <1>8 DEF RemoveFile, EraseLock, lockVars, Effect, Removes
<1>9. CASE RemoveFileHangs(t, c, f)
  BY <1>7, <1>9 DEF RemoveFileHangs, EraseLock, Effect, Removes
<1>. QED
  BY <1>3, <1>4, <1>5, <1>6, <1>8, <1>9 DEF Call

(* Every step has one of these effects.                                    *)
LEMMA NextEffect ==
  ASSUME IInv, [Next]_vars
  PROVE  UNCHANGED <<sessions, disk>> \/ \E c \in Clients, f \in Files : Effect(c, f)
BY ThreadStepEffect, CallEffect DEF Next, Calls, vars, lockVars

-----------------------------------------------------------------------------
(* The properties of steps.                                                *)

(* What an effect on f leaves alone: other files, and other clients of f.  *)
LEMMA EffectIsLocal ==
  ASSUME IInv, NEW c \in Clients, NEW f \in Files, Effect(c, f)
  PROVE  /\ \A g \in Files \ {f} : disk'[g] = disk[g] /\ sessions'[g] = sessions[g]
         /\ ~Removes(c, f) => \A d \in Clients \ {c} : sessions'[f][d] = sessions[f][d]
         /\ ~BeginsToRead(c, f) => \A d \in Clients : sessions'[f][d] = "reader"
                                                        => sessions[f][d] = "reader"
<1>1. Types
  BY DEF IInv
<1>2. \A g \in Files \ {f} : disk'[g] = disk[g]
  BY <1>1 DEF Types, Effect, BeginsToRead, BeginsToWrite, Leaves, Writes, Removes, Appears
<1>3. CASE UNCHANGED sessions
  BY <1>2, <1>3
<1>4. ASSUME NEW kind \in Sessions, SetSession(c, f, kind), kind # "reader" \/ BeginsToRead(c, f)
      PROVE  /\ \A g \in Files \ {f} : sessions'[g] = sessions[g]
             /\ \A d \in Clients \ {c} : sessions'[f][d] = sessions[f][d]
             /\ ~BeginsToRead(c, f) => \A d \in Clients : sessions'[f][d] = "reader"
                                                            => sessions[f][d] = "reader"
  <2>1. \A g \in Files \ {f} : sessions'[g] = sessions[g]
    BY <1>1, <1>4 DEF SetSession, Types
  <2>. QED
    BY <1>1, <1>4, <2>1, SetSessionEffect
<1>5. CASE Removes(c, f)
  <2>1. \A d \in Clients : sessions'[f][d] = "none"
    BY <1>1, <1>5, ClearSessionsEffect DEF Removes
  <2>. QED
    BY <1>1, <1>2, <1>5, <2>1, ClearSessionsEffect DEF Removes
<1>. QED
  BY <1>2, <1>3, <1>4, <1>5
     DEF Sessions, Effect, BeginsToRead, BeginsToWrite, Leaves, Writes, Appears

(* While there are readers, nobody writes or removes the file, and none is *)
(* made in its place.                                                      *)
LEMMA EffectOnContents ==
  ASSUME IInv, NEW c \in Clients, NEW f \in Files, Effect(c, f), ReadersOf(f) # {}
  PROVE  disk'[f] = disk[f]
<1>1. PICK d \in Clients : d \in ReadersOf(f) /\ sessions[f][d] = "reader"
  BY DEF ReadersOf
<1>2. Exists(f)
  BY <1>1 DEF IInv, HandlesHaveFiles
<1>3. WritersOf(f) = {}
  <2>. SUFFICES ASSUME NEW e \in WritersOf(f) PROVE FALSE
    OBVIOUS
  <2>1. d = e
    BY <1>1 DEF IInv, TableInv, MutualExclusion
  <2>. QED
    BY <1>1, <2>1 DEF WritersOf
<1>. QED
  BY <1>2, <1>3 DEF Effect, BeginsToRead, BeginsToWrite, Leaves, Writes, Removes, Appears

(* A client that still has its handle after another client's step had it   *)
(* before, and the file is what it was.                                    *)
LEMMA OthersUndisturbed ==
  ASSUME IInv, NEW c \in Clients, NEW d \in Clients \ {c}, NEW f \in Files, NEW g \in Files,
         Effect(d, g), sessions'[f][c] \in {"reader", "writer"}
  PROVE  sessions'[f][c] = sessions[f][c] /\ disk'[f] = disk[f]
<1>1. CASE g # f
  BY <1>1, EffectIsLocal
<1>2. CASE g = f
  <2>1. sessions'[f][c] = sessions[f][c]
    <3>1. CASE Removes(d, f)
      BY <3>1, ClearSessionsEffect DEF Removes, IInv
    <3>. QED
      BY <1>2, <3>1, EffectIsLocal
  <2>2. CASE sessions[f][c] = "reader"
    BY <1>2, <2>1, <2>2, EffectOnContents DEF ReadersOf
  <2>3. CASE sessions[f][c] = "writer"
    <3>1. c \in WritersOf(f) /\ Exists(f)
      BY <2>3 DEF WritersOf, IInv, HandlesHaveFiles
    <3>2. d \notin WritersOf(f)
      BY <3>1 DEF IInv, TableInv, MutualExclusion
    <3>3. Effect(d, f)
      BY <1>2
    <3>4. UNCHANGED disk \/ Writes(d, f) \/ Removes(d, f)
      BY <3>1, <3>3 DEF Effect, BeginsToRead, BeginsToWrite, Leaves, Appears
    <3>. QED
      BY <2>1, <3>2, <3>4 DEF Writes, Removes
  <2>. QED
    BY <2>1, <2>2, <2>3
<1>. QED
  BY <1>1, <1>2

(* A step of one thread leaves the calls of the others alone, and those    *)
(* that wait keep waiting, if for ever.                                    *)
LEMMA OthersGoOnWaiting ==
  ASSUME Types, NEW t \in Threads, NEW u \in Threads \ {t},
         ThreadStep(t) \/ \E c \in Clients, f \in Files : Call(t, c, f)
  PROVE  /\ call'[u] = call[u]
         /\ pc'[u] \in {"waiting", "ready", "orphaned"}
              <=> pc[u] \in {"waiting", "ready", "orphaned"}
<1>1. CASE ThreadStep(t)
  BY <1>1 DEF Types, ThreadStep, WaitsAgain, SpuriousWakeup, OrphanReturns, WakesUp, lockVars
<1>2. ASSUME NEW c \in Clients, NEW f \in Files, Call(t, c, f)
      PROVE  /\ call'[u] = call[u]
             /\ pc'[u] \in {"waiting", "ready", "orphaned"}
                  <=> pc[u] \in {"waiting", "ready", "orphaned"}
  <2>1. ASSUME NEW m \in Modes, AcquireWaits(t, c, f, m)
        PROVE  call'[u] = call[u] /\ pc'[u] = pc[u]
    BY <2>1 DEF AcquireWaits, Types
  <2>2. ASSUME NEW m \in Modes, NEW granted \in BOOLEAN, AcquireAtOnce(t, c, f, m, granted)
        PROVE  call'[u] = call[u] /\ pc'[u] = pc[u]
    BY <2>2 DEF AcquireAtOnce
  <2>3. CASE NotifyAll(f) /\ UNCHANGED call
    BY <2>3 DEF NotifyAll, At
  <2>4. CASE pc' = Orphaned(f) /\ UNCHANGED call
    BY <2>4 DEF Orphaned, At
  <2>5. CASE RemoveFileHangs(t, c, f)
    <3>1. pc'[u] = Orphaned(f)[u] /\ UNCHANGED call
      BY <2>5 DEF RemoveFileHangs, Orphaned
    <3>. QED
      BY <3>1 DEF Orphaned, At
  <2>6. CASE UNCHANGED <<pc, call>>
    BY <2>6
  <2>7. ASSUME NEW status \in FileStatus, RemoveFile(t, c, f, status)
        PROVE  UNCHANGED call /\ (pc' = Orphaned(f) \/ UNCHANGED pc)
    BY <2>7 DEF RemoveFile
  <2>8. CASE ReleaseWriteLock(c, f) \/ ReleaseReadLock(c, f)
    BY <2>3, <2>6, <2>8 DEF ReleaseWriteLock, ReleaseReadLock
  <2>9. ASSUME NEW i \in 1..MaxChunks, NEW v \in Chunks, NEW written \in BOOLEAN,
               WriteFile(c, f, i, v, written)
        PROVE  UNCHANGED <<pc, call>>
    BY <2>9 DEF WriteFile
  <2>. QED
    BY <1>2, <2>1, <2>2, <2>4, <2>5, <2>6, <2>7, <2>8, <2>9 DEF Call
<1>. QED
  BY <1>1, <1>2

(* While a client reads a file, the file stays there and stays as it is,   *)
(* with any number of clients that write, release and remove.              *)
THEOREM ReadersAreUndisturbed == Spec => ReadersSeeOneFile
<1>1. ASSUME IInv, [Next]_vars, NEW f \in Files, ReadersOf(f) # {}
      PROVE  disk'[f] = disk[f]
  <2>1. CASE UNCHANGED <<sessions, disk>>
    BY <2>1
  <2>2. ASSUME NEW c \in Clients, NEW g \in Files, Effect(c, g)
        PROVE  disk'[f] = disk[f]
    BY <1>1, <2>2, EffectIsLocal, EffectOnContents
  <2>. QED
    BY <1>1, <2>1, <2>2, NextEffect
<1>2. IInv /\ [Next]_vars => [\A f \in Files : ReadersOf(f) # {} => disk'[f] = disk[f]]_vars
  BY <1>1
<1>. QED
  BY <1>2, Invariance, PTL DEF Spec, ReadersSeeOneFile

(* No step of any operation ends the sessions of two clients, RemoveFile   *)
(* with its clearing of all sessions included.                             *)
THEOREM SessionsEndOneByOne == Spec => OneSessionEndsAtATime
<1>. DEFINE Ends(f, c) == sessions[f][c] # "none" /\ sessions'[f][c] = "none"
<1>1. ASSUME IInv, [Next]_vars, NEW f \in Files, NEW c \in Clients, NEW d \in Clients,
             Ends(f, c), Ends(f, d)
      PROVE  c = d
  <2>1. PICK e \in Clients, g \in Files : Effect(e, g)
    BY <1>1, NextEffect
  <2>2. f = g
    BY <1>1, <2>1, EffectIsLocal
  <2>3. CASE Removes(e, g)
    <3>1. WritersOf(f) \cup ReadersOf(f) = {e}
      BY <1>1, <2>2, <2>3 DEF Removes, IInv, TableInv, MutualExclusion
    <3>2. sessions[f][c] \in Sessions /\ sessions[f][d] \in Sessions
      BY <1>1 DEF IInv, Types
    <3>3. c \in WritersOf(f) \cup ReadersOf(f) /\ d \in WritersOf(f) \cup ReadersOf(f)
      BY <1>1, <3>2 DEF WritersOf, ReadersOf, Sessions
    <3>. QED
      BY <3>1, <3>3
  <2>4. CASE ~Removes(e, g)
    BY <1>1, <2>1, <2>2, <2>4, EffectIsLocal
  <2>. QED
    BY <2>3, <2>4
<1>2. IInv /\ [Next]_vars =>
        [\A f \in Files : \A c, d \in Clients :
           /\ sessions[f][c] # "none" /\ sessions'[f][c] = "none"
           /\ sessions[f][d] # "none" /\ sessions'[f][d] = "none"
           => c = d]_vars
  BY <1>1
<1>. QED
  BY <1>2, Invariance, PTL DEF Spec, OneSessionEndsAtATime

(* Nobody begins to read a file that a thread waits to write.              *)
THEOREM ReadersGiveWay == Spec => ReadersYieldToWriters
<1>1. ASSUME IInv, [Next]_vars, NEW f \in Files, WaitingWriters(f) # {}
      PROVE  ReadersOf(f)' \subseteq ReadersOf(f)
  <2>1. CASE UNCHANGED <<sessions, disk>>
    BY <2>1 DEF ReadersOf
  <2>2. ASSUME NEW c \in Clients, NEW g \in Files, Effect(c, g)
        PROVE  ReadersOf(f)' \subseteq ReadersOf(f)
    <3>1. CASE f = g
      BY <1>1, <2>2, <3>1, EffectIsLocal DEF ReadersOf, BeginsToRead
    <3>2. CASE f # g
      BY <1>1, <2>2, <3>2, EffectIsLocal DEF ReadersOf
    <3>. QED
      BY <3>1, <3>2
  <2>. QED
    BY <1>1, <2>1, <2>2, NextEffect
<1>2. IInv /\ [Next]_vars =>
        [\A f \in Files : WaitingWriters(f) # {} => ReadersOf(f)' \subseteq ReadersOf(f)]_vars
  BY <1>1
<1>. QED
  BY <1>2, Invariance, PTL DEF Spec, ReadersYieldToWriters

-----------------------------------------------------------------------------
(* The refinement.  The session table maps to the sets of the clients that *)
(* read and write.                                                         *)

readersBar == [f \in Files |-> ReadersOf(f)]
writersBar == [f \in Files |-> WritersOf(f)]

(* Under the mapping, a session that is set moves one client.              *)
LEMMA SetSessionMapped ==
  ASSUME IInv, NEW c \in Clients, NEW f \in Files, NEW kind \in Sessions,
         SetSession(c, f, kind)
  PROVE  /\ readersBar' = [readersBar EXCEPT ![f] =
              IF kind = "reader" THEN @ \cup {c} ELSE @ \ {c}]
         /\ writersBar' = [writersBar EXCEPT ![f] =
              IF kind \in {"writer", "closed"} THEN @ \cup {c} ELSE @ \ {c}]
BY SetSessionHolders DEF IInv, readersBar, writersBar

(* Sessions that are cleared leave a file without holders.                 *)
LEMMA ClearSessionsMapped ==
  ASSUME IInv, NEW f \in Files, ClearSessions(f)
  PROVE  /\ readersBar' = [readersBar EXCEPT ![f] = {}]
         /\ writersBar' = [writersBar EXCEPT ![f] = {}]
BY ClearSessionsEffect DEF IInv, readersBar, writersBar

(* Every effect is a step of LockedStore, or none.                         *)
LEMMA EffectMapped ==
  ASSUME IInv, NEW c \in Clients, NEW f \in Files, Effect(c, f)
  PROVE  Store!Next \/ UNCHANGED <<readersBar, writersBar, disk>>
<1>. DEFINE Step == \/ Store!Create(f) \/ Store!StartReading(c, f) \/ Store!StopReading(c, f)
                    \/ Store!StartWriting(c, f) \/ Store!Write(c, f) \/ Store!StopWriting(c, f)
<1>. SUFFICES Step \/ UNCHANGED <<readersBar, writersBar, disk>>
  BY DEF Store!Next
<1>1. /\ readersBar \in [Files -> SUBSET Clients] /\ readersBar[f] = ReadersOf(f)
      /\ writersBar \in [Files -> SUBSET Clients] /\ writersBar[f] = WritersOf(f)
  BY DEF readersBar, writersBar, ReadersOf, WritersOf
<1>2. UNCHANGED sessions => UNCHANGED <<readersBar, writersBar>>
  BY DEF readersBar, writersBar, ReadersOf, WritersOf
<1>3. CASE BeginsToRead(c, f)
  <2>1. /\ readersBar' = [readersBar EXCEPT ![f] = @ \cup {c}]
        /\ writersBar' = writersBar
    BY <1>1, <1>3, SetSessionMapped DEF BeginsToRead, Sessions
  <2>. QED
    BY <1>1, <1>3, <2>1 DEF BeginsToRead, Exists, Store!StartReading, readersBar, writersBar
<1>4. CASE BeginsToWrite(c, f)
  <2>1. /\ writersBar' = [writersBar EXCEPT ![f] = {c}]
        /\ readersBar' = readersBar
    <3>1. PICK kind \in {"writer", "closed"} : SetSession(c, f, kind)
      BY <1>4 DEF BeginsToWrite
    <3>2. /\ readersBar' = [readersBar EXCEPT ![f] = readersBar[f] \ {c}]
          /\ writersBar' = [writersBar EXCEPT ![f] = writersBar[f] \cup {c}]
      BY <3>1, SetSessionMapped DEF Sessions
    <3>3. readersBar[f] \ {c} = readersBar[f] /\ writersBar[f] \cup {c} = {c}
      BY <1>1, <1>4 DEF BeginsToWrite
    <3>. QED
      BY <1>1, <3>2, <3>3
  <2>. QED
    BY <1>1, <1>4, <2>1
       DEF BeginsToWrite, Exists, Store!StartWriting, Store!Free, readersBar, writersBar
<1>5. CASE Leaves(c, f)
  <2>1. /\ readersBar' = [readersBar EXCEPT ![f] = @ \ {c}]
        /\ writersBar' = [writersBar EXCEPT ![f] = @ \ {c}]
    BY <1>5, SetSessionMapped DEF Leaves, Sessions
  <2>2. CASE c \in WritersOf(f)
    <3>1. ReadersOf(f) \subseteq {c} /\ WritersOf(f) = {c} /\ c \notin ReadersOf(f)
      BY <2>2 DEF IInv, TableInv, MutualExclusion, ReadersOf, WritersOf
    <3>2. readersBar' = readersBar /\ writersBar' = [writersBar EXCEPT ![f] = {}]
      BY <1>1, <2>1, <3>1
    <3>. QED
      BY <1>1, <1>5, <2>2, <3>2 DEF Leaves, Store!StopWriting, readersBar, writersBar
  <2>3. CASE c \notin WritersOf(f)
    <3>1. writersBar' = writersBar
      BY <1>1, <2>1, <2>3
    <3>. QED
      BY <1>5, <2>1, <3>1 DEF Leaves, Store!StopReading, readersBar, writersBar
  <2>. QED
    BY <2>2, <2>3
<1>6. CASE Writes(c, f)
  <2>1. UNCHANGED <<readersBar, writersBar>>
    <3>1. CASE UNCHANGED sessions
      BY <3>1 DEF readersBar, writersBar, ReadersOf, WritersOf
    <3>2. CASE SetSession(c, f, "closed")
      <4>1. c \notin ReadersOf(f) /\ c \in WritersOf(f)
        BY <1>6 DEF Writes, ReadersOf, WritersOf
      <4>2. /\ readersBar' = [readersBar EXCEPT ![f] = readersBar[f] \ {c}]
            /\ writersBar' = [writersBar EXCEPT ![f] = writersBar[f] \cup {c}]
        BY <3>2, SetSessionMapped DEF Sessions
      <4>3. readersBar[f] \ {c} = readersBar[f] /\ writersBar[f] \cup {c} = writersBar[f]
        BY <1>1, <4>1
      <4>. QED
        BY <1>1, <4>2, <4>3
    <3>. QED
      BY <1>6, <3>1, <3>2 DEF Writes
  <2>2. CASE UNCHANGED disk
    BY <2>1, <2>2
  <2>3. ASSUME NEW s \in Seq(Chunks), disk' = [disk EXCEPT ![f] = s]
        PROVE  Store!Write(c, f)
    <3>1. disk'[f] = s
      BY <2>3 DEF IInv, Types
    <3>. QED
      BY <1>1, <1>2, <1>6, <2>1, <2>3, <3>1 DEF Writes, Exists, Store!Write, readersBar, writersBar
  <2>. QED
    BY <1>6, <2>2, <2>3 DEF Writes
<1>7. CASE Removes(c, f)
  <2>1. c \notin ReadersOf(f) /\ ReadersOf(f) \subseteq {c}
    BY <1>7 DEF Removes, IInv, TableInv, MutualExclusion, ReadersOf, WritersOf
  <2>2. readersBar' = readersBar /\ writersBar' = [writersBar EXCEPT ![f] = {}]
    BY <1>1, <1>7, <2>1, ClearSessionsMapped DEF Removes
  <2>. QED
    BY <1>1, <1>7, <2>2 DEF Removes, Store!StopWriting, readersBar, writersBar
<1>8. CASE Appears(f)
  BY <1>2, <1>8 DEF Appears, Exists, Store!Create, readersBar, writersBar
<1>. QED
  BY <1>2, <1>3, <1>4, <1>5, <1>6, <1>7, <1>8 DEF Effect

(* For any number of clients, files and threads, what the table's callers  *)
(* see is LockedStore: the initial states map to initial states, and every *)
(* step to a step or a stutter.                                            *)
THEOREM TableImplementsStore == Spec => ImplementsLockedStore
<1>1. Init => Store!Init
  BY DEF Init, Store!Init, ReadersOf, WritersOf
<1>2. ASSUME IInv, [Next]_vars PROVE [Store!Next]_Store!vars
  <2>1. UNCHANGED <<sessions, disk>> => UNCHANGED Store!vars
    BY DEF Store!vars, ReadersOf, WritersOf
  <2>2. UNCHANGED <<readersBar, writersBar, disk>> => UNCHANGED Store!vars
    BY DEF Store!vars, readersBar, writersBar
  <2>. QED
    BY <1>2, <2>1, <2>2, NextEffect, EffectMapped
<1>. QED
  BY <1>1, <1>2, Invariance, PTL DEF Spec, ImplementsLockedStore, Store!Spec

-----------------------------------------------------------------------------
(* Lost wakeups.                                                           *)

(* A waiting writer that is not notified stays where it is, and stays      *)
(* excluded.                                                               *)
LEMMA WritersStayExcluded ==
  ASSUME NoLostWriterWakeup,
         \A t \in Threads :
           pc'[t] = "waiting" /\ call'[t].mode # "read" =>
             \/ ~Admitted(call[t].file, call[t].mode)'
             \/ /\ pc[t] = "waiting" /\ call'[t] = call[t]
                /\ hasWriter[call[t].file] => hasWriter'[call[t].file]
                /\ readers[call[t].file] # 0 => readers'[call[t].file] # 0
  PROVE  NoLostWriterWakeup'
BY DEF NoLostWriterWakeup, Admitted

(* Entering takes a file and gives none back.                              *)
LEMMA EntersExcludes ==
  ASSUME Types, NEW c \in Clients, NEW f \in Files, NEW m \in Modes,
         NEW granted \in BOOLEAN, Enters(c, f, m, granted)
  PROVE  \A g \in Files : /\ hasWriter[g] => hasWriter'[g]
                          /\ readers[g] # 0 => readers'[g] # 0
<1>1. CASE UNCHANGED <<hasWriter, readers>>
  BY <1>1
<1>2. CASE UNCHANGED readers /\ hasWriter' = [hasWriter EXCEPT ![f] = TRUE]
  BY <1>2 DEF Types
<1>3. CASE UNCHANGED hasWriter /\ readers' = [readers EXCEPT ![f] = readers[f] + 1]
  <2>1. readers[f] + 1 # 0
    BY CountAssumption DEF Types
  <2>. QED
    BY <1>3, <2>1 DEF Types
<1>. QED
  BY <1>1, <1>2, <1>3 DEF Enters, ReaderEnters, WriterEnters

(* The release of a file notifies all who wait for it.                     *)
LEMMA NotifiedWake ==
  ASSUME IInv, NoLostWriterWakeup, NEW f \in Files, NotifyAll(f), UNCHANGED call,
         \A g \in Files \ {f} : hasWriter'[g] = hasWriter[g] /\ readers'[g] = readers[g]
  PROVE  NoLostWriterWakeup'
<1>1. \A t \in Threads : pc'[t] = "waiting" => pc[t] = "waiting" /\ call[t].file # f
  BY DEF NotifyAll, At
<1>2. \A t \in Threads : pc[t] = "waiting" => call[t].file \in Files
  BY DEF IInv, QueueInv, WaitersHaveLocks, Calls
<1>. QED
  BY <1>1, <1>2, WritersStayExcluded

(* The steps of the threads that wait keep a writer from being admitted    *)
(* unnoticed.                                                              *)
LEMMA ThreadStepWakes ==
  ASSUME IInv, NoLostWriterWakeup, NEW t \in Threads, ThreadStep(t)
  PROVE  NoLostWriterWakeup'
<1>1. Types /\ QueueInv
  BY DEF IInv
<1>2. \A u \in Threads : pc[u] = "waiting" => call[u].file \in Files
  BY <1>1 DEF QueueInv, WaitersHaveLocks, Calls
<1>3. CASE WaitsAgain(t)
  <2>1. \A u \in Threads \ {t} : pc'[u] = pc[u]
    BY <1>1, <1>3 DEF WaitsAgain, Types
  <2>2. ~Admitted(call[t].file, call[t].mode)'
    BY <1>3 DEF WaitsAgain, Admitted, lockVars
  <2>. QED
    BY <1>3, <2>1, <2>2, WritersStayExcluded DEF WaitsAgain, lockVars
<1>4. CASE SpuriousWakeup(t)
  <2>1. \A u \in Threads : pc'[u] = "waiting" => pc[u] = "waiting"
    BY <1>1, <1>4 DEF SpuriousWakeup, Types
  <2>. QED
    BY <1>4, <2>1, WritersStayExcluded DEF SpuriousWakeup, lockVars
<1>5. ASSUME pc' = [pc EXCEPT ![t] = "idle"], call' = [call EXCEPT ![t] = NoCall]
      PROVE  \A u \in Threads : pc'[u] = "waiting" => pc[u] = "waiting" /\ call'[u] = call[u]
  BY <1>1, <1>5 DEF Types
<1>6. CASE OrphanReturns(t)
  BY <1>5, <1>6, WritersStayExcluded DEF OrphanReturns, lockVars
<1>7. ASSUME NEW granted \in BOOLEAN, WakesUp(t, granted) PROVE NoLostWriterWakeup'
  <2>1. call[t].client \in Clients /\ call[t].file \in Files /\ call[t].mode \in Modes
    BY <1>1, <1>7 DEF WakesUp, QueueInv, WaitersHaveLocks, Calls
  <2>2. \A g \in Files : /\ hasWriter[g] => hasWriter'[g]
                         /\ readers[g] # 0 => readers'[g] # 0
    BY <1>1, <1>7, <2>1, EntersExcludes DEF WakesUp
  <2>. QED
    BY <1>2, <1>5, <1>7, <2>2, WritersStayExcluded DEF WakesUp
<1>. QED
  BY <1>3, <1>4, <1>6, <1>7 DEF ThreadStep

(* So do the calls: a release that lets a writer in notifies, on every     *)
(* path, and a FileLock that goes leaves nobody waiting on it.             *)
LEMMA CallWakes ==
  ASSUME IInv, NoLostWriterWakeup,
         NEW t \in Threads, NEW c \in Clients, NEW f \in Files, Call(t, c, f)
  PROVE  NoLostWriterWakeup'
<1>1. Types /\ QueueInv
  BY DEF IInv
<1>2. \A u \in Threads : pc[u] = "waiting" => call[u].file \in Files
  BY <1>1 DEF QueueInv, WaitersHaveLocks, Calls
<1>3. ASSUME NEW m \in Modes, AcquireWaits(t, c, f, m) PROVE NoLostWriterWakeup'
  <2>1. /\ call'[t] = [client |-> c, file |-> f, mode |-> m]
        /\ \A u \in Threads \ {t} : pc'[u] = pc[u] /\ call'[u] = call[u]
    BY <1>1, <1>3 DEF AcquireWaits, Types
  <2>2. m # "read" => ~Admitted(f, m)'
    BY <1>3 DEF AcquireWaits, Admitted
  <2>. QED
    BY <1>3, <2>1, <2>2, WritersStayExcluded DEF AcquireWaits
<1>4. ASSUME NEW m \in Modes, NEW granted \in BOOLEAN, AcquireAtOnce(t, c, f, m, granted)
      PROVE  NoLostWriterWakeup'
  <2>1. \A g \in Files : /\ hasWriter[g] => hasWriter'[g]
                         /\ readers[g] # 0 => readers'[g] # 0
    BY <1>1, <1>4, EntersExcludes DEF AcquireAtOnce
  <2>. QED
    BY <1>2, <1>4, <2>1, WritersStayExcluded DEF AcquireAtOnce
<1>5. ASSUME UNCHANGED <<hasWriter, readers, pc, call>> PROVE NoLostWriterWakeup'
  BY <1>5, WritersStayExcluded
<1>6. CASE ReleaseWriteLock(c, f)
  <2>1. CASE f \in fileLocks /\ sessions[f][c] # "none"
    BY <1>1, <1>6, <2>1, NotifiedWake DEF ReleaseWriteLock, Types
  <2>. QED
    BY <1>5, <1>6, <2>1 DEF ReleaseWriteLock
<1>7. CASE ReleaseReadLock(c, f)
  <2>1. CASE f \in fileLocks /\ sessions[f][c] # "none"
    <3>. DEFINE n == IF readers[f] = 0 THEN MaxReaders ELSE readers[f] - 1
    <3>1. readers' = [readers EXCEPT ![f] = n] /\ UNCHANGED <<hasWriter, call>>
      BY <1>7, <2>1 DEF ReleaseReadLock
    <3>2. CASE readers[f] = 1
      BY <1>1, <1>7, <2>1, <3>1, <3>2, NotifiedWake DEF ReleaseReadLock, Types
    <3>3. CASE readers[f] # 1
      <4>1. readers[f] \in 0..MaxReaders
        BY <1>1 DEF Types
      <4>2. n # 0
        BY <3>3, <4>1, CountAssumption
      <4>3. \A g \in Files : readers[g] # 0 => readers'[g] # 0
        BY <1>1, <3>1, <4>2 DEF Types
      <4>. QED
        BY <1>2, <1>7, <2>1, <3>1, <3>3, <4>3, WritersStayExcluded DEF ReleaseReadLock
    <3>. QED
      BY <3>2, <3>3
  <2>. QED
    BY <1>5, <1>7, <2>1 DEF ReleaseReadLock
<1>8. ASSUME NEW i \in 1..MaxChunks, NEW v \in Chunks, NEW written \in BOOLEAN,
             WriteFile(c, f, i, v, written)
      PROVE  NoLostWriterWakeup'
  BY <1>5, <1>8 DEF WriteFile
<1>9. ASSUME EraseLock(f), UNCHANGED call,
             \A u \in Threads : pc'[u] = "waiting" => pc[u] = "waiting" /\ ~At(u, f, {"waiting"})
      PROVE  NoLostWriterWakeup'
  <2>1. \A g \in Files \ {f} : hasWriter'[g] = hasWriter[g] /\ readers'[g] = readers[g]
    BY <1>1, <1>9 DEF EraseLock, Types
  <2>. QED
    BY <1>2, <1>9, <2>1, WritersStayExcluded DEF At
<1>10. \A u \in Threads : Orphaned(f)[u] = "waiting" =>
         pc[u] = "waiting" /\ ~At(u, f, {"waiting"})
  BY DEF Orphaned, At
<1>11. ASSUME NEW status \in FileStatus, RemoveFile(t, c, f, status) PROVE NoLostWriterWakeup'
  <2>1. CASE status \in {"FILE_LOCKED", "FILE_NOT_FOUND"}
    BY <1>5, <1>11, <2>1 DEF RemoveFile, lockVars
  <2>2. CASE status \in {"FILE_OK", "FILE_ERROR"}
    BY <1>9, <1>10, <1>11, <2>2 DEF RemoveFile
  <2>. QED
    BY <2>1, <2>2 DEF FileStatus
<1>12. CASE RemoveFileHangs(t, c, f)
  <2>1. pc' = [Orphaned(f) EXCEPT ![t] = "destroying"] /\ EraseLock(f) /\ UNCHANGED call
    BY <1>12 DEF RemoveFileHangs
  <2>2. \A u \in Threads : pc'[u] = "waiting" => Orphaned(f)[u] = "waiting"
    BY <2>1 DEF Orphaned
  <2>. QED
    BY <1>9, <1>10, <2>1, <2>2
<1>. QED
  BY <1>3, <1>4, <1>6, <1>7, <1>8, <1>11, <1>12 DEF Call

(* No writer waits for a notification that has already been given, or will *)
(* not be: on every path of every operation, the failing ones included,    *)
(* what lets it in notifies it.                                            *)
THEOREM WritersAreWoken == Spec => []NoLostWriterWakeup
<1>1. Init => NoLostWriterWakeup
  BY DEF Init, NoLostWriterWakeup
<1>2. IInv /\ NoLostWriterWakeup /\ [Next]_vars => NoLostWriterWakeup'
  <2>1. UNCHANGED vars /\ NoLostWriterWakeup => NoLostWriterWakeup'
    BY DEF vars, lockVars, NoLostWriterWakeup, Admitted
  <2>. QED
    BY <2>1, ThreadStepWakes, CallWakes DEF Next
<1>. QED
  BY <1>1, <1>2, Invariance, PTL DEF Spec
=============================================================================
