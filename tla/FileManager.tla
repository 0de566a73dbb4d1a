---------------------------- MODULE FileManager ----------------------------
(***************************************************************************)
(* The server's lock table and file store, minidfs/src/dfs/file_manager.*. *)
(*                                                                         *)
(* One mutex, file_lock_mu_, guards a map from paths to FileLocks.  A      *)
(* FileLock has a condition variable, a count of readers, a count of       *)
(* writers that wait, a flag has_writer and the sessions of the clients    *)
(* that hold it.  Every method takes the mutex for its whole length, so a  *)
(* call is one action, except where it waits on the condition variable:    *)
(* there the thread gives the mutex up, is notified (or wakes spuriously)  *)
(* and tests its condition again when it gets the mutex back.              *)
(*                                                                         *)
(* Calls come from any thread, for any client and path, in any order:      *)
(* that is what the public methods allow.  Modules that know their callers *)
(* restrict them.                                                          *)
(***************************************************************************)
EXTENDS Naturals, Sequences, FiniteSets

CONSTANTS
  Clients,      \* client ids
  Files,        \* paths
  Threads,      \* the threads that call the methods
  Chunks,       \* what one chunk of a file can hold
  Hole,         \* the chunk of zeros that fills a gap in a file
  FaultyFiles,  \* paths the operating system may refuse to open or to change
  MaxReaders,   \* the largest value of the counter of readers (2^64 - 1)
  MaxChunks,    \* bound: the length of a file, in chunks
  NoFile,       \* the "contents" of a path at which there is no file
  NoCall        \* the call of a thread that is in none

ASSUME FilesAssumption == FaultyFiles \subseteq Files
ASSUME FiniteAssumption == IsFiniteSet(Clients) /\ IsFiniteSet(Threads)
ASSUME CountAssumption == MaxReaders \in Nat \ {0} /\ MaxChunks \in Nat
ASSUME ChunksAssumption == Hole \in Chunks /\ NoFile \notin Seq(Chunks)

VARIABLES
  fileLocks,       \* the paths that have a FileLock in file_locks_
  readers,         \* readers[f]: FileLock::readers
  pendingWriters,  \* pendingWriters[f]: FileLock::pending_writers
  hasWriter,       \* hasWriter[f]: FileLock::has_writer
  sessions,        \* sessions[f][c]: FileLock::sessions
  disk,            \* disk[f]: the contents of the file
  pc,              \* pc[t]: where thread t is
  call             \* call[t]: the acquisition t is in, while it is in one

lockVars == <<fileLocks, readers, pendingWriters, hasWriter, sessions>>
vars == <<lockVars, disk, pc, call>>

(* A client has no session, one with an open read_handle, one with a       *)
(* write_handle that can write, or one with a write_handle that cannot: it *)
(* was never opened, or a write failed, and nothing clears that.           *)
Sessions == {"none", "reader", "writer", "closed"}

(* AcquireReadLock, and AcquireWriteLock with create true and false.  The  *)
(* server asks for the last to delete a file.                              *)
Modes == {"read", "create", "delete"}

Calls == [client : Clients, file : Files, mode : Modes]

(* A thread is outside the methods, or waits on the condition variable, or *)
(* was notified and wants the mutex, or refers to a FileLock that was      *)
(* destroyed, or is stuck with the mutex destroying a condition variable.  *)
ThreadStates == {"idle", "waiting", "ready", "orphaned", "destroying"}

FileStatus == {"FILE_OK", "FILE_NOT_FOUND", "FILE_LOCKED", "FILE_ERROR"}

(* The server starts with an empty table over the files of its mount.      *)
Init ==
  /\ fileLocks = {}
  /\ readers = [f \in Files |-> 0]
  /\ pendingWriters = [f \in Files |-> 0]
  /\ hasWriter = [f \in Files |-> FALSE]
  /\ sessions = [f \in Files |-> [c \in Clients |-> "none"]]
  /\ disk \in [Files -> {NoFile, <<>>}]
  /\ pc = [t \in Threads |-> "idle"]
  /\ call = [t \in Threads |-> NoCall]

Exists(f) == disk[f] # NoFile

ReadersOf(f) == {c \in Clients : sessions[f][c] = "reader"}
WritersOf(f) == {c \in Clients : sessions[f][c] \in {"writer", "closed"}}

SetSession(c, f, kind) == sessions' = [sessions EXCEPT ![f][c] = kind]

(* A thread that hangs in a destructor never gives file_lock_mu_ back.     *)
MutexFree == \A t \in Threads : pc[t] # "destroying"

At(t, f, where) == pc[t] \in where /\ call[t].file = f

NotifyAll(f) ==
  pc' = [t \in Threads |-> IF At(t, f, {"waiting"}) THEN "ready" ELSE pc[t]]

-----------------------------------------------------------------------------
(* Acquisition.  Admitted is the predicate the thread waits for.           *)

(* With a fault: a writer does not wait for readers.                       *)
AdmittedAmongReaders(f, m) ==
  ~hasWriter[f] /\ (m = "read" => pendingWriters[f] = 0)

(* With a fault: a reader does not wait for the writers that wait.         *)
AdmittedPastWriters(f, m) ==
  IF m = "read" THEN ~hasWriter[f] ELSE ~hasWriter[f] /\ readers[f] = 0

Admitted(f, m) ==
  IF m = "read" THEN ~hasWriter[f] /\ pendingWriters[f] = 0
                ELSE ~hasWriter[f] /\ readers[f] = 0

(* With a fault: the file is not looked for.                               *)
ReaderEntersUnchecked(c, f, granted) ==
  /\ granted
  /\ readers[f] < MaxReaders
  /\ readers' = [readers EXCEPT ![f] = @ + 1]
  /\ SetSession(c, f, "reader")
  /\ UNCHANGED <<hasWriter, disk>>

(* With a fault: a client that reads already is not counted again.         *)
ReaderEntersOncePerClient(c, f, granted) ==
  /\ IF granted
       THEN /\ Exists(f)
            /\ readers[f] < MaxReaders
            /\ readers' = [readers EXCEPT ![f] = IF c \in ReadersOf(f) THEN @ ELSE @ + 1]
            /\ SetSession(c, f, "reader")
       ELSE /\ ~Exists(f) \/ f \in FaultyFiles
            /\ UNCHANGED <<readers, sessions>>
  /\ UNCHANGED <<hasWriter, disk>>

(* What AcquireReadLock does once it is admitted: refuse when the file is  *)
(* missing or does not open, else count a reader and give it a session, in *)
(* the place of one the client may have.                                   *)
ReaderEnters(c, f, granted) ==
  /\ IF granted
       THEN /\ Exists(f)
            /\ readers[f] < MaxReaders
            /\ readers' = [readers EXCEPT ![f] = @ + 1]
            /\ SetSession(c, f, "reader")
       ELSE /\ ~Exists(f) \/ f \in FaultyFiles
            /\ UNCHANGED <<readers, sessions>>
  /\ UNCHANGED <<hasWriter, disk>>

(* What AcquireWriteLock does once it is admitted: make the directories,   *)
(* open the file, create it if asked to and if it did not open, and give   *)
(* the client the one writer's session.  To delete it does not matter      *)
(* whether the file opened.  It gives up when a file to be created does    *)
(* not open, and when the directories cannot be made (an exception).  A    *)
(* file that the system refuses to open is refused at both attempts.       *)
WriterEnters(c, f, m, granted) ==
  /\ \/ /\ granted
        /\ \E handle \in {"writer", "closed"} :
             /\ handle = "writer" => m = "create" \/ Exists(f)
             /\ handle = "closed" => /\ m = "delete"
                                     /\ ~Exists(f) \/ f \in FaultyFiles
             /\ SetSession(c, f, handle)
        /\ disk' = IF m = "create" /\ ~Exists(f)
                     THEN [disk EXCEPT ![f] = <<>>] ELSE disk
        /\ hasWriter' = [hasWriter EXCEPT ![f] = TRUE]
     \/ /\ ~granted
        /\ f \in FaultyFiles
        /\ UNCHANGED <<sessions, disk, hasWriter>>
  /\ UNCHANGED readers

Enters(c, f, m, granted) ==
  IF m = "read" THEN ReaderEnters(c, f, granted)
                ELSE WriterEnters(c, f, m, granted)

(* A call that finds the file free does not wait.                          *)
AcquireAtOnce(t, c, f, m, granted) ==
  /\ MutexFree
  /\ pc[t] = "idle"
  /\ Admitted(f, m)
  /\ fileLocks' = fileLocks \cup {f}
  /\ Enters(c, f, m, granted)
  /\ UNCHANGED <<pendingWriters, pc, call>>

AcquireWaits(t, c, f, m) ==
  /\ MutexFree
  /\ pc[t] = "idle"
  /\ ~Admitted(f, m)
  /\ fileLocks' = fileLocks \cup {f}
  /\ pendingWriters' = [pendingWriters EXCEPT ![f] = IF m = "read" THEN @ ELSE @ + 1]
  /\ pc' = [pc EXCEPT ![t] = "waiting"]
  /\ call' = [call EXCEPT ![t] = [client |-> c, file |-> f, mode |-> m]]
  /\ UNCHANGED <<readers, hasWriter, sessions, disk>>

(* With a fault: a call that is refused leaves pending_writers counted.    *)
WakesUpUncounted(t, granted) ==
  LET f == call[t].file
      m == call[t].mode
  IN  /\ MutexFree
      /\ pc[t] = "ready"
      /\ Admitted(f, m)
      /\ pendingWriters' = [pendingWriters EXCEPT
           ![f] = IF m = "read" \/ ~granted THEN @ ELSE @ - 1]
      /\ Enters(call[t].client, f, m, granted)
      /\ pc' = [pc EXCEPT ![t] = "idle"]
      /\ call' = [call EXCEPT ![t] = NoCall]
      /\ UNCHANGED fileLocks

(* A notified thread has the mutex again: it goes on, or waits again.      *)
WakesUp(t, granted) ==
  LET f == call[t].file
      m == call[t].mode
  IN  /\ MutexFree
      /\ pc[t] = "ready"
      /\ Admitted(f, m)
      /\ pendingWriters' =
           [pendingWriters EXCEPT ![f] = IF m = "read" THEN @ ELSE @ - 1]
      /\ Enters(call[t].client, f, m, granted)
      /\ pc' = [pc EXCEPT ![t] = "idle"]
      /\ call' = [call EXCEPT ![t] = NoCall]
      /\ UNCHANGED fileLocks

WaitsAgain(t) ==
  /\ MutexFree
  /\ pc[t] = "ready"
  /\ ~Admitted(call[t].file, call[t].mode)
  /\ pc' = [pc EXCEPT ![t] = "waiting"]
  /\ UNCHANGED <<lockVars, disk, call>>

(* std::condition_variable::wait may return without a notification.        *)
SpuriousWakeup(t) ==
  /\ pc[t] = "waiting"
  /\ pc' = [pc EXCEPT ![t] = "ready"]
  /\ UNCHANGED <<lockVars, disk, call>>

-----------------------------------------------------------------------------
(* Release.  Both methods erase whatever session the client has, and then  *)
(* take it for one of the kind they release.  readers is a uint64_t.       *)

(* With a fault: nobody is notified.                                       *)
ReleaseWriteLockSilently(c, f) ==
  /\ MutexFree
  /\ IF f \in fileLocks /\ sessions[f][c] # "none"
       THEN /\ SetSession(c, f, "none")
            /\ hasWriter' = [hasWriter EXCEPT ![f] = FALSE]
       ELSE UNCHANGED <<sessions, hasWriter>>
  /\ UNCHANGED <<fileLocks, readers, pendingWriters, disk, pc, call>>

ReleaseWriteLock(c, f) ==
  /\ MutexFree
  /\ IF f \in fileLocks /\ sessions[f][c] # "none"
       THEN /\ SetSession(c, f, "none")
            /\ hasWriter' = [hasWriter EXCEPT ![f] = FALSE]
            /\ NotifyAll(f)
       ELSE UNCHANGED <<sessions, hasWriter, pc>>
  /\ UNCHANGED <<fileLocks, readers, pendingWriters, disk, call>>

(* With a fault: readers is a signed number.                               *)
ReleaseReadLockSigned(c, f) ==
  /\ MutexFree
  /\ IF f \in fileLocks /\ sessions[f][c] # "none"
       THEN /\ SetSession(c, f, "none")
            /\ readers' = [readers EXCEPT ![f] = @ - 1]
            /\ IF readers[f] = 1 THEN NotifyAll(f) ELSE UNCHANGED pc
       ELSE UNCHANGED <<sessions, readers, pc>>
  /\ UNCHANGED <<fileLocks, pendingWriters, hasWriter, disk, call>>

(* With a fault: readers goes down whether there was a session or not.     *)
ReleaseReadLockTwice(c, f) ==
  /\ MutexFree
  /\ IF f \in fileLocks
       THEN /\ SetSession(c, f, "none")
            /\ readers' = [readers EXCEPT ![f] = IF @ = 0 THEN MaxReaders ELSE @ - 1]
            /\ IF readers[f] = 1 THEN NotifyAll(f) ELSE UNCHANGED pc
       ELSE UNCHANGED <<sessions, readers, pc>>
  /\ UNCHANGED <<fileLocks, pendingWriters, hasWriter, disk, call>>

(* With a fault: readers is tested before it goes down.                    *)
ReleaseReadLockTestsFirst(c, f) ==
  /\ MutexFree
  /\ IF f \in fileLocks /\ sessions[f][c] # "none"
       THEN /\ SetSession(c, f, "none")
            /\ readers' = [readers EXCEPT ![f] = IF @ = 0 THEN MaxReaders ELSE @ - 1]
            /\ IF readers[f] = 0 THEN NotifyAll(f) ELSE UNCHANGED pc
       ELSE UNCHANGED <<sessions, readers, pc>>
  /\ UNCHANGED <<fileLocks, pendingWriters, hasWriter, disk, call>>

ReleaseReadLock(c, f) ==
  /\ MutexFree
  /\ IF f \in fileLocks /\ sessions[f][c] # "none"
       THEN /\ SetSession(c, f, "none")
            /\ readers' = [readers EXCEPT ![f] = IF @ = 0 THEN MaxReaders ELSE @ - 1]
            /\ IF readers[f] = 1 THEN NotifyAll(f) ELSE UNCHANGED pc
       ELSE UNCHANGED <<sessions, readers, pc>>
  /\ UNCHANGED <<fileLocks, pendingWriters, hasWriter, disk, call>>

-----------------------------------------------------------------------------
(* Access.  A chunk is written at any offset; what lies between the end of *)
(* the file and the offset reads as zeros.  A write that fails leaves the  *)
(* stream failed, and every later one fails.                               *)

WriteAt(s, i, v) ==
  [k \in 1..(IF i > Len(s) THEN i ELSE Len(s)) |->
     IF k = i THEN v ELSE IF k <= Len(s) THEN s[k] ELSE Hole]

(* With a fault: it is enough that somebody has the file to write.         *)
WriteFileOfAnyone(c, f, i, v, written) ==
  /\ MutexFree
  /\ written
  /\ f \in fileLocks /\ hasWriter[f] /\ Exists(f)
  /\ disk' = [disk EXCEPT ![f] = WriteAt(@, i, v)]
  /\ UNCHANGED <<lockVars, pc, call>>

(* A write that fails may have changed any part of the chunk's place.      *)
WritesInPart(f, i) ==
  \/ UNCHANGED disk
  \/ \E part \in Chunks : disk' = [disk EXCEPT ![f] = WriteAt(@, i, part)]

WriteFile(c, f, i, v, written) ==
  /\ MutexFree
  /\ \/ /\ written
        /\ f \in fileLocks
        /\ sessions[f][c] = "writer"
        /\ disk' = [disk EXCEPT ![f] = WriteAt(@, i, v)]
        /\ UNCHANGED sessions
     \/ /\ ~written
        /\ sessions[f][c] = "writer"
        /\ f \in FaultyFiles
        /\ WritesInPart(f, i)
        /\ SetSession(c, f, "closed")
     \/ /\ ~written
        /\ sessions[f][c] # "writer"
        /\ UNCHANGED <<sessions, disk>>
  /\ UNCHANGED <<fileLocks, readers, pendingWriters, hasWriter, pc, call>>

(* ReadFile needs a reader's session and changes nothing.                  *)
MayRead(c, f) == f \in fileLocks /\ sessions[f][c] = "reader"

-----------------------------------------------------------------------------
(* Removal.  The caller needs a writer's session.  The sessions go first;  *)
(* if the file turns out to be missing the method returns there, with      *)
(* has_writer still set.  Otherwise the FileLock goes with the file, and   *)
(* destroys the condition variable and the counters others may wait on.    *)

(* With a fault: any session will do.                                      *)
MayRemoveByAnySession(c, f) == f \in fileLocks /\ sessions[f][c] # "none"

MayRemove(c, f) == /\ f \in fileLocks
                   /\ sessions[f][c] \in {"writer", "closed"}
                   /\ readers[f] = 0

ClearSessions(f) == sessions' = [sessions EXCEPT ![f] = [c \in Clients |-> "none"]]

EraseLock(f) ==
  /\ fileLocks' = fileLocks \ {f}
  /\ readers' = [readers EXCEPT ![f] = 0]
  /\ pendingWriters' = [pendingWriters EXCEPT ![f] = 0]
  /\ hasWriter' = [hasWriter EXCEPT ![f] = FALSE]
  /\ ClearSessions(f)

Orphaned(f) == [t \in Threads |->
                  IF At(t, f, {"waiting", "ready"}) THEN "orphaned" ELSE pc[t]]

RemoveFile(t, c, f, status) ==
  /\ MutexFree
  /\ pc[t] = "idle"
  /\ \/ /\ status = "FILE_LOCKED"
        /\ ~MayRemove(c, f)
        /\ UNCHANGED <<lockVars, disk, pc>>
     \/ /\ status = "FILE_NOT_FOUND"
        /\ MayRemove(c, f)
        /\ ~Exists(f)
        /\ ClearSessions(f)
        /\ UNCHANGED <<fileLocks, readers, pendingWriters, hasWriter, disk, pc>>
     \/ /\ status \in {"FILE_OK", "FILE_ERROR"}
        /\ MayRemove(c, f)
        /\ Exists(f)
        /\ status = "FILE_ERROR" => f \in FaultyFiles
        /\ EraseLock(f)
        /\ disk' = IF status = "FILE_OK" THEN [disk EXCEPT ![f] = NoFile] ELSE disk
        /\ pc' = Orphaned(f)
  /\ UNCHANGED call

(* To destroy a condition variable with waiters is undefined.  Where the   *)
(* destructor waits for them (glibc's pthread_cond_destroy), RemoveFile    *)
(* never returns, whether it has removed the file or failed to, and it has *)
(* the mutex.                                                              *)
RemoveFileHangs(t, c, f) ==
  /\ MutexFree
  /\ pc[t] = "idle"
  /\ MayRemove(c, f)
  /\ Exists(f)
  /\ \E u \in Threads : At(u, f, {"waiting"})
  /\ EraseLock(f)
  /\ \/ disk' = [disk EXCEPT ![f] = NoFile]
     \/ f \in FaultyFiles /\ UNCHANGED disk
  /\ pc' = [Orphaned(f) EXCEPT ![t] = "destroying"]
  /\ UNCHANGED call

(* A thread that refers to a destroyed FileLock may stay in its wait for   *)
(* ever.  It may also wake, find in the freed memory whatever admits it,   *)
(* open (and create) the file, or fail to, and return: no lock of the      *)
(* table knows it.                                                         *)
OrphanReturns(t) ==
  /\ MutexFree
  /\ pc[t] = "orphaned"
  /\ LET f == call[t].file
         makes == call[t].mode = "create" /\ ~Exists(f)
     IN  \/ makes /\ disk' = [disk EXCEPT ![f] = <<>>]
         \/ (makes => f \in FaultyFiles) /\ UNCHANGED disk
  /\ pc' = [pc EXCEPT ![t] = "idle"]
  /\ call' = [call EXCEPT ![t] = NoCall]
  /\ UNCHANGED lockVars

-----------------------------------------------------------------------------

ThreadStep(t) ==
  \/ WaitsAgain(t)
  \/ SpuriousWakeup(t)
  \/ OrphanReturns(t)
  \/ \E granted \in BOOLEAN : WakesUp(t, granted)

(* The calls a client can make through thread t.                           *)
Call(t, c, f) ==
  \/ \E m \in Modes : AcquireWaits(t, c, f, m)
  \/ \E m \in Modes, granted \in BOOLEAN : AcquireAtOnce(t, c, f, m, granted)
  \/ \E status \in FileStatus : RemoveFile(t, c, f, status)
  \/ RemoveFileHangs(t, c, f)
  \/ ReleaseWriteLock(c, f)
  \/ ReleaseReadLock(c, f)
  \/ \E i \in 1..MaxChunks, v \in Chunks, written \in BOOLEAN :
       WriteFile(c, f, i, v, written)

Next == \E t \in Threads :
          \/ ThreadStep(t)
          \/ \E c \in Clients, f \in Files : Call(t, c, f)

Spec == Init /\ [][Next]_vars

-----------------------------------------------------------------------------
(* Properties.                                                             *)

Types ==
  /\ fileLocks \subseteq Files
  /\ readers \in [Files -> 0..MaxReaders]
  /\ pendingWriters \in [Files -> Nat]
  /\ hasWriter \in [Files -> BOOLEAN]
  /\ sessions \in [Files -> [Clients -> Sessions]]
  /\ disk \in [Files -> Seq(Chunks) \cup {NoFile}]
  /\ pc \in [Threads -> ThreadStates]
  /\ call \in [Threads -> Calls \cup {NoCall}]

(* A thread that waits has a call, on a FileLock that is in the table.     *)
WaitersHaveLocks ==
  \A t \in Threads :
    /\ pc[t] \in {"waiting", "ready", "orphaned"} => call[t] \in Calls
    /\ pc[t] \in {"waiting", "ready"} => call[t].file \in fileLocks

(* The FileLock a path would be given is a new one.                        *)
NewLocksAreFree ==
  \A f \in Files \ fileLocks :
    /\ readers[f] = 0 /\ ~hasWriter[f]
    /\ \A c \in Clients : sessions[f][c] = "none"

(* The variables have their types and stand for a table of FileLocks.      *)
TypeOK == Types /\ WaitersHaveLocks /\ NewLocksAreFree

(* A file has at most one writer, and while it has one it has no reader:   *)
(* what AcquireWriteLock and AcquireReadLock wait for.  Neither a release  *)
(* of the wrong kind, nor a second acquisition by the same client, nor a   *)
(* failed removal gives two clients a file that only one may have.         *)
MutualExclusion ==
  \A f \in Files : \A c \in WritersOf(f) :
    WritersOf(f) \cup ReadersOf(f) = {c}

(* has_writer and readers never claim less than the sessions say: every    *)
(* session is accounted for.  (They may claim more.  A client that reads   *)
(* twice is counted twice and released once, a reader that releases a      *)
(* write lock stays counted, a writer that releases a read lock leaves     *)
(* has_writer set and the counter wrapped around.)                         *)
CountsCoverSessions ==
  \A f \in Files : /\ WritersOf(f) # {} => hasWriter[f]
                   /\ Cardinality(ReadersOf(f)) <= readers[f]

WaitingWriters(f) == {t \in Threads : /\ At(t, f, {"waiting", "ready"})
                                      /\ call[t].mode # "read"}

(* FileLock::pending_writers is the number of threads that are between its *)
(* increment and its decrement in AcquireWriteLock.  Were it higher, no    *)
(* reader would be admitted again; were it lower, readers would overtake   *)
(* the writers that wait.                                                  *)
PendingWritersCounted ==
  \A f \in Files : pendingWriters[f] = Cardinality(WaitingWriters(f))

(* A client that has a session with an open handle has a file under it:    *)
(* no removal takes a file away from a client that reads or writes it.     *)
HandlesHaveFiles ==
  \A f \in Files, c \in Clients : sessions[f][c] \in {"reader", "writer"} => Exists(f)

(* A thread that has not been notified is not admitted: every change of a  *)
(* FileLock that lets a writer in comes with a notification of the writers *)
(* that wait.  It holds on every path, the failing ones included.          *)
NoLostWriterWakeup ==
  \A t \in Threads : pc[t] = "waiting" /\ call[t].mode # "read"
                       => ~Admitted(call[t].file, call[t].mode)

(* The same for a thread that waits to read.                               *)
NoLostReaderWakeup ==
  \A t \in Threads : pc[t] = "waiting" /\ call[t].mode = "read"
                       => ~Admitted(call[t].file, "read")

(* While a client reads a file, the file stays there and stays as it is:   *)
(* this is what a reader of several chunks relies on.                      *)
ReadersSeeOneFile ==
  [][\A f \in Files : ReadersOf(f) # {} => disk'[f] = disk[f]]_vars

(* No call takes a session away from two clients: RemoveFile clears all    *)
(* the sessions of a file, and there is only the caller's to clear.        *)
OneSessionEndsAtATime ==
  [][\A f \in Files : \A c, d \in Clients :
       /\ sessions[f][c] # "none" /\ sessions'[f][c] = "none"
       /\ sessions[f][d] # "none" /\ sessions'[f][d] = "none"
       => c = d]_vars

(* No thread begins to read while another one waits to write.              *)
ReadersYieldToWriters ==
  [][\A f \in Files :
       WaitingWriters(f) # {} => ReadersOf(f)' \subseteq ReadersOf(f)]_vars

(* A file that is marked as written has a client that can release it: once *)
(* a writer has released a file, the next can have it.                     *)
WriterCanRelease == \A f \in Files : hasWriter[f] => WritersOf(f) # {}

Store == INSTANCE LockedStore WITH
           readersOf <- [f \in Files |-> ReadersOf(f)],
           writersOf <- [f \in Files |-> WritersOf(f)]

(* The table implements the promise of LockedStore.                        *)
ImplementsLockedStore == Store!Spec
=============================================================================
