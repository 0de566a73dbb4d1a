---------------------------- MODULE ClientThreads ----------------------------
(***************************************************************************)
(* The threads of the client besides the user interface, as Application    *)
(* (minidfs/src/application/application.h) owns them: the file watcher and *)
(* the pool.  The main thread adds tasks to the pool; when it is done it   *)
(* destroys its members in the reverse order of their declaration, first   *)
(* file_sync_ and then worker_pool_, and waits for the threads of each.    *)
(*                                                                         *)
(* The panels are given the pool and give it nothing yet.  Here some tasks *)
(* are uploads in chunks, what the sidebar keeps upload_queue and          *)
(* cancel_upload for, and the others return or throw as they like.         *)
(***************************************************************************)
EXTENDS Naturals, Sequences, FiniteSets, PoolConstants

CONSTANTS
  Paths, MaxWrites, Length, Capacity, MaxFailures,  \* FileSync
  Uploads, ChunkSize, MaxSize                       \* ChunkedUpload

ASSUME UploadsAssumption == Uploads \subseteq Tasks
ASSUME LengthAssumption == Length \in [1..MaxWrites -> Nat \ {0}]
ASSUME BoundsAssumption ==
  /\ MaxWrites \in Nat /\ MaxFailures \in Nat /\ Capacity \in Nat \ {0}
  /\ ChunkSize \in Nat \ {0} /\ MaxSize \in Nat \ {0}

VARIABLES
  platform, opens, local, remote, extent, held, failed, failures, writes, notices,
  overflow, renamed, at, buffer, pos, content, sync,
  queue, stop, worker, owner, outcome, crashed,
  length, size, uploaded, last, cancel, phase, result, received, whole

FS == INSTANCE FileSync
Pool == INSTANCE WorkerPool
Up == INSTANCE ChunkedUpload

fileSyncVars == <<platform, opens, local, remote, extent, held, failed, failures,
                  writes, notices, overflow, renamed, at, buffer, pos, content, sync>>
poolVars == <<queue, stop, worker, owner, outcome, crashed>>
uploadVars == <<length, size, uploaded, last, cancel, phase, result, received, whole>>
vars == <<fileSyncVars, poolVars, uploadVars>>

(* Bound: files change or there are tasks, not both in one execution.  The  *)
(* watcher and the pool share nothing but the end of the application.      *)
ForFiles == \A u \in Uploads : length[u] = 0 /\ phase[u] = "open"

Init == FS!Init /\ Pool!Init /\ Up!Init /\ (ForFiles \/ platform = "mac")

-----------------------------------------------------------------------------

FilesChange ==
  /\ ForFiles /\ \A k \in Tasks : outcome[k] = "new"
  /\ FS!FilesChange
  /\ UNCHANGED <<poolVars, uploadVars>>
Watches == FS!WatcherStep /\ UNCHANGED <<poolVars, uploadVars>>

(* A call of the watcher fails, or will wait for the lock of another.      *)
ServerFails ==
  /\ FS!CallFails \/ \E p \in Paths : FS!OtherKeepsLock(p)
  /\ UNCHANGED <<poolVars, uploadVars>>

(* The main thread.                                                        *)
Adds(k) == ~ForFiles /\ sync = "on" /\ Pool!Add(k) /\ UNCHANGED <<fileSyncVars, uploadVars>>
Cancels(u) == ~ForFiles /\ sync = "on" /\ Up!Cancel(u) /\ UNCHANGED <<fileSyncVars, poolVars>>

DestroysFileSync ==
  /\ owner = "free"
  /\ FS!Stop
  /\ UNCHANGED <<poolVars, uploadVars>>
JoinsFileSync == FS!Join /\ UNCHANGED <<poolVars, uploadVars>>
DestroysPool == sync = "gone" /\ Pool!BeginShutdown /\ UNCHANGED <<fileSyncVars, uploadVars>>
OwnerGoesOn == Pool!OwnerStep /\ UNCHANGED <<fileSyncVars, uploadVars>>

(* A callback of the Mac's stream that runs on after the object is gone    *)
(* may crash, or not.                                                      *)
CallbackCrashes ==
  /\ platform = "mac" /\ sync = "gone"
  /\ at \in {"handle", "locked", "sending"}
  /\ crashed' = TRUE
  /\ UNCHANGED <<fileSyncVars, queue, stop, worker, owner, outcome, uploadVars>>

(* A thread of the pool, and the upload it runs.                           *)
Works(w) == Pool!WorkerStep(w) /\ UNCHANGED <<fileSyncVars, uploadVars>>

Uploading(w, u) == Pool!Running(w, u) /\ Up!Step(u) /\ UNCHANGED <<fileSyncVars, poolVars>>

Returns(w, k) ==
  /\ k \in Uploads => phase[k] = "ended"
  /\ Pool!TaskReturns(w, k)
  /\ UNCHANGED <<fileSyncVars, uploadVars>>

(* An upload that throws does so before its first chunk.                   *)
Throws(w, k) ==
  /\ k \in Uploads => phase[k] = "open"
  /\ Pool!TaskThrows(w, k) \/ Pool!TaskKills(w, k)
  /\ UNCHANGED <<fileSyncVars, uploadVars>>

FileIsCutShort(u) ==
  /\ outcome[u] = "added"
  /\ \E n \in 0..MaxSize : Up!CutShort(u, n)
  /\ UNCHANGED <<fileSyncVars, poolVars>>

Next ==
  /\ ~crashed
  /\ \/ FilesChange \/ Watches \/ ServerFails
     \/ DestroysFileSync \/ JoinsFileSync \/ DestroysPool \/ OwnerGoesOn \/ CallbackCrashes
     \/ \E k \in Tasks : Adds(k)
     \/ \E u \in Uploads : Cancels(u) \/ FileIsCutShort(u)
     \/ \E w \in Workers : Works(w) \/ \E k \in Tasks : Returns(w, k) \/ Throws(w, k)
     \/ \E w \in Workers : \E u \in Uploads : Uploading(w, u)

(* Threads are scheduled, requests are answered or given up, tasks come to *)
(* an end, and the destructors go on.                                      *)
Fairness ==
  /\ WF_vars(~crashed /\ Watches)
  /\ WF_vars(~crashed /\ (JoinsFileSync \/ DestroysPool \/ OwnerGoesOn))
  /\ \A w \in Workers :
       WF_vars(~crashed /\ (Works(w) \/ (\E k \in Tasks : Returns(w, k))
                                     \/ (\E u \in Uploads : Uploading(w, u))))

Spec == Init /\ [][Next]_vars /\ Fairness

-----------------------------------------------------------------------------
(* Properties.                                                             *)

TypeOK == FS!TypeOK /\ Pool!TypeOK /\ Up!TypeOK

(* See WorkerPool: no thread sleeps through a task or the end.             *)
NobodyOversleeps == Pool!NobodyOversleeps

(* See WorkerPool: no task is lost or run twice.                           *)
TasksAreKeptOnce == Pool!TasksAreKeptOnce

(* See ChunkedUpload: what an upload reports is so.                        *)
UploadsAreReported == Up!UploadsAreReported

(* See FileSync: on a Mac a change is lost by failing calls only, or in a  *)
(* file that is longer at the server.                                      *)
ChangesAreNotLost == FS!ChangesAreNotLost

(* See FileSync: what is noticed comes to the server.                      *)
NoticedFilesAreStored == FS!NoticedFilesAreStored

(* An application that is closed ends, with an outcome for every task that *)
(* was added, unless the watcher has blocked itself or a task has brought  *)
(* the process down.                                                       *)
ApplicationEnds ==
  (sync # "on") ~>
    \/ owner = "joined" /\ \A k \in Tasks : outcome[k] # "added"
    \/ FS!Blocked \/ crashed
=============================================================================
