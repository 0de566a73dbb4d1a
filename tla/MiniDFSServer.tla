--------------------------- MODULE MiniDFSServer ---------------------------
(***************************************************************************)
(* Uploads, downloads and removals: the operations of MiniDFSClient        *)
(* (minidfs/src/dfs/client/minidfs_client.cpp) and the reactors of         *)
(* MiniDFSImpl (minidfs/src/dfs/server/minidfs_impl.cpp) that serve them,  *)
(* over the lock table of FileManager and the registry of PubSubManager.   *)
(*                                                                         *)
(* An operation t asks for a lock with one call, GetFileLock, and then     *)
(* makes another call, StoreFile, FetchFile or RemoveFile, whose reactor   *)
(* uses the lock and is to release it.  The lock belongs to a client id,   *)
(* not to the operation or to the connection.  A call is served by a       *)
(* callback thread of gRPC; GetFileLock waits for the lock on that thread. *)
(* Operation t and the thread that serves its GetFileLock share a name.    *)
(***************************************************************************)
EXTENDS Naturals, Sequences, FiniteSets

CONSTANTS
  Clients, Files, Threads, Chunks, Hole, FaultyFiles,       \* of FileManager
  MaxReaders, MaxChunks, NoFile, NoCall,
  Reactors, NoReactor, MaxChanges,                          \* of PubSubManager
  NoClient,     \* the empty client id
  ClientOf,     \* ClientOf[t]: the client id operation t is made with
  Kinds,        \* the kinds of operations made: "store", "fetch", "remove"
  LocalFiles,   \* what the client's own file may hold, or NoFile
  MayVanish,    \* the operations whose client may crash or be cut off
  PoolSize,     \* the number of callback threads
  MaxOperations \* bound: operations made one after another as t, at least 1

ASSUME ClientAssumption == ClientOf \in [Threads -> Clients] /\ NoClient \notin Clients
ASSUME KindsAssumption == Kinds \subseteq {"store", "fetch", "remove"}
ASSUME LocalAssumption ==
  \A local \in LocalFiles \ {NoFile} : local \in Seq(Chunks) /\ Len(local) <= MaxChunks

(* What FileManager and PubSubManager assume of their constants.           *)
ASSUME FilesAssumption == FaultyFiles \subseteq Files
ASSUME FiniteAssumption == IsFiniteSet(Clients) /\ IsFiniteSet(Threads)
ASSUME ChunksAssumption == Hole \in Chunks /\ NoFile \notin Seq(Chunks)
ASSUME ReactorsAssumption == NoReactor \notin Reactors
ASSUME CountAssumption ==
  /\ MaxReaders \in Nat \ {0} /\ MaxChunks \in Nat
  /\ MaxChanges \in Nat /\ MaxOperations \in Nat

VARIABLES
  fileLocks, readers, pendingWriters, hasWriter, sessions, disk, pc, call,
  registry, version, published, stage, owner, queue, writing, seen, aborted,
  step,       \* step[t]: how far operation t has got
  op,         \* op[t]: what it is, or NoCall
  moved,      \* moved[t]: the chunks it has transferred
  gone,       \* gone[t]: its client has vanished
  reply,      \* reply[t]: the status it returned, until t begins the next one
  onDone,     \* the reactors of RemoveFile whose OnDone has things left to do
  operations  \* operations[t]: how many operations were made as t

fmVars == <<fileLocks, readers, pendingWriters, hasWriter, sessions, disk, pc, call>>
psVars == <<registry, version, published, stage, owner, queue, writing, seen, aborted>>
opVars == <<step, op, moved, gone, reply, onDone, operations>>
vars == <<fmVars, psVars, opVars>>

FM == INSTANCE FileManager
PS == INSTANCE PubSubManager WITH Clients <- Clients \cup {NoClient}

Steps == {"idle", "locking", "locked", "storing", "released", "counted",
          "fetching", "removing"}
Replies == {"none", "OK", "ABORTED", "NOT_FOUND", "DATA_LOSS", "INTERNAL"}

(* Of its local file, an operation that fetches depends on whether it      *)
(* opens, one that removes on nothing.                                     *)
Locals(kind) == CASE kind = "store" -> LocalFiles
                  [] kind = "fetch" -> {<<>>} \cup (LocalFiles \cap {NoFile})
                  [] kind = "remove" -> {<<>>}

Operations == [kind : Kinds, file : Files, local : UNION {Locals(k) : k \in Kinds}]
OnDones == [thread : Threads, file : Files, next : {"release", "publish"}]

Init ==
  /\ FM!Init
  /\ PS!Init
  /\ step = [t \in Threads |-> "idle"]
  /\ op = [t \in Threads |-> NoCall]
  /\ moved = [t \in Threads |-> <<>>]
  /\ gone = [t \in Threads |-> FALSE]
  /\ reply = [t \in Threads |-> "none"]
  /\ onDone = {}
  /\ operations = [t \in Threads |-> 0]

(* A callback of gRPC runs on a thread that does not wait for a lock.      *)
HasThread == Cardinality({t \in Threads : pc[t] # "idle"}) < PoolSize

Goes(t, where) == /\ step' = [step EXCEPT ![t] = where]
                  /\ reply' = [reply EXCEPT ![t] = "none"]

Returns(t, status) ==
  /\ step' = [step EXCEPT ![t] = "idle"]
  /\ reply' = [reply EXCEPT ![t] = status]

At(t, where, kind) == step[t] = where /\ op[t].kind = kind

-----------------------------------------------------------------------------
(* GetFileLock.                                                            *)

ModeOf(kind) == CASE kind = "store" -> "create"
                  [] kind = "fetch" -> "read"
                  [] kind = "remove" -> "delete"

LockAnswered(t, granted) ==
  IF ~granted THEN Returns(t, "ABORTED")
              ELSE IF gone[t] THEN Returns(t, "none") ELSE Goes(t, "locked")

Begin(t, kind, f, local) ==
  /\ step[t] = "idle"
  /\ operations[t] < MaxOperations
  /\ HasThread
  /\ op' = [op EXCEPT ![t] = [kind |-> kind, file |-> f, local |-> local]]
  /\ moved' = [moved EXCEPT ![t] = <<>>]
  /\ gone' = [gone EXCEPT ![t] = FALSE]
  /\ operations' = [operations EXCEPT ![t] = @ + 1]
  /\ \/ /\ FM!AcquireWaits(t, ClientOf[t], f, ModeOf(kind))
        /\ Goes(t, "locking")
     \/ \E granted \in BOOLEAN :
          /\ FM!AcquireAtOnce(t, ClientOf[t], f, ModeOf(kind), granted)
          /\ IF granted THEN Goes(t, "locked")
                        ELSE Returns(t, "ABORTED")
  /\ UNCHANGED <<psVars, onDone>>

(* With a fault: the call is answered when its thread is notified, whether *)
(* it is admitted or not.                                                  *)
LockWakesUpUntested(t) ==
  /\ step[t] = "locking"
  /\ \/ \E granted \in BOOLEAN : FM!WakesUp(t, granted) /\ LockAnswered(t, granted)
     \/ FM!WaitsAgain(t) /\ LockAnswered(t, TRUE)
  /\ UNCHANGED <<psVars, op, moved, gone, onDone, operations>>

(* The thread that waits for the lock gets it, or waits again.             *)
LockWakesUp(t) ==
  /\ step[t] = "locking"
  /\ \/ \E granted \in BOOLEAN : FM!WakesUp(t, granted) /\ LockAnswered(t, granted)
     \/ FM!WaitsAgain(t) /\ UNCHANGED <<step, reply>>
  /\ UNCHANGED <<psVars, op, moved, gone, onDone, operations>>

LockSpuriousWakeup(t) ==
  /\ FM!SpuriousWakeup(t)
  /\ UNCHANGED <<psVars, opVars>>

(* The lock the thread waited for is destroyed; the call may still return. *)
LockOrphanReturns(t) ==
  /\ FM!OrphanReturns(t)
  /\ \E granted \in BOOLEAN : LockAnswered(t, granted)
  /\ UNCHANGED <<psVars, op, moved, gone, onDone, operations>>

-----------------------------------------------------------------------------
(* StoreFile.  The client opens its file only now.  It streams the chunks; *)
(* the server writes each at the offset it has reached, under the client   *)
(* id and the path that came with the first chunk.                         *)

StoreOpens(t) ==
  /\ At(t, "locked", "store")
  /\ IF op[t].local = NoFile THEN Returns(t, "NOT_FOUND") ELSE Goes(t, "storing")
  /\ UNCHANGED <<fmVars, psVars, op, moved, gone, onDone, operations>>

StoreChunk(t) ==
  /\ At(t, "storing", "store")
  /\ HasThread
  /\ Len(moved[t]) < Len(op[t].local)
  /\ LET i == Len(moved[t]) + 1
         v == op[t].local[i]
     IN  \E written \in BOOLEAN :
           /\ FM!WriteFile(ClientOf[t], op[t].file, i, v, written)
           /\ IF written THEN /\ moved' = [moved EXCEPT ![t] = Append(@, v)]
                              /\ UNCHANGED <<step, reply>>
                         ELSE Returns(t, "DATA_LOSS") /\ UNCHANGED moved
  /\ UNCHANGED <<psVars, op, gone, onDone, operations>>

(* With a fault: the lock is not released.                                 *)
StoreForgetsToRelease(t) ==
  /\ At(t, "storing", "store")
  /\ HasThread
  /\ Len(moved[t]) = Len(op[t].local) \/ gone[t]
  /\ Goes(t, "released")
  /\ UNCHANGED <<fmVars, psVars, op, moved, gone, onDone, operations>>

(* OnReadDone(false): the client has sent everything, or is gone.  Without *)
(* a first chunk the server knows no client and no path, and releases      *)
(* nothing.  It releases, counts the change, publishes it and answers.     *)
StoreReleases(t) ==
  /\ At(t, "storing", "store")
  /\ HasThread
  /\ Len(moved[t]) = Len(op[t].local) \/ gone[t]
  /\ IF moved[t] = <<>> THEN FM!MutexFree /\ UNCHANGED fmVars
                        ELSE FM!ReleaseWriteLock(ClientOf[t], op[t].file)
  /\ Goes(t, "released")
  /\ UNCHANGED <<psVars, op, moved, gone, onDone, operations>>

StoreCounts(t) ==
  /\ step[t] = "released"
  /\ PS!IncrementVersion
  /\ Goes(t, "counted")
  /\ UNCHANGED <<fmVars, op, moved, gone, onDone, operations>>

Publisher(t) == IF moved[t] = <<>> THEN NoClient ELSE ClientOf[t]

StorePublishes(t) ==
  /\ step[t] = "counted"
  /\ PS!Publish(Publisher(t))
  /\ Returns(t, "OK")
  /\ UNCHANGED <<fmVars, op, moved, gone, onDone, operations>>

-----------------------------------------------------------------------------
(* FetchFile.  The client first opens a file of its own to write to (here: *)
(* local is NoFile if it cannot).  The server reads and sends one chunk    *)
(* after the other.  It releases the lock only if a chunk cannot be sent.  *)

FetchOpens(t) ==
  /\ At(t, "locked", "fetch")
  /\ IF op[t].local = NoFile THEN Returns(t, "INTERNAL") ELSE Goes(t, "fetching")
  /\ UNCHANGED <<fmVars, psVars, op, moved, gone, onDone, operations>>

FetchChunk(t) ==
  /\ At(t, "fetching", "fetch")
  /\ HasThread /\ FM!MutexFree
  /\ LET f == op[t].file
         i == Len(moved[t]) + 1
     IN  IF ~FM!MayRead(ClientOf[t], f)
           THEN Returns(t, "DATA_LOSS") /\ UNCHANGED moved
           ELSE IF i <= Len(disk[f])
             THEN /\ moved' = [moved EXCEPT ![t] = Append(@, disk[f][i])]
                  /\ UNCHANGED <<step, reply>>
             ELSE Returns(t, "OK") /\ UNCHANGED moved
  /\ UNCHANGED <<fmVars, psVars, op, gone, onDone, operations>>

(* OnWriteDone(false).                                                     *)
FetchBreaks(t) ==
  /\ At(t, "fetching", "fetch")
  /\ HasThread
  /\ gone[t] /\ moved[t] # <<>>
  /\ FM!ReleaseReadLock(ClientOf[t], op[t].file)
  /\ Returns(t, "OK")
  /\ UNCHANGED <<psVars, op, moved, gone, onDone, operations>>

-----------------------------------------------------------------------------
(* RemoveFile answers as soon as the file is removed.  Whatever came of    *)
(* it, the reactor's OnDone, when gRPC gets to it, releases the lock the   *)
(* client then has on the path, and publishes that the file is gone.       *)

StatusOf(status) == CASE status = "FILE_OK" -> "OK"
                      [] status = "FILE_LOCKED" -> "ABORTED"
                      [] status = "FILE_NOT_FOUND" -> "NOT_FOUND"
                      [] status = "FILE_ERROR" -> "INTERNAL"

Removes(t) ==
  LET f == op[t].file
  IN  /\ At(t, "locked", "remove")
      /\ HasThread
      /\ \A d \in onDone : d.thread # t     \* bound: one OnDone pending per t
      /\ \/ \E status \in FM!FileStatus :
              /\ FM!RemoveFile(t, ClientOf[t], f, status)
              /\ Returns(t, StatusOf(status))
              /\ onDone' = onDone \cup {[thread |-> t, file |-> f, next |-> "release"]}
         \/ /\ FM!RemoveFileHangs(t, ClientOf[t], f)
            /\ Goes(t, "removing")
            /\ UNCHANGED onDone
      /\ UNCHANGED <<psVars, op, moved, gone, operations>>

RemoveReleases(d) ==
  /\ d.next = "release"
  /\ HasThread
  /\ FM!ReleaseWriteLock(ClientOf[d.thread], d.file)
  /\ onDone' = (onDone \ {d}) \cup {[d EXCEPT !.next = "publish"]}
  /\ UNCHANGED <<psVars, step, op, moved, gone, reply, operations>>

RemovePublishes(d) ==
  /\ d.next = "publish"
  /\ PS!Publish(ClientOf[d.thread])
  /\ onDone' = onDone \ {d}
  /\ UNCHANGED <<fmVars, step, op, moved, gone, reply, operations>>

-----------------------------------------------------------------------------
(* The client's process ends, or its connection does.  The server finds    *)
(* out only from a stream; a lock that waits, or is held, does not know.   *)
Vanishes(t) ==
  /\ t \in MayVanish
  /\ ~gone[t]
  /\ step[t] \in {"locking", "locked", "storing", "fetching"}
  /\ gone' = [gone EXCEPT ![t] = TRUE]
  /\ step' = [step EXCEPT ![t] = IF @ = "locked" THEN "idle" ELSE @]
  /\ UNCHANGED <<fmVars, psVars, op, moved, reply, onDone, operations>>

(* A reactor of an update stream, of any client.                           *)
Streams(r) == PS!ReactorStep(r) /\ UNCHANGED <<fmVars, opVars>>

(* Of these, the ones gRPC sees to: no client has to open a stream, or to  *)
(* leave one.                                                              *)
StreamGoesOn(r) ==
  /\ \/ PS!SubscribeInserts(r)
     \/ PS!WriteSucceeds(r) \/ PS!WriteFails(r)
     \/ PS!UnsubscribeTests(r) \/ PS!UnsubscribeErases(r)
  /\ UNCHANGED <<fmVars, opVars>>

(* The steps the client's code and gRPC are sure to take.                  *)
Proceeds(t) ==
  \/ StoreOpens(t) \/ StoreChunk(t) \/ StoreReleases(t)
  \/ StoreCounts(t) \/ StorePublishes(t)
  \/ FetchOpens(t) \/ FetchChunk(t) \/ FetchBreaks(t)
  \/ Removes(t)

Finishes(t) ==
  \E d \in onDone : d.thread = t /\ (RemoveReleases(d) \/ RemovePublishes(d))

Next ==
  /\ ~aborted
  /\ \/ \E t \in Threads :
          \/ \E kind \in Kinds, f \in Files :
               \E local \in Locals(kind) : Begin(t, kind, f, local)
          \/ LockWakesUp(t) \/ LockSpuriousWakeup(t) \/ LockOrphanReturns(t)
          \/ Proceeds(t) \/ Finishes(t) \/ Vanishes(t)
     \/ \E r \in Reactors : Streams(r)

(* While the server runs, a thread that can run runs, an operation that    *)
(* can go on goes on; nobody has to begin an operation, and no client has  *)
(* to vanish.                                                              *)
Fairness ==
  /\ \A t \in Threads : /\ WF_vars(~aborted /\ LockWakesUp(t))
                        /\ WF_vars(~aborted /\ Proceeds(t))
                        /\ WF_vars(~aborted /\ Finishes(t))
  /\ \A r \in Reactors : WF_vars(~aborted /\ StreamGoesOn(r))

Spec == Init /\ [][Next]_vars /\ Fairness

-----------------------------------------------------------------------------
(* Properties.                                                             *)

(* The variables have their types, and an operation waits for a lock       *)
(* exactly when a thread of the server does.                               *)
TypeOK ==
  /\ FM!TypeOK
  /\ PS!TypeOK
  /\ step \in [Threads -> Steps]
  /\ op \in [Threads -> Operations \cup {NoCall}]
  /\ moved \in [Threads -> Seq(Chunks)]
  /\ gone \in [Threads -> BOOLEAN]
  /\ reply \in [Threads -> Replies]
  /\ onDone \subseteq OnDones
  /\ operations \in [Threads -> 0..MaxOperations]
  /\ \A t \in Threads :
       /\ step[t] # "idle" => op[t] \in Operations
       /\ step[t] = "locking" <=> pc[t] \in {"waiting", "ready", "orphaned"}

Fetching(t, f) == /\ step[t] \in {"locked", "fetching"}
                  /\ op[t].kind = "fetch" /\ op[t].file = f

(* FileLock::readers counts every download that has its lock and has not   *)
(* ended, although the sessions that are to account for them are kept by   *)
(* client id and two downloads of one client share one.  So no upload      *)
(* starts while a download of the same file goes on.                       *)
ReadersCoverFetches ==
  \A f \in Files : readers[f] >= Cardinality({t \in Threads : Fetching(t, f)})

(* A download that is answered OK has transferred the file as it is at     *)
(* that moment, and all of it, whoever else asked for the file between its *)
(* chunks.                                                                 *)
FetchesAreSnapshots ==
  [][\A t \in Threads :
       At(t, "fetching", "fetch") /\ reply'[t] = "OK" /\ ~gone[t]
         => moved[t] = disk[op[t].file]]_vars

(* When the last chunk of an upload is written, the file holds all of the  *)
(* chunks of this upload, and no other client's between them.              *)
StoresAreWhole ==
  [][\A t \in Threads :
       LET local == op[t].local
       IN  At(t, "storing", "store") /\ moved'[t] # moved[t] /\ moved'[t] = local
             => SubSeq(disk'[op[t].file], 1, Len(local)) = local]_vars

(* An upload of which no chunk came has ended: its client vanished before, *)
(* or has no file, or an empty one.  Nobody releases its lock.             *)
LeavesLock(t, f) ==
  /\ operations[t] > 0 /\ step[t] = "idle"
  /\ op[t].kind = "store" /\ op[t].file = f
  /\ moved[t] = <<>>

(* A client that has no upload under way has no session on the server,     *)
(* although it may have been cut off: what its uploads lock they release,  *)
(* except one of which no chunk came.                                      *)
IdleClientsHoldNothing ==
  \A c \in Clients, f \in Files :
    sessions[f][c] # "none" =>
      \E t \in Threads : ClientOf[t] = c /\ (step[t] # "idle" \/ LeavesLock(t, f))

(* A client that asks for a lock is answered, if it is the others' turn    *)
(* for a finite number of operations only, and none of them was an upload  *)
(* of the file of which no chunk came.                                     *)
LocksAreAnswered ==
  \A t \in Threads :
    step[t] = "locking" ~>
      step[t] # "locking" \/ aborted \/ \E u \in Threads : LeavesLock(u, op[t].file)

(* A client that subscribes hears of the uploads of a client that does not *)
(* (TESTS.md:29): once the server has counted the change, the stream of    *)
(* every subscriber delivers that version or a later one, unless it ends,  *)
(* is no longer registered, or the server ends.  So it is for an upload    *)
(* without chunks, which is nobody's, and for one that was cut off and is  *)
(* published as if it were whole.  An uploader with a stream of its own is *)
(* left out: its Publish may skip any of the others.                       *)
UploadsReachSubscribers ==
  \A r \in Reactors, v \in 1..MaxChanges :
    LET listens == stage[r] = "open" /\ registry[owner[r]] = r
        counted == \E t \in Threads : /\ step[t] = "counted" /\ version = v
                                      /\ \A s \in Reactors : owner[s] # Publisher(t)
    IN  counted /\ listens ~> seen[r] >= v \/ ~listens \/ aborted

(* TESTS.md:14: a file is stored, then stored again with other content;    *)
(* the new content is correct.                                             *)
StoresReplace ==
  [][\A t \in Threads :
       At(t, "storing", "store") /\ step'[t] = "released" /\ ~gone[t]
         => disk[op[t].file] = op[t].local]_vars
=============================================================================
