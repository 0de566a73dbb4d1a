------------------------ MODULE ClientThreadsProofs ------------------------
(***************************************************************************)
(* Proofs about the threads of the client: the pool, from what             *)
(* WorkerPoolProofs proves of it, the uploads its threads run, and the     *)
(* watcher.  Each step of the client is a step of one of them and leaves   *)
(* the others alone, but for a crash in a callback of the Mac's stream.    *)
(***************************************************************************)
EXTENDS ClientThreads, FiniteSetTheorems, SequenceTheorems, TLAPS

PP == INSTANCE WorkerPoolProofs

-----------------------------------------------------------------------------
(* The prover takes the operators of Pool and PP for different ones.  They *)
(* are the same.                                                           *)

LEMMA PoolInitSame == Pool!Init <=> PP!Init
BY DEF Pool!Init, PP!Init

LEMMA PoolTypeOKSame == Pool!TypeOK <=> PP!TypeOK
BY DEF Pool!TypeOK, PP!TypeOK

LEMMA WakefulnessSame == Pool!NobodyOversleeps <=> PP!NobodyOversleeps
BY DEF Pool!NobodyOversleeps, PP!NobodyOversleeps, Pool!Waiting, PP!Waiting

LEMMA KeepingSame == Pool!TasksAreKeptOnce <=> PP!TasksAreKeptOnce
<1>1. ASSUME NEW S PROVE Pool!Cardinality(S) = PP!Cardinality(S)
  BY DEF Pool!Cardinality, PP!Cardinality
<1>. QED
  BY <1>1 DEF Pool!TasksAreKeptOnce, PP!TasksAreKeptOnce

LEMMA OwnerSame ==
  ASSUME NEW k
  PROVE  /\ Pool!Add(k) <=> PP!Add(k)
         /\ Pool!BeginShutdown <=> PP!BeginShutdown
         /\ Pool!OwnerStep <=> PP!OwnerStep
<1>1. ASSUME NEW w, NEW where PROVE Pool!Goes(w, where) <=> PP!Goes(w, where)
  BY DEF Pool!Goes, PP!Goes
<1>2. Pool!NotifyOne <=> PP!NotifyOne
  BY <1>1 DEF Pool!NotifyOne, PP!NotifyOne, Pool!Waiting, PP!Waiting
<1>3. Pool!NotifyAll <=> PP!NotifyAll
  BY DEF Pool!NotifyAll, PP!NotifyAll, Pool!Waiting, PP!Waiting
<1>4. Pool!Join <=> PP!Join
  BY DEF Pool!Join, PP!Join
<1>. QED
  BY <1>2, <1>3, <1>4 DEF Pool!Add, PP!Add, Pool!BeginShutdown, PP!BeginShutdown,
     Pool!OwnerStep, PP!OwnerStep

LEMMA WorkerSame ==
  ASSUME NEW w, NEW k
  PROVE  /\ Pool!WorkerStep(w) <=> PP!WorkerStep(w)
         /\ Pool!TaskReturns(w, k) <=> PP!TaskReturns(w, k)
         /\ Pool!TaskThrows(w, k) <=> PP!TaskThrows(w, k)
         /\ Pool!TaskKills(w, k) <=> PP!TaskKills(w, k)
<1>1. ASSUME NEW where PROVE Pool!Goes(w, where) <=> PP!Goes(w, where)
  BY DEF Pool!Goes, PP!Goes
<1>2. Pool!Running(w, k) <=> PP!Running(w, k)
  BY DEF Pool!Running, PP!Running
<1>. QED
  BY <1>1, <1>2 DEF Pool!WorkerStep, PP!WorkerStep, Pool!Wait, PP!Wait, Pool!Leave, PP!Leave,
     Pool!Take, PP!Take, Pool!TaskReturns, PP!TaskReturns, Pool!TaskThrows, PP!TaskThrows,
     Pool!TaskKills, PP!TaskKills

-----------------------------------------------------------------------------
(* A step of the client, as a step of each of its parts.                   *)

PoolStep == [PP!Next]_PP!vars
PoolCrashes == crashed' = TRUE /\ UNCHANGED <<queue, stop, worker, owner, outcome>>

LEMMA StepOfParts ==
  ASSUME [Next]_vars
  PROVE  /\ [FS!Next]_FS!vars
         /\ [Up!Next]_Up!vars
         /\ PoolStep \/ PoolCrashes
<1> USE DEF fileSyncVars, poolVars, uploadVars
<1> DEFINE Parts == /\ [FS!Next]_FS!vars
                    /\ [Up!Next]_Up!vars
                    /\ PoolStep \/ PoolCrashes
<1>1. UNCHANGED fileSyncVars => [FS!Next]_FS!vars
  BY DEF FS!vars
<1>2. UNCHANGED uploadVars => [Up!Next]_Up!vars
  BY DEF Up!vars, Up!sizes, Up!cloud
<1>3. UNCHANGED poolVars => PoolStep
  BY DEF PoolStep, PP!vars
<1>4. CASE UNCHANGED vars
  BY <1>1, <1>2, <1>3, <1>4 DEF vars
<1>5. CASE FilesChange \/ Watches \/ ServerFails \/ DestroysFileSync \/ JoinsFileSync
  BY <1>2, <1>3, <1>5 DEF FilesChange, Watches, ServerFails, DestroysFileSync, JoinsFileSync, FS!Next
<1> SUFFICES ASSUME Next PROVE Parts
  BY <1>4
<1>6. ~crashed
  BY DEF Next
<1>7. CASE DestroysPool \/ OwnerGoesOn
  <2>1. PP!BeginShutdown \/ PP!OwnerStep
    BY <1>7, OwnerSame DEF DestroysPool, OwnerGoesOn
  <2> QED
    BY <2>1, <1>1, <1>2, <1>6, <1>7 DEF PoolStep, PP!Next, DestroysPool, OwnerGoesOn
<1>8. CASE CallbackCrashes
  BY <1>1, <1>2, <1>8 DEF CallbackCrashes, PoolCrashes
<1>9. ASSUME NEW k \in Tasks, Adds(k) PROVE Parts
  <2>1. PP!Add(k)
    BY <1>9, OwnerSame DEF Adds
  <2> QED
    BY <2>1, <1>1, <1>2, <1>6, <1>9 DEF PoolStep, PP!Next, Adds
<1>10. ASSUME NEW u \in Uploads, Cancels(u) \/ FileIsCutShort(u) PROVE Parts
  BY <1>1, <1>3, <1>10 DEF Cancels, FileIsCutShort, Up!Next
<1>11. ASSUME NEW w \in Workers, Works(w) PROVE Parts
  <2>1. PP!WorkerStep(w)
    BY <1>11, WorkerSame DEF Works
  <2> QED
    BY <2>1, <1>1, <1>2, <1>6, <1>11 DEF PoolStep, PP!Next, Works
<1>12. ASSUME NEW w \in Workers, NEW k \in Tasks, Returns(w, k) \/ Throws(w, k) PROVE Parts
  <2>1. PP!TaskReturns(w, k) \/ PP!TaskThrows(w, k) \/ PP!TaskKills(w, k)
    BY <1>12, WorkerSame DEF Returns, Throws
  <2> QED
    BY <2>1, <1>1, <1>2, <1>6, <1>12 DEF PoolStep, PP!Next, Returns, Throws
<1>13. ASSUME NEW w \in Workers, NEW u \in Uploads, Uploading(w, u) PROVE Parts
  BY <1>1, <1>3, <1>13 DEF Uploading, Up!Next
<1> QED
  BY <1>5, <1>7, <1>8, <1>9, <1>10, <1>11, <1>12, <1>13 DEF Next

(* What FileSync and ChunkedUpload promise by themselves, the client       *)
(* promises.                                                               *)
LEMMA PartsRun == Spec => FS!Spec /\ Up!Spec
<1>1. Init => FS!Init /\ Up!Init
  BY DEF Init
<1>2. [Next]_vars => [FS!Next]_FS!vars /\ [Up!Next]_Up!vars
  BY StepOfParts
<1> QED
  BY <1>1, <1>2, PTL DEF Spec, FS!Spec, Up!Spec

-----------------------------------------------------------------------------
(* The pool.                                                               *)

PoolInv == PP!IInv /\ PP!Places

LEMMA PoolHolds == Spec => []PoolInv
<1>1. Init => PoolInv
  BY PoolInitSame, PP!InitHolds, PP!PlacesInit, PoolAssumption DEF Init, PoolInv
<1>2. PoolInv /\ [Next]_vars => PoolInv'
  <2> SUFFICES ASSUME PoolInv, [Next]_vars PROVE PoolInv'
    OBVIOUS
  <2>1. CASE PoolStep
    <3>1. PP!IInv'
      BY <2>1, PP!StepHolds, PoolAssumption DEF PoolInv, PoolStep
    <3> QED
      BY <2>1, <3>1, PP!PlacesStep, PoolAssumption DEF PoolInv, PoolStep, PP!IInv
  <2>2. CASE PoolCrashes
    BY <2>2 DEF PoolCrashes, PoolInv, PP!IInv, PP!TypeOK, PP!Stopping, PP!NobodyOversleeps,
       PP!Waiting, PP!Places, PP!QueuedOnce, PP!RunByOne, PP!QueuedOrRun, PP!PlacesAreAdded,
       PP!InQueue, PP!Runs, PP!Running
  <2> QED
    BY <2>1, <2>2, StepOfParts
<1> QED
  BY <1>1, <1>2, PTL DEF Spec

(* Whatever else the client does, no thread of the pool sleeps through a   *)
(* task or the end.                                                        *)
THEOREM PoolIsWakeful == Spec => []NobodyOversleeps
<1>1. PoolInv => NobodyOversleeps
  BY WakefulnessSame DEF PoolInv, PP!IInv, NobodyOversleeps
<1> QED
  BY <1>1, PoolHolds, PTL

(* A task that the application adds is kept in one place until it has its  *)
(* outcome, through the end of the watcher and of the pool.                *)
THEOREM PoolKeepsTasksOnce == Spec => []TasksAreKeptOnce
<1>1. PoolInv => TasksAreKeptOnce
  BY KeepingSame, PP!PlacesAreOnce, PoolAssumption DEF PoolInv, PP!IInv, TasksAreKeptOnce
<1> QED
  BY <1>1, PoolHolds, PTL

-----------------------------------------------------------------------------
(* The uploads.                                                            *)

(* What the client has counted and what the session has, in each phase.    *)
Counts(u) ==
  /\ phase[u] = "open" => uploaded[u] = 0 /\ last[u] = 0
  /\ phase[u] \in {"open", "loop", "sent", "refused"} => received[u] = uploaded[u] /\ ~whole[u]
  /\ phase[u] = "sent" => uploaded[u] + last[u] <= size[u]
  /\ phase[u] \in {"accepted", "created"} =>
       received[u] = uploaded[u] + last[u] /\ received[u] <= size[u]
  /\ phase[u] = "accepted" => ~whole[u]
  /\ phase[u] = "created" => whole[u]
  /\ whole[u] => received[u] = size[u]
Reports(u) == phase[u] = "ended" <=> result[u] # "none"


GoodUpload(u) ==
  Counts(u) /\ Reports(u)
    /\ Up!SuccessIsWhole(u) /\ Up!CompletionIsReported(u) /\ Up!CountedIsReceived(u)

UploadTypes ==
  /\ Up!TypeOK
  /\ uploaded \in [Uploads -> Nat] /\ last \in [Uploads -> Nat]

UploadInv == UploadTypes /\ \A u \in Uploads : GoodUpload(u)

(* What may be said of an upload that no step touches.                     *)
LEMMA OtherUploads ==
  ASSUME NEW u, GoodUpload(u),
         size'[u] = size[u], uploaded'[u] = uploaded[u], last'[u] = last[u],
         phase'[u] = phase[u], result'[u] = result[u],
         received'[u] = received[u], whole'[u] = whole[u]
  PROVE  GoodUpload(u)'
BY DEF GoodUpload, Counts, Reports, Up!SuccessIsWhole, Up!CompletionIsReported,
       Up!CountedIsReceived

LEMMA UploadInit == Up!Init => UploadInv
<1> SUFFICES ASSUME Up!Init PROVE UploadInv
  OBVIOUS
<1>1. UploadTypes
  BY BoundsAssumption DEF Up!Init, UploadTypes, Up!TypeOK, Up!Errors
<1>2. ASSUME NEW u \in Uploads PROVE GoodUpload(u)
  BY DEF Up!Init, GoodUpload, Counts, Reports, Up!SuccessIsWhole, Up!CompletionIsReported,
     Up!CountedIsReceived
<1> QED
  BY <1>1, <1>2 DEF UploadInv

(* The chunk that is read fits into what is left of the file.              *)
LEMMA ChunkFits ==
  ASSUME UploadTypes, NEW u \in Uploads
  PROVE  /\ Up!BytesRead(u) \in 0..ChunkSize
         /\ uploaded[u] + Up!BytesRead(u) <= size[u]
BY BoundsAssumption DEF UploadTypes, Up!TypeOK, Up!BytesRead, Up!Least

LEMMA OthersActHolds ==
  ASSUME UploadInv, NEW u \in Uploads,
         Up!Cancel(u) \/ (\E n \in 0..MaxSize : Up!CutShort(u, n))
  PROVE  UploadInv'
<1>1. UploadTypes'
  BY DEF UploadInv, UploadTypes, Up!TypeOK, Up!Cancel, Up!CutShort, Up!sizes, Up!cloud
<1>2. ASSUME NEW v \in Uploads PROVE GoodUpload(v)'
  BY OtherUploads DEF UploadInv, Up!Cancel, Up!CutShort, Up!sizes, Up!cloud
<1> QED
  BY <1>1, <1>2 DEF UploadInv

LEMMA UploadStepHolds ==
  ASSUME UploadInv, NEW u \in Uploads, Up!Step(u) PROVE UploadInv'
<1> USE BoundsAssumption DEF Up!sizes, Up!cloud, Up!Goes, Up!Returns
<1>1. ASSUME NEW v \in Uploads \ {u} PROVE GoodUpload(v)'
  <2>1. /\ size'[v] = size[v] /\ uploaded'[v] = uploaded[v] /\ last'[v] = last[v]
        /\ phase'[v] = phase[v] /\ result'[v] = result[v]
        /\ received'[v] = received[v] /\ whole'[v] = whole[v]
    <3> USE DEF UploadInv, UploadTypes, Up!TypeOK
    <3>1. CASE Up!Open(u)
      BY <3>1 DEF Up!Open
    <3>2. CASE Up!ReadChunk(u)
      BY <3>2 DEF Up!ReadChunk
    <3>3. CASE Up!SessionTakes(u)
      BY <3>3 DEF Up!SessionTakes
    <3>4. CASE Up!SessionRefuses(u)
      BY <3>4 DEF Up!SessionRefuses
    <3>5. CASE Up!AnswerFails(u)
      BY <3>5 DEF Up!AnswerFails
    <3>6. CASE Up!AnswerApplied(u)
      BY <3>6 DEF Up!AnswerApplied
    <3> QED
      BY <3>1, <3>2, <3>3, <3>4, <3>5, <3>6 DEF Up!Step
  <2> QED
    BY <2>1, OtherUploads DEF UploadInv
<1> SUFFICES UploadTypes' /\ GoodUpload(u)'
  BY <1>1 DEF UploadInv
<1>2. UploadTypes /\ GoodUpload(u)
  BY DEF UploadInv
<1>9. /\ uploaded \in [Uploads -> Nat] /\ last \in [Uploads -> Nat]
      /\ received \in [Uploads -> 0..MaxSize] /\ size \in [Uploads -> 0..MaxSize]
      /\ whole \in [Uploads -> BOOLEAN]
      /\ \A v \in Uploads : uploaded[v] \in 0..size[v] /\ last[v] \in 0..ChunkSize
      /\ MaxSize \in Nat /\ ChunkSize \in Nat
  BY <1>2 DEF UploadTypes, Up!TypeOK
<1>3. CASE Up!Open(u)
  <2>1. CASE Up!Returns(u, "no file") \/ Up!Returns(u, "empty")
    <3>1. UploadTypes'
      BY <1>2, <1>3, <2>1 DEF Up!Open, UploadTypes, Up!TypeOK, Up!Errors
    <3>2. GoodUpload(u)'
      BY <1>2, <1>3, <2>1 DEF Up!Open, UploadTypes, Up!TypeOK, Up!Errors, GoodUpload, Counts, Reports,
       Up!SuccessIsWhole, Up!CompletionIsReported, Up!CountedIsReceived
    <3> QED
      BY <3>1, <3>2
  <2>2. CASE size' = [size EXCEPT ![u] = length[u]] /\ Up!Goes(u, "loop") /\ UNCHANGED result
    <3>1. uploaded[u] = 0 /\ last[u] = 0 /\ received[u] = 0 /\ ~whole[u]
      BY <1>2, <1>3 DEF Up!Open, UploadTypes, Up!TypeOK, Up!Errors, GoodUpload, Counts, Reports,
       Up!SuccessIsWhole, Up!CompletionIsReported, Up!CountedIsReceived
    <3>2. UploadTypes'
      <4>1. size' \in [Uploads -> 0..MaxSize] /\ \A v \in Uploads \ {u} : size'[v] = size[v]
        BY <1>2, <2>2 DEF UploadTypes, Up!TypeOK
      <4>2. uploaded' = uploaded
        BY <1>3 DEF Up!Open
      <4>3. \A v \in Uploads : uploaded'[v] \in 0..size'[v]
        BY <1>9, <3>1, <4>1, <4>2
      <4> QED
        BY <1>2, <1>3, <2>2, <4>1, <4>2, <4>3 DEF Up!Open, UploadTypes, Up!TypeOK
    <3>3. GoodUpload(u)'
      BY <1>2, <1>3, <2>2, <3>1 DEF Up!Open, UploadTypes, Up!TypeOK, Up!Errors, GoodUpload, Counts, Reports,
       Up!SuccessIsWhole, Up!CompletionIsReported, Up!CountedIsReceived
    <3> QED
      BY <3>2, <3>3
  <2> QED
    BY <1>3, <2>1, <2>2 DEF Up!Open
<1>4. CASE Up!ReadChunk(u)
  <2>1. CASE Up!Returns(u, "no completion") \/ Up!Returns(u, "cancelled") \/ Up!Returns(u, "unreadable")
    BY <1>2, <1>4, <2>1 DEF Up!ReadChunk, UploadTypes, Up!TypeOK, Up!Errors, GoodUpload, Counts, Reports,
       Up!SuccessIsWhole, Up!CompletionIsReported, Up!CountedIsReceived
  <2>2. CASE last' = [last EXCEPT ![u] = Up!BytesRead(u)] /\ Up!Goes(u, "sent")
    <3>1. /\ last'[u] = Up!BytesRead(u) /\ Up!BytesRead(u) \in 0..ChunkSize
          /\ uploaded[u] + Up!BytesRead(u) <= size[u]
          /\ \A v \in Uploads \ {u} : last'[v] = last[v]
      BY <1>2, <2>2, ChunkFits DEF UploadTypes
    <3>2. UploadTypes'
      <4>1. last' \in [Uploads -> Nat] /\ \A v \in Uploads : last'[v] \in 0..ChunkSize
        BY <1>9, <2>2, <3>1
      <4> QED
        BY <1>2, <1>4, <2>2, <4>1 DEF Up!ReadChunk, UploadTypes, Up!TypeOK, Up!Errors
    <3>3. GoodUpload(u)'
      BY <1>2, <1>4, <2>2, <3>1 DEF Up!ReadChunk, UploadTypes, Up!TypeOK, Up!Errors, GoodUpload, Counts, Reports,
       Up!SuccessIsWhole, Up!CompletionIsReported, Up!CountedIsReceived
    <3> QED
      BY <3>2, <3>3
  <2> QED
    BY <1>4, <2>1, <2>2 DEF Up!ReadChunk
<1>5. CASE Up!SessionTakes(u)
  <2>1. /\ uploaded[u] \in Nat /\ last[u] \in Nat /\ received[u] = uploaded[u]
        /\ uploaded[u] + last[u] <= size[u] /\ size[u] <= MaxSize /\ size[u] \in Nat
    BY <1>2, <1>5, <1>9 DEF Up!SessionTakes, GoodUpload, Counts
  <2>2. /\ received' = [received EXCEPT ![u] = uploaded[u] + last[u]]
        /\ whole' = [whole EXCEPT ![u] = uploaded[u] + last[u] = size[u]]
    BY <1>5 DEF Up!SessionTakes
  <2>3. /\ received'[u] = uploaded[u] + last[u]
        /\ whole'[u] = (uploaded[u] + last[u] = size[u])
        /\ received' \in [Uploads -> 0..MaxSize] /\ whole' \in [Uploads -> BOOLEAN]
    BY <1>9, <2>1, <2>2
  <2>4. UploadTypes'
    BY <1>2, <1>5, <2>3 DEF Up!SessionTakes, UploadTypes, Up!TypeOK, Up!Errors
  <2>5. GoodUpload(u)'
    BY <1>2, <1>5, <2>1, <2>3 DEF Up!SessionTakes, UploadTypes, Up!TypeOK, Up!Errors, GoodUpload, Counts, Reports,
       Up!SuccessIsWhole, Up!CompletionIsReported, Up!CountedIsReceived
  <2> QED
    BY <2>4, <2>5
<1>6. CASE Up!SessionRefuses(u)
  BY <1>2, <1>6 DEF Up!SessionRefuses, UploadTypes, Up!TypeOK, Up!Errors, GoodUpload, Counts, Reports,
       Up!SuccessIsWhole, Up!CompletionIsReported, Up!CountedIsReceived
<1>7. CASE Up!AnswerFails(u)
  BY <1>2, <1>7 DEF Up!AnswerFails, UploadTypes, Up!TypeOK, Up!Errors, GoodUpload, Counts, Reports,
       Up!SuccessIsWhole, Up!CompletionIsReported, Up!CountedIsReceived
<1>8. CASE Up!AnswerApplied(u)
  <2>1. /\ uploaded[u] \in Nat /\ last[u] \in Nat
        /\ received[u] = uploaded[u] + last[u] /\ received[u] <= size[u]
    BY <1>2, <1>8 DEF Up!AnswerApplied, GoodUpload, Counts, UploadTypes, Up!TypeOK, Up!Errors
  <2>2. uploaded' = [uploaded EXCEPT ![u] = uploaded[u] + last[u]]
    BY <1>8 DEF Up!AnswerApplied
  <2>3. /\ uploaded'[u] = received[u] /\ uploaded' \in [Uploads -> Nat]
        /\ \A v \in Uploads : uploaded'[v] \in 0..size[v]
    BY <1>9, <2>1, <2>2
  <2>4. UploadTypes'
    BY <1>2, <1>8, <2>3 DEF Up!AnswerApplied, UploadTypes, Up!TypeOK, Up!Errors
  <2>5. GoodUpload(u)'
    BY <1>2, <1>8, <2>1, <2>3 DEF Up!AnswerApplied, UploadTypes, Up!TypeOK, Up!Errors, GoodUpload, Counts, Reports,
       Up!SuccessIsWhole, Up!CompletionIsReported, Up!CountedIsReceived
  <2> QED
    BY <2>4, <2>5
<1> QED
  BY <1>3, <1>4, <1>5, <1>6, <1>7, <1>8 DEF Up!Step

LEMMA UploadsHold == Up!Spec => []UploadInv
<1>1. UploadInv /\ [Up!Next]_Up!vars => UploadInv'
  <2> SUFFICES ASSUME UploadInv, [Up!Next]_Up!vars PROVE UploadInv'
    OBVIOUS
  <2>1. CASE UNCHANGED Up!vars
    <3>1. UploadTypes'
      BY <2>1 DEF UploadInv, UploadTypes, Up!TypeOK, Up!vars, Up!sizes, Up!cloud
    <3>2. ASSUME NEW u \in Uploads PROVE GoodUpload(u)'
      BY <2>1, OtherUploads DEF UploadInv, Up!vars, Up!sizes, Up!cloud
    <3> QED
      BY <3>1, <3>2 DEF UploadInv
  <2> QED
    BY <2>1, UploadStepHolds, OthersActHolds DEF Up!Next
<1> QED
  BY <1>1, UploadInit, PTL DEF Up!Spec

(* An upload that a thread of the pool runs says it succeeded only when    *)
(* the session has the whole file, and what it counts is what the session  *)
(* has, for any size of the file and of the chunks, though the file is cut *)
(* short, the upload is cancelled or refused, or an answer is lost.        *)
THEOREM UploadsReportTruly == Spec => []UploadsAreReported
<1>1. UploadInv => UploadsAreReported
  BY DEF UploadInv, GoodUpload, UploadsAreReported, Up!UploadsAreReported
<1> QED
  BY <1>1, PartsRun, UploadsHold, PTL

-----------------------------------------------------------------------------
(* The watcher, and its types.                                             *)

WatcherTypes == FS!TypeOK /\ writes \in 0..MaxWrites

LEMMA ContentsAreNumbers ==
  /\ FS!Absent \in FS!Contents /\ FS!Empty \in FS!Contents
  /\ \A n \in Nat : n < MaxWrites => n + 2 \in FS!Contents
  /\ \A c \in FS!Contents : FS!LengthOf(c) \in Nat
  /\ \A c \in FS!Contents \ {FS!Absent, FS!Empty} : FS!LengthOf(c) > 0
<1>1. /\ FS!Absent \in FS!Contents /\ FS!Empty \in FS!Contents
      /\ \A n \in Nat : n < MaxWrites => n + 2 \in FS!Contents
  BY BoundsAssumption DEF FS!Absent, FS!Empty, FS!Contents
<1>2. ASSUME NEW c \in FS!Contents, c \notin {FS!Absent, FS!Empty}
      PROVE  FS!LengthOf(c) \in Nat /\ FS!LengthOf(c) > 0
  <2>1. c - 1 \in 1..MaxWrites
    BY <1>2, BoundsAssumption DEF FS!Absent, FS!Empty, FS!Contents
  <2>2. Length[c - 1] \in Nat \ {0}
    BY <2>1, LengthAssumption
  <2> QED
    BY <1>2, <2>2 DEF FS!LengthOf
<1>3. ASSUME NEW c \in {FS!Absent, FS!Empty} PROVE FS!LengthOf(c) = 0
  BY DEF FS!LengthOf
<1> QED
  BY <1>1, <1>2, <1>3

LEMMA NoticeIsRead ==
  ASSUME FS!TypeOK, at \in {"handle", "locked", "sending"}
  PROVE  /\ pos \in 1..Len(buffer) /\ Len(buffer) \in Nat /\ DOMAIN buffer = 1..Len(buffer)
         /\ FS!Notice \in FS!Notices /\ FS!Notice.path \in Paths
<1>1. pos \in 1..Len(buffer) /\ Len(buffer) \in Nat /\ DOMAIN buffer = 1..Len(buffer)
  BY LenProperties DEF FS!TypeOK
<1>2. buffer[pos] \in FS!Notices
  BY <1>1, ElementOfSeq DEF FS!TypeOK
<1> QED
  BY <1>1, <1>2 DEF FS!Notice, FS!Notices

(* What becomes of the notices that are kept when one more comes.          *)
LEMMA WithIsASequence ==
  ASSUME NEW kept \in Seq(FS!Notices), NEW p \in Paths, NEW kind \in FS!Kinds
  PROVE  FS!With(kept, p, kind) \in Seq(FS!Notices)
<1> DEFINE same == {i \in DOMAIN kept : platform = "mac" /\ kept[i].path = p}
<1>1. [path |-> p, kinds |-> {kind}] \in FS!Notices
  BY DEF FS!Notices
<1>2. CASE same = {}
  BY <1>1, <1>2, AppendProperties DEF FS!With
<1>3. CASE same # {}
  <2> DEFINE new == [i \in DOMAIN kept |->
               IF i \in same THEN [kept[i] EXCEPT !.kinds = @ \cup {kind}] ELSE kept[i]]
  <2>1. DOMAIN kept = 1..Len(kept) /\ Len(kept) \in Nat
    BY LenProperties
  <2>2. ASSUME NEW i \in DOMAIN kept PROVE new[i] \in FS!Notices
    <3>1. kept[i] \in FS!Notices
      BY ElementOfSeq, <2>1
    <3>2. [kept[i] EXCEPT !.kinds = @ \cup {kind}] \in FS!Notices
      BY <3>1 DEF FS!Notices
    <3> QED
      BY <3>1, <3>2
  <2>3. new \in [1..Len(kept) -> FS!Notices]
    BY <2>1, <2>2
  <2>4. new \in Seq(FS!Notices)
    BY <2>1, <2>3
  <2> QED
    BY <1>3, <2>4 DEF FS!With
<1> QED
  BY <1>2, <1>3

LEMMA ChangesHolds ==
  ASSUME WatcherTypes, NEW new \in [Paths -> FS!Contents], NEW kept \in Seq(FS!Notices),
         FS!Changes(new, kept), writes' \in 0..MaxWrites, renamed' \subseteq Paths
  PROVE  WatcherTypes'
<1>1. <<>> \in Seq(FS!Notices) /\ Len(<<>>) <= Capacity
  BY EmptySeq, BoundsAssumption
<1>2. notices' \in Seq(FS!Notices) /\ Len(notices') <= Capacity /\ overflow' \in BOOLEAN
  BY <1>1 DEF FS!Changes, FS!Keeps, WatcherTypes, FS!TypeOK
<1> QED
  BY <1>2 DEF WatcherTypes, FS!TypeOK, FS!Changes, FS!setup, FS!server, FS!outcomes, FS!watcherVars

LEMMA FilesChangeHolds == ASSUME WatcherTypes, FS!FilesChange PROVE WatcherTypes'
<1> USE DEF WatcherTypes
<1>1. notices \in Seq(FS!Notices) /\ local \in [Paths -> FS!Contents] /\ writes \in 0..MaxWrites
  BY DEF FS!TypeOK
<1>2. {"created", "modified", "removed", "renamed"} \subseteq FS!Kinds
  BY DEF FS!Kinds
<1>3. ASSUME NEW p \in Paths, NEW filled \in BOOLEAN, FS!Create(p, filled) PROVE WatcherTypes'
  <2>1. [local EXCEPT ![p] = IF filled THEN writes + 2 ELSE FS!Empty] \in [Paths -> FS!Contents]
    BY <1>1, <1>3, ContentsAreNumbers DEF FS!Create
  <2>2. writes' \in 0..MaxWrites /\ renamed' \subseteq Paths
    BY <1>1, <1>3, BoundsAssumption DEF FS!Create, FS!TypeOK
  <2> QED
    BY <1>1, <1>2, <1>3, <2>1, <2>2, WithIsASequence, ChangesHolds DEF FS!Create
<1>4. ASSUME NEW p \in Paths, FS!Write(p) PROVE WatcherTypes'
  <2>1. [local EXCEPT ![p] = writes + 2] \in [Paths -> FS!Contents]
    BY <1>1, <1>4, ContentsAreNumbers DEF FS!Write
  <2>2. writes' \in 0..MaxWrites /\ renamed' \subseteq Paths
    BY <1>1, <1>4, BoundsAssumption DEF FS!Write, FS!TypeOK
  <2> QED
    BY <1>1, <1>2, <1>4, <2>1, <2>2, WithIsASequence, ChangesHolds DEF FS!Write
<1>5. ASSUME NEW p \in Paths, FS!Remove(p) PROVE WatcherTypes'
  <2>1. [local EXCEPT ![p] = FS!Absent] \in [Paths -> FS!Contents]
    BY <1>1, ContentsAreNumbers
  <2>2. writes' \in 0..MaxWrites /\ renamed' \subseteq Paths
    BY <1>1, <1>5 DEF FS!Remove, FS!TypeOK
  <2> QED
    BY <1>1, <1>2, <1>5, <2>1, <2>2, WithIsASequence, ChangesHolds DEF FS!Remove
<1>6. ASSUME NEW p \in Paths, NEW q \in Paths, FS!Rename(p, q) PROVE WatcherTypes'
  <2>1. [local EXCEPT ![q] = local[p], ![p] = FS!Absent] \in [Paths -> FS!Contents]
    BY <1>1, ContentsAreNumbers
  <2>2. writes' \in 0..MaxWrites /\ renamed' \subseteq Paths
    BY <1>1, <1>6 DEF FS!Rename, FS!TypeOK
  <2>3. FS!With(FS!With(notices, p, "renamed"), q, "renamed") \in Seq(FS!Notices)
    BY <1>1, <1>2, WithIsASequence
  <2> QED
    BY <1>6, <2>1, <2>2, <2>3, ChangesHolds DEF FS!Rename
<1> QED
  BY <1>3, <1>4, <1>5, <1>6 DEF FS!FilesChange

(* The next notice is there, or all have been handled.                     *)
LEMMA GoesOnInBuffer ==
  ASSUME FS!TypeOK, at \in {"handle", "locked", "sending"}, FS!GoesOn
  PROVE  /\ at' \in {"read", "handle"} /\ content' = FS!Absent /\ buffer' = buffer
         /\ at' = "handle" => pos' = pos + 1 /\ pos' \in 1..Len(buffer)
         /\ at' = "read" => pos = Len(buffer)
BY NoticeIsRead DEF FS!GoesOn

(* What the server has of a content when some of its parts have come.      *)
LEMMA ArrivesTypes ==
  ASSUME FS!TypeOK, FS!Notice.path \in Paths, NEW k \in 0..FS!LengthOf(content), FS!Arrives(k)
  PROVE  /\ remote' \in [Paths -> FS!Contents \cup {FS!Mixture}]
         /\ extent' \in [Paths -> Nat]
<1>1. /\ content \in FS!Contents /\ FS!LengthOf(content) \in Nat /\ k \in Nat
      /\ remote \in [Paths -> FS!Contents \cup {FS!Mixture}] /\ extent \in [Paths -> Nat]
  BY ContentsAreNumbers DEF FS!TypeOK
<1> QED
  BY <1>1 DEF FS!Arrives

LEMMA WatcherHolds == ASSUME WatcherTypes, FS!WatcherStep PROVE WatcherTypes'
<1> USE DEF WatcherTypes, FS!TypeOK, FS!setup, FS!server, FS!outcomes, FS!fileVars
<1>1. CASE FS!ReadChanges
  BY <1>1 DEF FS!ReadChanges
<1>2. CASE FS!ReceiveChanges
  <2>1. <<>> \in Seq(FS!Notices) /\ Len(<<>>) <= Capacity
    BY EmptySeq, BoundsAssumption
  <2>2. /\ notices' \in Seq(FS!Notices) /\ Len(notices') <= Capacity
        /\ buffer' \in Seq(FS!Notices)
    BY <1>2, <2>1 DEF FS!ReceiveChanges
  <2>3. at' = "handle" => pos' \in DOMAIN buffer'
    BY <1>2, <2>2, EmptySeq, LenProperties DEF FS!ReceiveChanges
  <2> QED
    BY <1>2, <2>2, <2>3 DEF FS!ReceiveChanges
<1>3. CASE FS!StopSignalled
  BY <1>3 DEF FS!StopSignalled
<1> DEFINE Moves == at' \in {"read", "handle"} /\ buffer' = buffer /\ content' \in FS!Contents
                      /\ (at' = "handle" => pos' \in DOMAIN buffer)
<1>4. ASSUME at \in {"handle", "locked", "sending"}, FS!GoesOn PROVE Moves
  BY <1>4, GoesOnInBuffer, NoticeIsRead, ContentsAreNumbers
<1>5. at \in {"handle", "locked", "sending"} => FS!Notice.path \in Paths
  BY NoticeIsRead
<1>6. CASE FS!HandleNothing
  BY <1>4, <1>6 DEF FS!HandleNothing, FS!Handles
<1>7. CASE FS!HandleRemoved
  <2>1. at = "handle" /\ Moves /\ FS!Notice.path \in Paths
    BY <1>4, <1>5, <1>7 DEF FS!HandleRemoved, FS!Handles
  <2> QED
    BY <1>7, <2>1, ContentsAreNumbers DEF FS!HandleRemoved, FS!Succeeds
<1>8. CASE FS!StoreLocks
  BY <1>8, <1>5, ContentsAreNumbers DEF FS!StoreLocks, FS!Handles, FS!Created
<1>9. CASE FS!StoreOpens
  <2>1. at = "locked" /\ FS!Notice.path \in Paths
    BY <1>5, <1>9 DEF FS!StoreOpens
  <2>2. CASE FS!GoesOn
    BY <1>4, <1>9, <2>1, <2>2 DEF FS!StoreOpens
  <2>3. CASE at' = "sending" /\ content' = local[FS!Notice.path] /\ UNCHANGED <<held, buffer, pos>>
    BY <1>9, <2>1, <2>3 DEF FS!StoreOpens
  <2> QED
    BY <1>9, <2>2, <2>3 DEF FS!StoreOpens
<1>10. CASE FS!StoreSends
  <2>1. at = "sending" /\ Moves /\ FS!Notice.path \in Paths
    BY <1>4, <1>5, <1>10 DEF FS!StoreSends
  <2>2. FS!LengthOf(content) \in 0..FS!LengthOf(content)
    BY ContentsAreNumbers
  <2>3. /\ remote' \in [Paths -> FS!Contents \cup {FS!Mixture}]
        /\ extent' \in [Paths -> Nat]
    BY <1>10, <2>1, <2>2, ArrivesTypes DEF FS!StoreSends
  <2> QED
    BY <1>10, <2>1, <2>3 DEF FS!StoreSends, FS!Succeeds
<1> QED
  BY <1>1, <1>2, <1>3, <1>6, <1>7, <1>8, <1>9, <1>10 DEF FS!WatcherStep

LEMMA FailuresHold ==
  ASSUME WatcherTypes, FS!CallFails \/ \E p \in Paths : FS!OtherKeepsLock(p)
  PROVE  WatcherTypes'
<1> USE DEF WatcherTypes, FS!TypeOK
<1>1. ASSUME NEW p \in Paths, FS!OtherKeepsLock(p) PROVE WatcherTypes'
  BY <1>1, BoundsAssumption DEF FS!OtherKeepsLock, FS!setup, FS!fileVars, FS!watcherVars
<1>2. CASE FS!CallFails
  <2>1. /\ at \in {"handle", "sending"} /\ FS!GoesOn /\ UNCHANGED <<FS!setup, FS!fileVars>>
        /\ failures < MaxFailures /\ failures' = failures + 1
        /\ failed' = failed \cup {FS!Notice.path}
    BY <1>2 DEF FS!CallFails, FS!LockFails, FS!SendFails, FS!Fails
  <2>2. FS!Notice.path \in Paths
    BY <2>1, NoticeIsRead
  <2>3. /\ at' \in {"read", "handle"} /\ buffer' = buffer /\ content' \in FS!Contents
        /\ at' = "handle" => pos' \in DOMAIN buffer
    BY <2>1, GoesOnInBuffer, NoticeIsRead, ContentsAreNumbers
  <2>4. /\ remote' \in [Paths -> FS!Contents \cup {FS!Mixture}]
        /\ extent' \in [Paths -> Nat] /\ held' \in [Paths -> BOOLEAN]
    <3>1. CASE FS!LockFails
      BY <2>2, <3>1, ContentsAreNumbers DEF FS!LockFails, FS!Created
    <3>2. CASE FS!SendFails
      <4>1. PICK k \in 0..FS!LengthOf(content) : FS!Arrives(k)
        <5>1. FS!LengthOf(content) \in Nat
          BY ContentsAreNumbers
        <5>2. 1..(FS!LengthOf(content) - 1) \subseteq 0..FS!LengthOf(content)
          BY <5>1
        <5> QED
          BY <3>2, <5>2 DEF FS!SendFails
      <4>2. held' \in [Paths -> BOOLEAN]
        BY <2>2, <3>2 DEF FS!SendFails
      <4> QED
        BY <2>2, <4>1, <4>2, ArrivesTypes
    <3> QED
      BY <1>2, <3>1, <3>2 DEF FS!CallFails
  <2>5. failed' \subseteq Paths /\ failures' \in 0..MaxFailures
    BY <2>1, <2>2, BoundsAssumption
  <2> QED
    BY <2>1, <2>3, <2>4, <2>5 DEF FS!setup, FS!fileVars
<1> QED
  BY <1>1, <1>2

LEMMA WatcherTypesHold == FS!Spec => []WatcherTypes
<1>1. FS!Init => WatcherTypes
  <2>1. <<>> \in Seq(FS!Notices) /\ Len(<<>>) <= Capacity
    BY EmptySeq, BoundsAssumption
  <2>2. 0 \in 0..MaxWrites /\ 0 \in 0..MaxFailures
    BY BoundsAssumption
  <2>3. ASSUME FS!Init
        PROVE  /\ remote \in [Paths -> FS!Contents \cup {FS!Mixture}] /\ extent \in [Paths -> Nat]
               /\ local \in [Paths -> FS!Contents] /\ held \in [Paths -> BOOLEAN]
               /\ failed \subseteq Paths
    BY <2>3, ContentsAreNumbers DEF FS!Init
  <2> QED
    BY <2>1, <2>2, <2>3, ContentsAreNumbers DEF FS!Init, WatcherTypes, FS!TypeOK
<1>2. WatcherTypes /\ [FS!Next]_FS!vars => WatcherTypes'
  <2> SUFFICES ASSUME WatcherTypes, [FS!Next]_FS!vars PROVE WatcherTypes'
    OBVIOUS
  <2>1. CASE UNCHANGED FS!vars
    BY <2>1 DEF FS!vars, WatcherTypes, FS!TypeOK
  <2>2. CASE FS!Stop \/ FS!Join
    BY <2>2 DEF FS!Stop, FS!Join, FS!server, FS!outcomes, FS!fileVars, FS!watcherVars, WatcherTypes, FS!TypeOK
  <2> QED
    BY <2>1, <2>2, FilesChangeHolds, WatcherHolds, FailuresHold DEF FS!Next
<1> QED
  BY <1>1, <1>2, PTL DEF FS!Spec

(* Every variable of the client keeps its type: the watcher handles a      *)
(* notice that is there, and no upload counts more than the file has.      *)
THEOREM TypeCorrectness == Spec => []TypeOK
<1>1. WatcherTypes /\ PoolInv /\ UploadInv => TypeOK
  BY PoolTypeOKSame DEF WatcherTypes, PoolInv, PP!IInv, UploadInv, UploadTypes, TypeOK
<1> QED
  BY <1>1, PartsRun, WatcherTypesHold, PoolHolds, UploadsHold, PTL

-----------------------------------------------------------------------------
(* No change is lost on a Mac.                                             *)
(*                                                                         *)
(* The handler that the flags of a notice lead to there.                   *)
StoresIt(notice) ==
  "created" \in notice.kinds \/ ("removed" \notin notice.kinds /\ "modified" \in notice.kinds)
RemovesIt(notice) == "created" \notin notice.kinds /\ "removed" \in notice.kinds

ToldToStore(r) == \E i \in DOMAIN notices : notices[i].path = r /\ StoresIt(notices[i])
ToldToRemove(r) == \E i \in DOMAIN notices : notices[i].path = r /\ RemovesIt(notices[i])

(* Among the notices it has received, from the one it is at, or after it.  *)
Received(r, first) == {i \in DOMAIN buffer : i >= first /\ buffer[i].path = r}
WillStore(r, first) == \E i \in Received(r, first) : StoresIt(buffer[i])
WillRemove(r, first) == \E i \in Received(r, first) : RemovesIt(buffer[i])

Busy == at \in {"handle", "locked", "sending"}

Stores(r) ==
  \/ at \in {"handle", "locked"} /\ WillStore(r, pos)
  \/ /\ at = "sending"
     /\ \/ WillStore(r, pos + 1)
        \/ FS!Notice.path = r /\ StoresIt(FS!Notice) /\ content = local[r]

(* Flags that lead to a removal were set when the file had gone, and a     *)
(* file that has come back since is in the notices; so is one that was     *)
(* written after the watcher has read it.                                  *)
RemovalsAreTrue(r) ==
  /\ ToldToRemove(r) => local[r] = FS!Absent
  /\ Busy /\ WillRemove(r, pos) => local[r] = FS!Absent \/ ToldToStore(r)
ReadAnew(r) ==
  at = "sending" /\ FS!Notice.path = r =>
    content = local[r] \/ local[r] = FS!Absent \/ ToldToStore(r)
NotLost(r) ==
  local[r] \notin {FS!Absent, FS!Empty, remote[r]} => ToldToStore(r) \/ Stores(r) \/ FS!MayBeLost(r)

Followed(r) == RemovalsAreTrue(r) /\ ReadAnew(r) /\ NotLost(r)

(* One notice for each path, so that there is room for all.                *)
OnePerPath(kept) ==
  \A i, j \in DOMAIN kept : kept[i].path = kept[j].path => i = j

MacInv ==
  platform = "mac" =>
    opens /\ ~overflow /\ OnePerPath(notices) /\ \A r \in Paths \ renamed : Followed(r)

(* What a Mac keeps has no bound but the number of the files.              *)
Room == IsFiniteSet(Paths) /\ Cardinality(Paths) <= Capacity

LEMMA HandlersOnMac ==
  ASSUME platform = "mac", NEW notice
  PROVE  /\ FS!HandlerOf(notice) = "store" <=> StoresIt(notice)
         /\ FS!HandlerOf(notice) = "remove" <=> RemovesIt(notice)
BY DEF FS!HandlerOf, StoresIt, RemovesIt

LEMMA AllFit ==
  ASSUME Room, NEW kept \in Seq(FS!Notices), OnePerPath(kept)
  PROVE  Len(kept) <= Capacity
<1> DEFINE n == Len(kept)
           path == [i \in 1..n |-> kept[i].path]
<1>1. n \in Nat /\ DOMAIN kept = 1..n /\ \A i \in 1..n : kept[i].path \in Paths
  <2>1. n \in Nat /\ DOMAIN kept = 1..n
    BY LenProperties
  <2>2. \A i \in 1..n : kept[i] \in FS!Notices
    BY ElementOfSeq
  <2> QED
    BY <2>1, <2>2 DEF FS!Notices
<1>2. path \in Injection(1..n, Paths)
  BY <1>1 DEF OnePerPath, Injection, IsInjective
<1>3. Cardinality(1..n) <= Cardinality(Paths)
  BY <1>2, FS_Injection DEF Room
<1>4. Cardinality(1..n) = n
  BY <1>1, FS_Interval
<1>5. Cardinality(Paths) \in Nat /\ Capacity \in Nat
  BY FS_CardinalityType, BoundsAssumption DEF Room
<1> QED
  BY <1>1, <1>3, <1>4, <1>5 DEF Room

(* On a Mac a flag is added to the notice of the path, or a notice with    *)
(* this flag to the others.                                                *)
LEMMA WithOnMac ==
  ASSUME platform = "mac", NEW kept \in Seq(FS!Notices), OnePerPath(kept),
         NEW p \in Paths, NEW kind \in FS!Kinds, NEW new, new = FS!With(kept, p, kind)
  PROVE  /\ OnePerPath(new)
         /\ DOMAIN kept \subseteq DOMAIN new
         /\ \A i \in DOMAIN kept : kept[i].path # p => new[i] = kept[i]
         /\ \A i \in DOMAIN new : new[i].path # p => i \in DOMAIN kept /\ kept[i].path # p
         /\ \E i \in DOMAIN new : new[i].path = p /\ kind \in new[i].kinds
         /\ \A i \in DOMAIN new : new[i].path = p =>
              \/ new[i].kinds = {kind}
              \/ i \in DOMAIN kept /\ kept[i].path = p /\ new[i].kinds = kept[i].kinds \cup {kind}
<1> DEFINE same == {i \in DOMAIN kept : platform = "mac" /\ kept[i].path = p}
           notice == [path |-> p, kinds |-> {kind}]
<1>1. DOMAIN kept = 1..Len(kept) /\ Len(kept) \in Nat
  BY LenProperties
<1>2. CASE same = {}
  <2>1. new = Append(kept, notice)
    BY <1>2 DEF FS!With
  <2>2. notice \in FS!Notices /\ notice.path = p /\ notice.kinds = {kind}
    BY DEF FS!Notices
  <2>3. /\ DOMAIN new = 1..(Len(kept) + 1) /\ new[Len(kept) + 1] = notice
        /\ \A i \in DOMAIN kept : new[i] = kept[i]
    BY <1>1, <2>1, <2>2, AppendProperties, LenProperties
  <2>4. \A i \in DOMAIN kept : kept[i].path # p
    BY <1>2
  <2>5. OnePerPath(new)
    BY <1>1, <2>2, <2>3, <2>4 DEF OnePerPath
  <2> HIDE DEF notice
  <2> QED
    BY <1>1, <2>2, <2>3, <2>4, <2>5
<1>3. CASE same # {}
  <2>1. new = [i \in DOMAIN kept |->
                 IF i \in same THEN [kept[i] EXCEPT !.kinds = @ \cup {kind}] ELSE kept[i]]
    BY <1>3 DEF FS!With
  <2>2. \A i \in DOMAIN kept : kept[i] \in [path : Paths, kinds : SUBSET FS!Kinds]
    BY <1>1, ElementOfSeq DEF FS!Notices
  <2>3. DOMAIN new = DOMAIN kept
    BY <2>1
  <2>4. ASSUME NEW i \in DOMAIN kept
        PROVE  /\ new[i].path = kept[i].path
               /\ kept[i].path # p => new[i] = kept[i]
               /\ kept[i].path = p => new[i].kinds = kept[i].kinds \cup {kind}
    <3>1. new[i] = IF kept[i].path = p THEN [kept[i] EXCEPT !.kinds = @ \cup {kind}] ELSE kept[i]
      BY <2>1
    <3>2. kept[i] \in [path : Paths, kinds : SUBSET FS!Kinds]
      BY <2>2
    <3> QED
      BY <3>1, <3>2
  <2>5. PICK i \in DOMAIN kept : kept[i].path = p
    BY <1>3
  <2>6. OnePerPath(new)
    BY <2>3, <2>4 DEF OnePerPath
  <2> QED
    BY <2>3, <2>4, <2>5, <2>6
<1> QED
  BY <1>2, <1>3

(* A change of one path, on a Mac.                                         *)
LEMMA OneChangeFollowed ==
  ASSUME WatcherTypes, MacInv, Room, platform = "mac",
         NEW p \in Paths, NEW kind \in {"created", "modified", "removed"}, NEW value,
         FS!Changes([local EXCEPT ![p] = value], FS!With(notices, p, kind)),
         renamed' = renamed,
         kind = "removed" => value = FS!Absent,
         kind = "modified" => local[p] # FS!Absent
  PROVE  MacInv'
<1> DEFINE new == FS!With(notices, p, kind)
<1>1. /\ notices \in Seq(FS!Notices) /\ OnePerPath(notices) /\ kind \in FS!Kinds
      /\ local \in [Paths -> FS!Contents] /\ ~overflow
      /\ opens /\ \A r \in Paths \ renamed : Followed(r)
  BY DEF WatcherTypes, FS!TypeOK, MacInv, FS!Kinds
<1>2. new \in Seq(FS!Notices) /\ OnePerPath(new)
  BY <1>1, WithIsASequence, WithOnMac
<1>3. notices' = new /\ overflow' = FALSE
  BY <1>1, <1>2, AllFit DEF FS!Changes, FS!Keeps
<1>4. /\ platform' = platform /\ remote' = remote /\ extent' = extent /\ failed' = failed /\ opens' = opens
      /\ at' = at /\ buffer' = buffer /\ pos' = pos /\ content' = content
      /\ local'[p] = value /\ \A r \in Paths \ {p} : local'[r] = local[r]
  BY <1>1 DEF FS!Changes, FS!setup, FS!server, FS!outcomes, FS!watcherVars
<1>5. /\ \A i \in DOMAIN notices : notices[i].path # p => i \in DOMAIN new /\ new[i] = notices[i]
      /\ \A i \in DOMAIN new : new[i].path # p => i \in DOMAIN notices /\ new[i] = notices[i]
      /\ \E i \in DOMAIN new : new[i].path = p /\ kind \in new[i].kinds
      /\ \A i \in DOMAIN new : new[i].path = p =>
           \/ new[i].kinds = {kind}
           \/ /\ i \in DOMAIN notices /\ notices[i].path = p
              /\ new[i].kinds = notices[i].kinds \cup {kind}
  BY <1>1, WithOnMac
<1> HIDE DEF new
<1>6. ASSUME NEW r \in Paths \ renamed, r # p PROVE Followed(r)'
  <2>1. (ToldToStore(r)' <=> ToldToStore(r)) /\ (ToldToRemove(r)' <=> ToldToRemove(r))
    BY <1>3, <1>5, <1>6 DEF ToldToStore, ToldToRemove
  <2>2. local'[r] = local[r]
    BY <1>4, <1>6
  <2> QED
    BY <1>1, <1>4, <1>6, <2>1, <2>2 DEF Followed, RemovalsAreTrue, ReadAnew, NotLost, FS!MayBeLost, Stores,
       Busy, WillStore, WillRemove, Received, FS!Notice
<1>7. ASSUME p \notin renamed PROVE Followed(p)'
  <2>1. CASE kind = "removed"
    BY <1>4, <2>1 DEF Followed, RemovalsAreTrue, ReadAnew, NotLost, FS!MayBeLost, FS!Absent
  <2>2. CASE kind # "removed"
    <3>1. PICK i \in DOMAIN new : new[i].path = p /\ kind \in new[i].kinds
      BY <1>5
    <3>2. ASSUME kind = "created" PROVE StoresIt(new[i])
      BY <3>1, <3>2 DEF StoresIt
    <3>3. ASSUME kind = "modified" PROVE StoresIt(new[i])
      <4>1. ~ToldToRemove(p)
        BY <1>1, <1>7, <3>3 DEF Followed, RemovalsAreTrue
      <4>2. \/ new[i].kinds = {kind}
            \/ /\ i \in DOMAIN notices /\ notices[i].path = p
               /\ new[i].kinds = notices[i].kinds \cup {kind}
        BY <1>5, <3>1
      <4> QED
        BY <3>1, <3>3, <4>1, <4>2 DEF StoresIt, RemovesIt, ToldToRemove
    <3>4. StoresIt(new[i])
      BY <2>2, <3>2, <3>3
    <3>5. ToldToStore(p)'
      BY <1>3, <3>1, <3>4 DEF ToldToStore
    <3>6. ~ToldToRemove(p)'
      <4>1. \A j \in DOMAIN new : new[j].path = p => j = i
        BY <1>2, <3>1 DEF OnePerPath
      <4> QED
        BY <1>3, <3>4, <4>1 DEF ToldToRemove, StoresIt, RemovesIt
    <3> QED
      BY <3>5, <3>6 DEF Followed, RemovalsAreTrue, ReadAnew, NotLost, FS!MayBeLost
  <2> QED
    BY <2>1, <2>2
<1> QED
  BY <1>1, <1>2, <1>3, <1>4, <1>6, <1>7 DEF MacInv

LEMMA RenameFollowed ==
  ASSUME WatcherTypes, MacInv, Room, platform = "mac",
         NEW p \in Paths, NEW q \in Paths, FS!Rename(p, q)
  PROVE  MacInv'
<1> DEFINE one == FS!With(notices, p, "renamed")
           new == FS!With(one, q, "renamed")
<1>1. /\ notices \in Seq(FS!Notices) /\ OnePerPath(notices) /\ "renamed" \in FS!Kinds
      /\ local \in [Paths -> FS!Contents] /\ ~overflow
      /\ opens /\ \A r \in Paths \ renamed : Followed(r)
  BY DEF WatcherTypes, FS!TypeOK, MacInv, FS!Kinds
<1>2. one \in Seq(FS!Notices) /\ OnePerPath(one)
  BY <1>1, WithIsASequence, WithOnMac
<1>3. new \in Seq(FS!Notices) /\ OnePerPath(new)
  BY <1>1, <1>2, WithIsASequence, WithOnMac
<1>4. notices' = new /\ overflow' = FALSE
  BY <1>1, <1>3, AllFit DEF FS!Rename, FS!Changes, FS!Keeps
<1>5. /\ platform' = platform /\ remote' = remote /\ extent' = extent /\ failed' = failed /\ opens' = opens
      /\ at' = at /\ buffer' = buffer /\ pos' = pos /\ content' = content
      /\ renamed' = renamed \cup {p, q}
      /\ \A r \in Paths \ {p, q} : local'[r] = local[r]
  BY <1>1 DEF FS!Rename, FS!Changes, FS!setup, FS!server, FS!outcomes, FS!watcherVars
<1>6. ASSUME NEW r \in Paths \ {p, q}
      PROVE  /\ \A i \in DOMAIN notices : notices[i].path = r => i \in DOMAIN new /\ new[i] = notices[i]
             /\ \A i \in DOMAIN new : new[i].path = r => i \in DOMAIN notices /\ new[i] = notices[i]
  <2>1. /\ \A i \in DOMAIN notices : notices[i].path # p => i \in DOMAIN one /\ one[i] = notices[i]
        /\ \A i \in DOMAIN one : one[i].path # p => i \in DOMAIN notices /\ one[i] = notices[i]
    BY <1>1, WithOnMac
  <2>2. /\ \A i \in DOMAIN one : one[i].path # q => i \in DOMAIN new /\ new[i] = one[i]
        /\ \A i \in DOMAIN new : new[i].path # q => i \in DOMAIN one /\ new[i] = one[i]
    BY <1>1, <1>2, WithOnMac
  <2> HIDE DEF one, new
  <2> QED
    BY <2>1, <2>2, <1>6
<1> HIDE DEF one, new
<1>7. ASSUME NEW r \in Paths \ renamed' PROVE Followed(r)'
  <2>1. r \in Paths \ {p, q} /\ r \notin renamed
    BY <1>5, <1>7
  <2>2. (ToldToStore(r)' <=> ToldToStore(r)) /\ (ToldToRemove(r)' <=> ToldToRemove(r))
    BY <1>4, <1>6, <2>1 DEF ToldToStore, ToldToRemove
  <2>3. local'[r] = local[r]
    BY <1>5, <2>1
  <2> QED
    BY <1>1, <1>5, <2>1, <2>2, <2>3 DEF Followed, RemovalsAreTrue, ReadAnew, NotLost, FS!MayBeLost, Stores,
       Busy, WillStore, WillRemove, Received, FS!Notice
<1> QED
  BY <1>1, <1>3, <1>4, <1>5, <1>7 DEF MacInv

(* The watcher goes on to the notices after the one it is at.              *)
LEMMA GoesOnToTheRest ==
  ASSUME FS!TypeOK, Busy, FS!GoesOn, NEW r
  PROVE  /\ at' \in {"read", "handle"}
         /\ WillStore(r, pos + 1) <=> at' = "handle" /\ WillStore(r, pos)'
         /\ WillRemove(r, pos + 1) <=> at' = "handle" /\ WillRemove(r, pos)'
<1>1. /\ pos \in 1..Len(buffer) /\ Len(buffer) \in Nat /\ DOMAIN buffer = 1..Len(buffer)
      /\ at' \in {"read", "handle"} /\ buffer' = buffer
      /\ at' = "handle" => pos' = pos + 1
      /\ at' = "read" => pos = Len(buffer)
  BY NoticeIsRead, GoesOnInBuffer DEF Busy
<1>2. CASE at' = "handle"
  BY <1>1, <1>2 DEF WillStore, WillRemove, Received
<1>3. CASE at' = "read"
  <2>1. Received(r, pos + 1) = {}
    BY <1>1, <1>3 DEF Received
  <2> QED
    BY <1>3, <2>1 DEF WillStore, WillRemove
<1> QED
  BY <1>1, <1>2, <1>3

(* The notice it is at, and the rest.                                      *)
LEMMA ThisOrTheRest ==
  ASSUME FS!TypeOK, Busy, NEW r
  PROVE  /\ WillStore(r, pos) <=>
              (FS!Notice.path = r /\ StoresIt(FS!Notice)) \/ WillStore(r, pos + 1)
         /\ WillRemove(r, pos) <=>
              (FS!Notice.path = r /\ RemovesIt(FS!Notice)) \/ WillRemove(r, pos + 1)
<1>1. pos \in DOMAIN buffer /\ DOMAIN buffer = 1..Len(buffer) /\ pos \in 1..Len(buffer)
        /\ Len(buffer) \in Nat
  BY NoticeIsRead DEF Busy
<1>2. \A i \in DOMAIN buffer : i >= pos <=> i = pos \/ i >= pos + 1
  BY <1>1
<1>3. Received(r, pos) = Received(r, pos + 1) \cup {i \in {pos} : buffer[i].path = r}
  BY <1>1, <1>2 DEF Received
<1> QED
  BY <1>3 DEF WillStore, WillRemove, FS!Notice

LEMMA ReceivesFollowed ==
  ASSUME WatcherTypes, MacInv, platform = "mac", FS!ReceiveChanges
  PROVE  MacInv'
<1>1. /\ notices' = <<>> /\ buffer' = notices /\ pos' = 1 /\ overflow' = FALSE
      /\ at = "wait" /\ at' = "handle"
      /\ local' = local /\ remote' = remote /\ extent' = extent /\ failed' = failed /\ opens' = opens /\ renamed' = renamed
      /\ platform' = platform
  BY DEF FS!ReceiveChanges, MacInv, FS!setup, FS!server, FS!outcomes
<1>2. DOMAIN notices = 1..Len(notices) /\ DOMAIN <<>> = {}
  BY LenProperties DEF WatcherTypes, FS!TypeOK
<1>3. ASSUME NEW r \in Paths \ renamed PROVE Followed(r)'
  <2>1. Followed(r)
    BY <1>3 DEF MacInv
  <2>2. Received(r, pos)' = {i \in DOMAIN notices : notices[i].path = r}
    BY <1>1, <1>2 DEF Received
  <2>3. /\ WillStore(r, pos)' <=> ToldToStore(r)
        /\ WillRemove(r, pos)' <=> ToldToRemove(r)
    BY <1>1, <2>2 DEF WillStore, WillRemove, ToldToStore, ToldToRemove
  <2>4. ~ToldToRemove(r)'
    BY <1>1, <1>2 DEF ToldToRemove
  <2>5. (ToldToRemove(r) => local[r] = FS!Absent) /\ NotLost(r) /\ ~Stores(r)
    BY <1>1, <2>1 DEF Followed, RemovalsAreTrue, Stores
  <2>6. RemovalsAreTrue(r)'
    BY <1>1, <2>3, <2>4, <2>5 DEF RemovalsAreTrue, FS!Absent
  <2>7. ReadAnew(r)'
    BY <1>1 DEF ReadAnew
  <2>8. NotLost(r)'
    BY <1>1, <2>3, <2>5 DEF NotLost, FS!MayBeLost, Stores, FS!Absent, FS!Empty
  <2> QED
    BY <2>6, <2>7, <2>8 DEF Followed
<1>4. OnePerPath(notices)'
  BY <1>1, <1>2 DEF OnePerPath
<1> QED
  BY <1>1, <1>3, <1>4 DEF MacInv

LEMMA HandlesFollowed ==
  ASSUME WatcherTypes, MacInv, platform = "mac",
         FS!HandleNothing \/ FS!HandleRemoved \/ FS!StoreLocks \/ FS!StoreOpens
           \/ FS!StoreSends \/ FS!CallFails
  PROVE  MacInv'
<1>1. /\ platform' = platform /\ local' = local /\ notices' = notices
      /\ overflow' = overflow /\ renamed' = renamed /\ opens' = opens /\ Busy
  BY DEF FS!HandleNothing, FS!HandleRemoved, FS!StoreLocks, FS!StoreOpens, FS!StoreSends,
         FS!CallFails, FS!LockFails, FS!SendFails,
         FS!Handles, FS!setup, FS!server, FS!outcomes, FS!fileVars, Busy
<1> DEFINE p == FS!Notice.path
<1>2. /\ FS!TypeOK /\ p \in Paths /\ local \in [Paths -> FS!Contents]
        /\ remote \in [Paths -> FS!Contents \cup {FS!Mixture}] /\ extent \in [Paths -> Nat]
  BY <1>1, NoticeIsRead DEF WatcherTypes, FS!TypeOK, Busy
<1> SUFFICES ASSUME NEW r \in Paths \ renamed PROVE Followed(r)'
  BY <1>1 DEF MacInv, OnePerPath
<1>3. RemovalsAreTrue(r) /\ ReadAnew(r) /\ NotLost(r)
  BY DEF MacInv, Followed
<1>4. (ToldToStore(r)' <=> ToldToStore(r)) /\ (ToldToRemove(r)' <=> ToldToRemove(r))
  BY <1>1 DEF ToldToStore, ToldToRemove
<1>5. /\ WillStore(r, pos) <=> (p = r /\ StoresIt(FS!Notice)) \/ WillStore(r, pos + 1)
      /\ WillRemove(r, pos) <=> (p = r /\ RemovesIt(FS!Notice)) \/ WillRemove(r, pos + 1)
  BY <1>1, <1>2, ThisOrTheRest
<1>6. ASSUME FS!GoesOn
      PROVE  /\ at' \in {"read", "handle"}
             /\ WillStore(r, pos + 1) <=> at' = "handle" /\ WillStore(r, pos)'
             /\ WillRemove(r, pos + 1) <=> at' = "handle" /\ WillRemove(r, pos)'
  BY <1>1, <1>2, <1>6, GoesOnToTheRest
<1>7. ASSUME FS!GoesOn PROVE RemovalsAreTrue(r)' /\ ReadAnew(r)'
  <2>1. RemovalsAreTrue(r)'
    BY <1>1, <1>3, <1>4, <1>5, <1>6, <1>7 DEF RemovalsAreTrue, Busy, FS!Absent
  <2>2. ReadAnew(r)'
    BY <1>6, <1>7 DEF ReadAnew
  <2> QED
    BY <2>1, <2>2
<1>8. CASE FS!HandleNothing
  <2>1. at = "handle" /\ FS!GoesOn /\ remote' = remote /\ extent' = extent /\ failed' = failed /\ opens' = opens
    BY <1>8 DEF FS!HandleNothing, FS!Handles, FS!setup, FS!server, FS!outcomes
  <2>2. ~StoresIt(FS!Notice)
    BY <1>8, HandlersOnMac DEF FS!HandleNothing, FS!Handles
  <2>3. NotLost(r)'
    BY <1>1, <1>3, <1>4, <1>5, <1>6, <2>1, <2>2 DEF NotLost, FS!MayBeLost, Stores, FS!Absent, FS!Empty
  <2> QED
    BY <1>7, <2>1, <2>3 DEF Followed
<1>9. CASE FS!HandleRemoved
  <2>1. at = "handle" /\ FS!GoesOn
    BY <1>9 DEF FS!HandleRemoved, FS!Handles
  <2>2. RemovesIt(FS!Notice)
    BY <1>9, HandlersOnMac DEF FS!HandleRemoved, FS!Handles
  <2>3. CASE r = p
    <3>1. local[r] = FS!Absent \/ ToldToStore(r)
      BY <1>3, <1>1, <1>5, <2>2, <2>3 DEF RemovalsAreTrue
    <3>2. NotLost(r)'
      BY <1>1, <1>4, <3>1 DEF NotLost, FS!MayBeLost, FS!Absent
    <3> QED
      BY <1>7, <2>1, <3>2 DEF Followed
  <2>4. CASE r # p
    <3>1. remote'[r] = remote[r] /\ extent'[r] = extent[r] /\ (r \in failed' <=> r \in failed)
      BY <1>2, <1>9, <2>4 DEF FS!HandleRemoved, FS!Succeeds
    <3>2. NotLost(r)'
      BY <1>1, <1>3, <1>4, <1>5, <1>6, <2>1, <2>4, <3>1 DEF NotLost, FS!MayBeLost, Stores, FS!Absent, FS!Empty
    <3> QED
      BY <1>7, <2>1, <3>2 DEF Followed
  <2> QED
    BY <2>3, <2>4
<1>10. CASE FS!StoreLocks
  <2>1. /\ at = "handle" /\ at' = "locked" /\ buffer' = buffer /\ pos' = pos
        /\ extent' = extent /\ failed' = failed
        /\ remote' = [remote EXCEPT ![p] = IF @ = FS!Absent THEN FS!Empty ELSE @]
    BY <1>10 DEF FS!StoreLocks, FS!Handles, FS!Created, FS!outcomes
  <2>2. remote'[r] = remote[r] \/ (remote[r] = FS!Absent /\ remote'[r] = FS!Empty)
    BY <1>2, <2>1
  <2>3. (WillStore(r, pos)' <=> WillStore(r, pos)) /\ (WillRemove(r, pos)' <=> WillRemove(r, pos))
    BY <2>1 DEF WillStore, WillRemove, Received
  <2>4. RemovalsAreTrue(r)' /\ ReadAnew(r)'
    BY <1>1, <1>3, <1>4, <2>1, <2>3 DEF RemovalsAreTrue, ReadAnew, Busy, FS!Absent
  <2>5. NotLost(r)'
    BY <1>1, <1>3, <1>4, <2>1, <2>2, <2>3
       DEF NotLost, FS!MayBeLost, FS!LengthOf, Stores, FS!Absent, FS!Empty
  <2> QED
    BY <2>4, <2>5 DEF Followed
<1>11. CASE FS!StoreOpens
  <2>1. at = "locked" /\ remote' = remote /\ extent' = extent /\ failed' = failed
    BY <1>11 DEF FS!StoreOpens, FS!outcomes
  <2>2. CASE content' = local[p] /\ at' = "sending" /\ UNCHANGED <<held, buffer, pos>>
    <3>1. FS!Notice' = FS!Notice
      BY <2>2 DEF FS!Notice
    <3>2. /\ WillStore(r, pos + 1)' <=> WillStore(r, pos + 1)
          /\ WillRemove(r, pos)' <=> WillRemove(r, pos)
      BY <2>2 DEF WillStore, WillRemove, Received
    <3>3. RemovalsAreTrue(r)' /\ ReadAnew(r)'
      BY <1>1, <1>3, <1>4, <2>2, <3>1, <3>2 DEF RemovalsAreTrue, ReadAnew, Busy, FS!Absent
    <3>4. Stores(r) => Stores(r)'
      BY <1>1, <1>5, <2>1, <2>2, <3>1, <3>2 DEF Stores
    <3>5. NotLost(r)'
      BY <1>1, <1>3, <1>4, <2>1, <2>2, <3>4 DEF NotLost, FS!MayBeLost, FS!Absent, FS!Empty
    <3> QED
      BY <3>3, <3>5 DEF Followed
  <2>3. CASE local[p] = FS!Absent /\ FS!GoesOn
    <3>1. CASE r = p
      BY <1>1, <1>7, <2>3, <3>1 DEF NotLost, Followed
    <3>2. CASE r # p
      <4>1. Stores(r) => Stores(r)'
        BY <1>5, <1>6, <2>1, <2>3, <3>2 DEF Stores
      <4> QED
        BY <1>1, <1>3, <1>4, <1>7, <2>1, <2>3, <4>1 DEF NotLost, FS!MayBeLost, Followed
    <3> QED
      BY <3>1, <3>2
  <2>4. opens
    BY DEF MacInv
  <2> QED
    BY <1>11, <2>2, <2>3, <2>4 DEF FS!StoreOpens
<1>12. CASE FS!StoreSends
  <2>1. at = "sending" /\ FS!GoesOn /\ failed' = failed \ {p} /\ FS!Arrives(FS!LengthOf(content))
    BY <1>12 DEF FS!StoreSends, FS!Succeeds
  <2>2. WillStore(r, pos + 1) => Stores(r)'
    BY <1>6, <2>1 DEF Stores
  <2>3. CASE r # p
    <3>1. remote'[r] = remote[r] /\ extent'[r] = extent[r] /\ (r \in failed' <=> r \in failed)
      BY <1>2, <2>1, <2>3 DEF FS!Arrives
    <3>2. NotLost(r)'
      BY <1>1, <1>3, <1>4, <2>1, <2>2, <2>3, <3>1 DEF NotLost, FS!MayBeLost, Stores
    <3> QED
      BY <1>7, <2>1, <3>2 DEF Followed
  <2>4. CASE r = p
    <3>1. content = local[r] \/ local[r] = FS!Absent \/ ToldToStore(r)
      BY <1>3, <2>1, <2>4 DEF ReadAnew
    <3>2. ASSUME content = local[r], local[r] \notin {FS!Absent, FS!Empty}
          PROVE  remote'[r] = local[r] \/ FS!LengthOf(local[r]) < extent'[r]
      <4>1. local[r] \in FS!Contents /\ extent[p] \in Nat
        BY <1>2 DEF FS!TypeOK
      <4>2. FS!LengthOf(content) \in Nat /\ FS!LengthOf(content) > 0
        BY <3>2, <4>1, ContentsAreNumbers
      <4>3. CASE FS!LengthOf(content) >= extent[p]
        BY <1>2, <2>1, <2>4, <3>2, <4>2, <4>3 DEF FS!Arrives
      <4>4. CASE ~(FS!LengthOf(content) >= extent[p])
        <5>1. extent'[p] = extent[p]
          BY <1>2, <2>1, <4>1, <4>2, <4>4 DEF FS!Arrives
        <5> QED
          BY <2>4, <3>2, <4>1, <4>2, <4>4, <5>1
      <4> QED
        BY <4>3, <4>4
    <3>3. NotLost(r)'
      BY <1>1, <1>4, <3>1, <3>2 DEF NotLost, FS!MayBeLost
    <3> QED
      BY <1>7, <2>1, <3>3 DEF Followed
  <2> QED
    BY <2>3, <2>4
<1>13. CASE FS!CallFails
  <2>1. /\ at \in {"handle", "sending"} /\ FS!GoesOn /\ failed' = failed \cup {p}
    BY <1>13 DEF FS!CallFails, FS!LockFails, FS!SendFails, FS!Fails
  <2>2. CASE r = p
    BY <1>7, <2>1, <2>2 DEF NotLost, FS!MayBeLost, Followed
  <2>3. CASE r # p
    <3>1. Stores(r) => Stores(r)'
      BY <1>5, <1>6, <2>1, <2>3 DEF Stores
    <3>2. remote'[r] = remote[r] /\ extent'[r] = extent[r]
      BY <1>2, <1>13, <2>3 DEF FS!CallFails, FS!LockFails, FS!SendFails, FS!Created, FS!Arrives
    <3>3. NotLost(r)'
      BY <1>1, <1>3, <1>4, <2>1, <2>3, <3>1, <3>2 DEF NotLost, FS!MayBeLost
    <3> QED
      BY <1>7, <2>1, <3>3 DEF Followed
  <2> QED
    BY <2>2, <2>3
<1> QED
  BY <1>8, <1>9, <1>10, <1>11, <1>12, <1>13

(* Steps that touch neither the files nor what the watcher has received.   *)
LEMMA RestFollowed ==
  ASSUME MacInv,
         UNCHANGED <<platform, opens, local, remote, extent, failed, notices, overflow,
                     renamed, buffer, pos, content>>,
         at' = at \/ (~Busy /\ ~Busy')
  PROVE  MacInv'
<1>1. ASSUME platform = "mac", NEW r \in Paths \ renamed PROVE Followed(r)'
  <2>1. Followed(r)
    BY <1>1 DEF MacInv
  <2>2. (ToldToStore(r)' <=> ToldToStore(r)) /\ (ToldToRemove(r)' <=> ToldToRemove(r))
    BY DEF ToldToStore, ToldToRemove
  <2>3. /\ Received(r, pos)' = Received(r, pos) /\ Received(r, pos + 1)' = Received(r, pos + 1)
        /\ FS!Notice' = FS!Notice
    BY DEF Received, FS!Notice
  <2>4. Busy => at' = at
    OBVIOUS
  <2>5. Stores(r)' <=> Stores(r)
    <3>1. CASE at' = at
      BY <2>3, <3>1 DEF Stores, WillStore
    <3>2. CASE ~Busy /\ ~Busy'
      BY <3>2 DEF Stores, Busy
    <3> QED
      BY <3>1, <3>2
  <2> QED
    BY <2>1, <2>2, <2>3, <2>4, <2>5 DEF Followed, RemovalsAreTrue, ReadAnew, NotLost, FS!MayBeLost, Busy,
       WillRemove, FS!Absent, FS!Empty
<1> QED
  BY <1>1 DEF MacInv, OnePerPath

LEMMA MacHolds == ASSUME Room PROVE FS!Spec => []MacInv
<1>1. FS!Init => MacInv
  <2> SUFFICES ASSUME FS!Init PROVE MacInv
    OBVIOUS
  <2>1. /\ notices = <<>> /\ DOMAIN notices = {} /\ ~overflow /\ at = "read"
        /\ platform = "mac" => opens
    BY DEF FS!Init
  <2>2. \A r \in Paths : local[r] = FS!Absent
    BY DEF FS!Init
  <2>3. OnePerPath(notices) /\ \A r \in Paths : ~ToldToRemove(r)
    BY <2>1 DEF OnePerPath, ToldToRemove
  <2> QED
    BY <2>1, <2>2, <2>3 DEF MacInv, Followed, RemovalsAreTrue, ReadAnew, NotLost, FS!MayBeLost
<1>2. WatcherTypes /\ MacInv /\ [FS!Next]_FS!vars => MacInv'
  <2> SUFFICES ASSUME WatcherTypes, MacInv, [FS!Next]_FS!vars PROVE MacInv'
    OBVIOUS
  <2>1. CASE UNCHANGED FS!vars
    BY <2>1, RestFollowed DEF FS!vars
  <2>2. CASE FS!Stop \/ FS!Join \/ \E p \in Paths : FS!OtherKeepsLock(p)
    BY <2>2, RestFollowed DEF FS!Stop, FS!Join, FS!OtherKeepsLock, FS!setup, FS!server, FS!outcomes, FS!fileVars, FS!watcherVars
  <2>3. CASE FS!ReadChanges
    BY <2>3, RestFollowed DEF FS!ReadChanges, FS!setup, FS!server, FS!outcomes, FS!fileVars, Busy
  <2>4. platform' = platform
    BY DEF FS!Next, FS!vars, FS!FilesChange, FS!Create, FS!Write, FS!Remove, FS!Rename, FS!Changes,
       FS!WatcherStep, FS!ReadChanges, FS!ReceiveChanges, FS!StopSignalled, FS!HandleNothing,
       FS!HandleRemoved, FS!StoreLocks, FS!StoreOpens, FS!StoreSends,
       FS!CallFails, FS!LockFails, FS!SendFails, FS!OtherKeepsLock, FS!Stop, FS!Join, FS!setup
  <2>5. CASE platform # "mac"
    BY <2>4, <2>5 DEF MacInv
  <2> SUFFICES ASSUME platform = "mac", FS!Next PROVE MacInv'
    BY <2>1, <2>5
  <2>6. ~FS!StopSignalled
    BY DEF FS!StopSignalled
  <2>7. ASSUME NEW p \in Paths, NEW filled \in BOOLEAN, FS!Create(p, filled) PROVE MacInv'
    BY <2>7, OneChangeFollowed DEF FS!Create
  <2>8. ASSUME NEW p \in Paths, FS!Write(p) PROVE MacInv'
    BY <2>8, OneChangeFollowed DEF FS!Write
  <2>9. ASSUME NEW p \in Paths, FS!Remove(p) PROVE MacInv'
    BY <2>9, OneChangeFollowed DEF FS!Remove
  <2>10. CASE FS!FilesChange
    BY <2>7, <2>8, <2>9, <2>10, RenameFollowed DEF FS!FilesChange
  <2> QED
    BY <2>2, <2>3, <2>6, <2>10, ReceivesFollowed, HandlesFollowed DEF FS!Next, FS!WatcherStep
<1> QED
  BY <1>1, <1>2, WatcherTypesHold, PTL DEF FS!Spec

(* On a Mac, where flags of a path are merged and the callback runs on     *)
(* while files change, every file whose content is not the server's is to  *)
(* be stored as it is, or the last call for it failed, or the server's is  *)
(* longer: for any files and contents, and whichever calls fail, if the    *)
(* stream has room for a notice of each file.                              *)
THEOREM ChangesReachTheWatcher == ASSUME Room PROVE Spec => []ChangesAreNotLost
<1>1. WatcherTypes /\ MacInv => ChangesAreNotLost
  <2> SUFFICES ASSUME WatcherTypes, MacInv, NEW p \in Paths,
                      platform = "mac", p \notin renamed,
                      local[p] \notin {FS!Absent, FS!Empty, remote[p]}, ~FS!MayBeLost(p)
               PROVE  FS!ToBeStored(p)
    BY DEF ChangesAreNotLost, FS!ChangesAreNotLost
  <2>1. ToldToStore(p) \/ Stores(p)
    BY DEF MacInv, Followed, NotLost, FS!MayBeLost
  <2>2. \A notice : StoresIt(notice) => FS!HandlerOf(notice) = "store"
    BY HandlersOnMac
  <2>3. CASE ToldToStore(p)
    BY <2>2, <2>3 DEF ToldToStore, FS!ToBeStored
  <2>4. CASE Stores(p)
    <3>1. Busy
      BY <2>4 DEF Stores, Busy
    <3>2. pos \in DOMAIN buffer /\ DOMAIN buffer = 1..Len(buffer) /\ pos \in Int /\ Len(buffer) \in Nat
      BY <3>1, NoticeIsRead DEF WatcherTypes, Busy
    <3>3. \A i \in DOMAIN buffer : i >= pos + 1 => i > pos
      BY <3>2
    <3> QED
      BY <2>2, <2>4, <3>2, <3>3 DEF Stores, WillStore, Received, FS!ToBeStored, FS!Notice
  <2> QED
    BY <2>1, <2>3, <2>4
<1> QED
  BY <1>1, PartsRun, WatcherTypesHold, MacHolds, PTL
=============================================================================
