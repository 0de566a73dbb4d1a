------------------------ MODULE MiniDFSServerProofs ------------------------
(***************************************************************************)
(* Proofs about uploads, downloads and removals over the lock table and    *)
(* the registry, from what FileManagerProofs and PubSubManagerProofs prove *)
(* of these two.  Each step of an operation is a call of FileManager, or   *)
(* of PubSubManager, or leaves both alone.                                 *)
(***************************************************************************)
EXTENDS MiniDFSServer, FiniteSetTheorems, SequenceTheorems, TLAPS

FMP == INSTANCE FileManagerProofs
PSP == INSTANCE PubSubManagerProofs WITH Clients <- Clients \cup {NoClient}

-----------------------------------------------------------------------------
(* The prover takes the operators of FM and FMP, and of PS and PSP, for    *)
(* different ones.  They are the same.                                     *)

LEMMA FiniteSame == FMP!IsFiniteSet(Clients) /\ FMP!IsFiniteSet(Threads)
BY FiniteAssumption DEF IsFiniteSet, FMP!IsFiniteSet

LEMMA InitSame == FM!Init <=> FMP!Init
BY DEF FM!Init, FMP!Init

LEMMA TypeOKSame == FM!TypeOK <=> FMP!TypeOK
<1>1. FM!Types <=> FMP!Types
  BY DEF FM!Types, FMP!Types, FM!Sessions, FMP!Sessions, FM!Calls, FMP!Calls,
         FM!Modes, FMP!Modes, FM!ThreadStates, FMP!ThreadStates
<1>2. FM!WaitersHaveLocks <=> FMP!WaitersHaveLocks
  BY DEF FM!WaitersHaveLocks, FMP!WaitersHaveLocks, FM!Calls, FMP!Calls, FM!Modes, FMP!Modes
<1>3. FM!NewLocksAreFree <=> FMP!NewLocksAreFree
  BY DEF FM!NewLocksAreFree, FMP!NewLocksAreFree
<1>. QED
  BY <1>1, <1>2, <1>3 DEF FM!TypeOK, FMP!TypeOK

LEMMA MutexFreeSame == FM!MutexFree <=> FMP!MutexFree
BY DEF FM!MutexFree, FMP!MutexFree

LEMMA AdmittedSame ==
  ASSUME NEW f, NEW m PROVE FM!Admitted(f, m) <=> FMP!Admitted(f, m)
BY DEF FM!Admitted, FMP!Admitted

LEMMA EntersSame ==
  ASSUME NEW c, NEW f, NEW m, NEW granted
  PROVE  FM!Enters(c, f, m, granted) <=> FMP!Enters(c, f, m, granted)
<1>1. FM!ReaderEnters(c, f, granted) <=> FMP!ReaderEnters(c, f, granted)
  BY DEF FM!ReaderEnters, FMP!ReaderEnters, FM!SetSession, FMP!SetSession, FM!Exists, FMP!Exists
<1>2. FM!WriterEnters(c, f, m, granted) <=> FMP!WriterEnters(c, f, m, granted)
  BY DEF FM!WriterEnters, FMP!WriterEnters, FM!SetSession, FMP!SetSession, FM!Exists, FMP!Exists
<1>. QED
  BY <1>1, <1>2 DEF FM!Enters, FMP!Enters

LEMMA AcquireSame ==
  ASSUME NEW t, NEW c, NEW f, NEW m, NEW granted
  PROVE  /\ FM!AcquireWaits(t, c, f, m) <=> FMP!AcquireWaits(t, c, f, m)
         /\ FM!AcquireAtOnce(t, c, f, m, granted) <=> FMP!AcquireAtOnce(t, c, f, m, granted)
BY MutexFreeSame, AdmittedSame, EntersSame
   DEF FM!AcquireWaits, FMP!AcquireWaits, FM!AcquireAtOnce, FMP!AcquireAtOnce

LEMMA WakesUpSame ==
  ASSUME NEW t, NEW granted PROVE FM!WakesUp(t, granted) <=> FMP!WakesUp(t, granted)
BY MutexFreeSame, AdmittedSame, EntersSame DEF FM!WakesUp, FMP!WakesUp

LEMMA WaitsSame ==
  ASSUME NEW t
  PROVE  /\ FM!WaitsAgain(t) <=> FMP!WaitsAgain(t)
         /\ FM!SpuriousWakeup(t) <=> FMP!SpuriousWakeup(t)
         /\ FM!OrphanReturns(t) <=> FMP!OrphanReturns(t)
BY MutexFreeSame, AdmittedSame
   DEF FM!WaitsAgain, FMP!WaitsAgain, FM!SpuriousWakeup, FMP!SpuriousWakeup,
       FM!OrphanReturns, FMP!OrphanReturns, FM!Exists, FMP!Exists, FM!lockVars, FMP!lockVars

LEMMA ReleaseSame ==
  ASSUME NEW c, NEW f
  PROVE  /\ FM!ReleaseWriteLock(c, f) <=> FMP!ReleaseWriteLock(c, f)
         /\ FM!ReleaseReadLock(c, f) <=> FMP!ReleaseReadLock(c, f)
<1>1. FM!NotifyAll(f) <=> FMP!NotifyAll(f)
  BY DEF FM!NotifyAll, FMP!NotifyAll, FM!At, FMP!At
<1>2. FM!SetSession(c, f, "none") <=> FMP!SetSession(c, f, "none")
  BY DEF FM!SetSession, FMP!SetSession
<1>. QED
  BY <1>1, <1>2, MutexFreeSame DEF FM!ReleaseWriteLock, FMP!ReleaseWriteLock,
     FM!ReleaseReadLock, FMP!ReleaseReadLock

LEMMA WriteFileSame ==
  ASSUME NEW c, NEW f, NEW i, NEW v, NEW written
  PROVE  FM!WriteFile(c, f, i, v, written) <=> FMP!WriteFile(c, f, i, v, written)
<1>1. ASSUME NEW s PROVE FM!WriteAt(s, i, v) = FMP!WriteAt(s, i, v)
  BY DEF FM!WriteAt, FMP!WriteAt
<1>2. FM!SetSession(c, f, "closed") <=> FMP!SetSession(c, f, "closed")
  BY DEF FM!SetSession, FMP!SetSession
<1>3. FM!WritesInPart(f, i) <=> FMP!WritesInPart(f, i)
  BY DEF FM!WritesInPart, FMP!WritesInPart, FM!WriteAt, FMP!WriteAt
<1>. QED
  BY <1>1, <1>2, <1>3, MutexFreeSame DEF FM!WriteFile, FMP!WriteFile, FM!lockVars, FMP!lockVars

LEMMA RemoveSame ==
  ASSUME NEW t, NEW c, NEW f, NEW status
  PROVE  /\ FM!RemoveFile(t, c, f, status) <=> FMP!RemoveFile(t, c, f, status)
         /\ FM!RemoveFileHangs(t, c, f) <=> FMP!RemoveFileHangs(t, c, f)
<1>1. FM!MayRemove(c, f) <=> FMP!MayRemove(c, f)
  BY DEF FM!MayRemove, FMP!MayRemove
<1>2. FM!ClearSessions(f) <=> FMP!ClearSessions(f)
  BY DEF FM!ClearSessions, FMP!ClearSessions
<1>3. FM!EraseLock(f) <=> FMP!EraseLock(f)
  BY <1>2 DEF FM!EraseLock, FMP!EraseLock
<1>4. FM!Orphaned(f) = FMP!Orphaned(f)
  BY DEF FM!Orphaned, FMP!Orphaned, FM!At, FMP!At
<1>5. FM!RemoveFile(t, c, f, status) <=> FMP!RemoveFile(t, c, f, status)
  BY <1>1, <1>2, <1>3, <1>4, MutexFreeSame DEF FM!RemoveFile, FMP!RemoveFile,
     FM!Exists, FMP!Exists, FM!lockVars, FMP!lockVars
<1>6. FM!RemoveFileHangs(t, c, f) <=> FMP!RemoveFileHangs(t, c, f)
  BY <1>1, <1>3, <1>4, MutexFreeSame DEF FM!RemoveFileHangs, FMP!RemoveFileHangs,
     FM!Exists, FMP!Exists, FM!At, FMP!At
<1>. QED
  BY <1>5, <1>6

LEMMA RegistrySame ==
  /\ PS!Init <=> PSP!Init
  /\ PS!TypeOK <=> PSP!TypeOK
  /\ PS!IncrementVersion <=> PSP!IncrementVersion
BY DEF PS!Init, PSP!Init, PS!TypeOK, PSP!TypeOK, PS!Stages, PSP!Stages, PS!Finished,
       PSP!Finished, PS!IncrementVersion, PSP!IncrementVersion

LEMMA PublishSame ==
  ASSUME NEW c PROVE PS!Publish(c) <=> PSP!Publish(c)
<1>1. PS!Registered = PSP!Registered
  BY DEF PS!Registered, PSP!Registered
<1>2. ASSUME NEW notified PROVE PS!NotifyUpdate(notified) <=> PSP!NotifyUpdate(notified)
  BY DEF PS!NotifyUpdate, PSP!NotifyUpdate
<1>. QED
  BY <1>1, <1>2 DEF PS!Publish, PSP!Publish

LEMMA ReactorStepSame ==
  ASSUME NEW r PROVE PS!ReactorStep(r) <=> PSP!ReactorStep(r)
<1>1. PS!Delete(r) <=> PSP!Delete(r)
  BY DEF PS!Delete, PSP!Delete
<1>2. /\ PS!SubscribeTests(r) <=> PSP!SubscribeTests(r)
      /\ PS!SubscribeInserts(r) <=> PSP!SubscribeInserts(r)
      /\ PS!WriteSucceeds(r) <=> PSP!WriteSucceeds(r)
      /\ PS!WriteFails(r) <=> PSP!WriteFails(r)
      /\ PS!Cancelled(r) <=> PSP!Cancelled(r)
  BY DEF PS!SubscribeTests, PSP!SubscribeTests, PS!SubscribeInserts, PSP!SubscribeInserts,
     PS!WriteSucceeds, PSP!WriteSucceeds, PS!WriteFails, PSP!WriteFails,
     PS!Cancelled, PSP!Cancelled
<1>3. /\ PS!UnsubscribeTests(r) <=> PSP!UnsubscribeTests(r)
      /\ PS!UnsubscribeErases(r) <=> PSP!UnsubscribeErases(r)
  BY <1>1 DEF PS!UnsubscribeTests, PSP!UnsubscribeTests, PS!Finished, PSP!Finished,
     PS!UnsubscribeErases, PSP!UnsubscribeErases
<1>. QED
  BY <1>2, <1>3 DEF PS!ReactorStep, PSP!ReactorStep

-----------------------------------------------------------------------------
(* The inductive invariant.                                                *)

OwnTypes ==
  /\ step \in [Threads -> Steps]
  /\ op \in [Threads -> Operations \cup {NoCall}]
  /\ moved \in [Threads -> Seq(Chunks)]
  /\ gone \in [Threads -> BOOLEAN]
  /\ reply \in [Threads -> Replies]
  /\ onDone \subseteq OnDones
  /\ operations \in [Threads -> 0..MaxOperations]

Waits(t) == pc[t] \in {"waiting", "ready", "orphaned"}

(* What operation t and its thread know of each other: while it waits for  *)
(* its lock the thread is in the call t made; until it has the lock it has *)
(* transferred nothing; and it transfers what its client has.              *)
InStep(t) ==
  /\ step[t] = "locking" <=> Waits(t)
  /\ step[t] = "locking" =>
       call[t] = [client |-> ClientOf[t], file |-> op[t].file, mode |-> ModeOf(op[t].kind)]
  /\ step[t] # "idle" => /\ op[t] \in Operations
                         /\ op[t].local \in Locals(op[t].kind)
                         /\ reply[t] = "none"
  /\ step[t] \in {"locking", "locked"} => moved[t] = <<>>
  /\ step[t] = "storing" => op[t].kind = "store" /\ op[t].local # NoFile

(* TypeOK is not inductive: that a thread is woken for the operation that  *)
(* waits, and that what it writes is chunks within the bounds, depends on  *)
(* InStep, and the types of the lock table and of the registry on their    *)
(* own invariants.                                                         *)
IInv ==
  /\ FMP!IInv
  /\ PSP!IInv
  /\ OwnTypes
  /\ \A t \in Threads : InStep(t)

(* The steps of operation t, and of the threads that serve it.             *)
StepOf(t) ==
  \/ \E kind \in Kinds, f \in Files :
       \E local \in Locals(kind) : Begin(t, kind, f, local)
  \/ LockWakesUp(t) \/ LockSpuriousWakeup(t) \/ LockOrphanReturns(t)
  \/ Proceeds(t) \/ Finishes(t) \/ Vanishes(t)

(* To the lock table, a step of operation t is a step of the thread that   *)
(* waits for its lock, or a call for its client.                           *)
TableStep(t) == \/ UNCHANGED fmVars
                \/ Waits(t) /\ FMP!ThreadStep(t)
                \/ \E f \in Files : FMP!Call(t, ClientOf[t], f)

RegistryStep == \/ UNCHANGED psVars
                \/ PSP!IncrementVersion
                \/ \E c \in Clients \cup {NoClient} : PSP!Publish(c)
                \/ \E r \in Reactors : PSP!ReactorStep(r)

-----------------------------------------------------------------------------
(* What the lock table and the registry keep.                              *)

LEMMA TableStepInv ==
  ASSUME FMP!IInv, NEW t \in Threads, TableStep(t) PROVE FMP!IInv'
<1>1. UNCHANGED fmVars => UNCHANGED FMP!vars
  BY DEF fmVars, FMP!vars, FMP!lockVars
<1>2. ClientOf[t] \in Clients
  BY ClientAssumption
<1>3. [FMP!Next]_(FMP!vars)
  BY <1>1, <1>2 DEF TableStep, FMP!Next
<1>. QED
  BY <1>3, FiniteSame, FilesAssumption, FiniteAssumption, CountAssumption, ChunksAssumption,
     FMP!NextInv

LEMMA RegistryStepInv == ASSUME PSP!IInv, RegistryStep PROVE PSP!IInv'
<1>1. UNCHANGED psVars => UNCHANGED PSP!vars
  BY DEF psVars, PSP!vars
<1>. QED
  BY <1>1, ReactorsAssumption, CountAssumption, PSP!StutterInv, PSP!IncrementVersionInv,
     PSP!PublishInv, PSP!ReactorStepInv DEF RegistryStep

(* An operation other than t goes on as it was.                            *)
LEMMA OthersInStep ==
  ASSUME IInv, NEW t \in Threads, NEW u \in Threads \ {t}, TableStep(t),
         step'[u] = step[u], op'[u] = op[u], moved'[u] = moved[u], reply'[u] = reply[u]
  PROVE  InStep(u)'
<1>1. call'[u] = call[u] /\ (Waits(u)' <=> Waits(u))
  <2>1. CASE UNCHANGED fmVars
    BY <2>1 DEF fmVars, Waits
  <2>2. CASE FMP!ThreadStep(t) \/ \E f \in Files : FMP!Call(t, ClientOf[t], f)
    BY <2>2, ClientAssumption, FiniteSame, FilesAssumption, FiniteAssumption, CountAssumption,
       ChunksAssumption, FMP!OthersGoOnWaiting DEF IInv, FMP!IInv, Waits
  <2>. QED
    BY <2>1, <2>2 DEF TableStep
<1>. QED
  BY <1>1 DEF IInv, InStep

(* An operation begun is one of those that can be made.                    *)
LEMMA OperationsMade ==
  ASSUME NEW kind \in Kinds, NEW f \in Files, NEW local \in Locals(kind)
  PROVE  /\ [kind |-> kind, file |-> f, local |-> local] \in Operations
         /\ ModeOf(kind) \in FMP!Modes
BY KindsAssumption DEF Operations, ModeOf, FMP!Modes

(* The local file of an operation that stores is chunks, and not too many. *)
LEMMA LocalChunks ==
  ASSUME NEW t \in Threads, InStep(t), step[t] = "storing"
  PROVE  op[t].local \in Seq(Chunks) /\ Len(op[t].local) <= MaxChunks
BY LocalAssumption DEF InStep, Locals

-----------------------------------------------------------------------------
(* The steps of an operation, one by one.                                  *)

(* A step of t that other operations do not notice.                        *)
KeepsOthers(t) ==
  \A u \in Threads \ {t} : /\ step'[u] = step[u] /\ op'[u] = op[u]
                           /\ moved'[u] = moved[u] /\ reply'[u] = reply[u]
                           /\ gone'[u] = gone[u]

Good(t) == /\ TableStep(t) /\ RegistryStep
           /\ OwnTypes' /\ InStep(t)' /\ KeepsOthers(t)

(* What Goes and Returns do, to t alone.                                   *)
Sets(t, where, status) ==
  /\ step' \in [Threads -> Steps] /\ reply' \in [Threads -> Replies]
  /\ step'[t] = where /\ reply'[t] = status
  /\ \A u \in Threads \ {t} : step'[u] = step[u] /\ reply'[u] = reply[u]

LEMMA GoesSets ==
  ASSUME IInv, NEW t \in Threads, NEW where \in Steps, Goes(t, where)
  PROVE  Sets(t, where, "none")
BY DEF IInv, OwnTypes, Goes, Replies, Sets

LEMMA ReturnsSets ==
  ASSUME IInv, NEW t \in Threads, NEW status \in Replies, Returns(t, status)
  PROVE  Sets(t, "idle", status)
BY DEF IInv, OwnTypes, Returns, Steps, Sets

LEMMA BeginGood ==
  ASSUME IInv, NEW t \in Threads, NEW kind \in Kinds, NEW f \in Files,
         NEW local \in Locals(kind), Begin(t, kind, f, local)
  PROVE  Good(t)
<1>. DEFINE c == ClientOf[t]
<1>1. op' = [op EXCEPT ![t] = [kind |-> kind, file |-> f, local |-> local]]
  BY DEF Begin
<1>2. [kind |-> kind, file |-> f, local |-> local] \in Operations /\ ModeOf(kind) \in FMP!Modes
  BY OperationsMade
<1>3. RegistryStep
  BY DEF Begin, RegistryStep
<1>4. pc \in [Threads -> FMP!ThreadStates] /\ call \in [Threads -> FMP!Calls \cup {NoCall}]
  BY DEF IInv, FMP!IInv, FMP!Types
<1>5. \/ FMP!AcquireWaits(t, c, f, ModeOf(kind)) /\ Goes(t, "locking")
      \/ \E granted \in BOOLEAN : /\ FMP!AcquireAtOnce(t, c, f, ModeOf(kind), granted)
                                  /\ IF granted THEN Goes(t, "locked")
                                                ELSE Returns(t, "ABORTED")
  BY AcquireSame DEF Begin
<1>6. TableStep(t)
  BY <1>2, <1>5 DEF TableStep, FMP!Call
<1>7. OwnTypes' /\ KeepsOthers(t)
  <2>1. Sets(t, "locking", "none") \/ Sets(t, "locked", "none") \/ Sets(t, "idle", "ABORTED")
    BY <1>5, GoesSets, ReturnsSets DEF Steps, Replies
  <2>2. operations' \in [Threads -> 0..MaxOperations]
    BY CountAssumption DEF IInv, OwnTypes, Begin
  <2>3. /\ moved' \in [Threads -> Seq(Chunks)] /\ gone' \in [Threads -> BOOLEAN]
        /\ op' \in [Threads -> Operations \cup {NoCall}] /\ UNCHANGED onDone
    BY <1>1, <1>2 DEF IInv, OwnTypes, Begin
  <2>4. \A u \in Threads \ {t} : op'[u] = op[u] /\ moved'[u] = moved[u] /\ gone'[u] = gone[u]
    BY <1>1 DEF IInv, OwnTypes, Begin
  <2>. QED
    BY <2>1, <2>2, <2>3, <2>4 DEF IInv, OwnTypes, Sets, KeepsOthers
<1>8. op'[t] = [kind |-> kind, file |-> f, local |-> local] /\ moved'[t] = <<>>
  BY <1>1 DEF IInv, OwnTypes, Begin
<1>9. InStep(t)'
  <2>1. CASE FMP!AcquireWaits(t, c, f, ModeOf(kind)) /\ Goes(t, "locking")
    <3>1. step'[t] = "locking" /\ reply'[t] = "none"
      BY <2>1 DEF IInv, OwnTypes, Goes
    <3>2. pc'[t] = "waiting" /\ call'[t] = [client |-> c, file |-> f, mode |-> ModeOf(kind)]
      BY <1>4, <2>1 DEF FMP!AcquireWaits
    <3>. QED
      BY <1>2, <1>8, <3>1, <3>2 DEF InStep, Waits
  <2>2. ASSUME NEW granted \in BOOLEAN, FMP!AcquireAtOnce(t, c, f, ModeOf(kind), granted),
               IF granted THEN Goes(t, "locked") ELSE Returns(t, "ABORTED")
        PROVE  InStep(t)'
    <3>1. pc'[t] = "idle"
      BY <2>2 DEF FMP!AcquireAtOnce
    <3>2. step'[t] = "idle" \/ (step'[t] = "locked" /\ reply'[t] = "none")
      BY <2>2, GoesSets, ReturnsSets DEF Sets, Steps, Replies
    <3>. QED
      BY <1>2, <1>8, <3>1, <3>2 DEF InStep, Waits
  <2>. QED
    BY <1>5, <2>1, <2>2
<1>. QED
  BY <1>3, <1>6, <1>7, <1>9 DEF Good

(* The lock that was waited for is there, or refused.                      *)
LEMMA LockAnsweredGood ==
  ASSUME IInv, NEW t \in Threads, NEW granted \in BOOLEAN, step[t] = "locking",
         LockAnswered(t, granted), TableStep(t), pc' = [pc EXCEPT ![t] = "idle"],
         UNCHANGED <<psVars, op, moved, gone, onDone, operations>>
  PROVE  Good(t)
<1>1. pc'[t] = "idle"
  BY DEF IInv, FMP!IInv, FMP!Types
<1>2. Sets(t, "locked", "none") \/ \E status \in Replies : Sets(t, "idle", status)
  BY GoesSets, ReturnsSets DEF LockAnswered, Steps, Replies
<1>3. OwnTypes' /\ KeepsOthers(t)
  BY <1>2 DEF IInv, OwnTypes, Sets, KeepsOthers
<1>4. InStep(t)'
  BY <1>1, <1>2 DEF IInv, InStep, Waits, Sets
<1>. QED
  BY <1>3, <1>4 DEF Good, RegistryStep

LEMMA LockGood ==
  ASSUME IInv, NEW t \in Threads,
         LockWakesUp(t) \/ LockSpuriousWakeup(t) \/ LockOrphanReturns(t)
  PROVE  Good(t)
<1>1. InStep(t) /\ pc \in [Threads -> FMP!ThreadStates]
  BY DEF IInv, FMP!IInv, FMP!Types
<1>2. ASSUME NEW granted \in BOOLEAN, FMP!WakesUp(t, granted) \/ FMP!OrphanReturns(t),
             LockAnswered(t, granted),
             UNCHANGED <<psVars, op, moved, gone, onDone, operations>>
      PROVE  Good(t)
  <2>1. Waits(t) /\ FMP!ThreadStep(t) /\ pc' = [pc EXCEPT ![t] = "idle"]
    BY <1>2 DEF Waits, FMP!ThreadStep, FMP!WakesUp, FMP!OrphanReturns
  <2>2. step[t] = "locking"
    BY <1>1, <2>1 DEF InStep
  <2>. QED
    BY <1>2, <2>1, <2>2, LockAnsweredGood DEF TableStep
<1>3. ASSUME FMP!WaitsAgain(t) \/ FMP!SpuriousWakeup(t), UNCHANGED <<psVars, opVars>>
      PROVE  Good(t)
  <2>1. Waits(t) /\ FMP!ThreadStep(t) /\ Waits(t)' /\ UNCHANGED call
    BY <1>1, <1>3 DEF Waits, FMP!ThreadStep, FMP!WaitsAgain, FMP!SpuriousWakeup, FMP!lockVars
  <2>2. InStep(t)'
    BY <1>1, <1>3, <2>1 DEF InStep, opVars
  <2>. QED
    BY <1>3, <2>1, <2>2 DEF IInv, OwnTypes, Good, TableStep, RegistryStep, KeepsOthers, opVars
<1>4. CASE LockWakesUp(t)
  BY <1>2, <1>3, <1>4, WakesUpSame, WaitsSame DEF LockWakesUp, opVars
<1>5. CASE LockSpuriousWakeup(t)
  BY <1>3, <1>5, WaitsSame DEF LockSpuriousWakeup
<1>6. CASE LockOrphanReturns(t)
  BY <1>2, <1>6, WaitsSame DEF LockOrphanReturns
<1>. QED
  BY <1>4, <1>5, <1>6

(* A release leaves the calls that wait where they are.                    *)
LEMMA ReleaseWakes ==
  ASSUME IInv, NEW c, NEW f, FMP!ReleaseWriteLock(c, f) \/ FMP!ReleaseReadLock(c, f)
  PROVE  UNCHANGED call /\ \A t \in Threads : Waits(t)' <=> Waits(t)
<1>1. CASE UNCHANGED <<call, pc>>
  BY <1>1 DEF Waits
<1>2. CASE FMP!NotifyAll(f) /\ UNCHANGED call
  BY <1>2 DEF FMP!NotifyAll, FMP!At, Waits
<1>. QED
  BY <1>1, <1>2 DEF FMP!ReleaseWriteLock, FMP!ReleaseReadLock

(* Neither does a removal make the thread wait that makes it.              *)
LEMMA RemoveWaits ==
  ASSUME IInv, NEW t \in Threads, NEW c, NEW f, NEW status,
         FMP!RemoveFile(t, c, f, status) \/ FMP!RemoveFileHangs(t, c, f)
  PROVE  ~Waits(t)'
<1>1. pc[t] = "idle"
  BY DEF FMP!RemoveFile, FMP!RemoveFileHangs
<1>2. CASE FMP!RemoveFile(t, c, f, status)
  BY <1>1, <1>2 DEF FMP!RemoveFile, FMP!Orphaned, FMP!At, Waits
<1>3. CASE FMP!RemoveFileHangs(t, c, f)
  <2>1. pc'[t] = "destroying"
    BY <1>3 DEF FMP!RemoveFileHangs, FMP!Orphaned
  <2>. QED
    BY <2>1 DEF Waits
<1>. QED
  BY <1>2, <1>3

(* What is left to show of a step of an operation that has its lock.       *)
LEMMA ProceedsGood ==
  ASSUME IInv, NEW t \in Threads, step[t] \notin {"idle", "locking"},
         TableStep(t), RegistryStep, ~Waits(t)',
         UNCHANGED <<op, gone, operations>>, onDone' \subseteq OnDones,
         \/ UNCHANGED moved
         \/ /\ step[t] # "locked"
            /\ \E s \in Seq(Chunks) : moved' = [moved EXCEPT ![t] = s],
         \/ UNCHANGED <<step, reply>>
         \/ \E status \in Replies : Sets(t, "idle", status)
         \/ \E where \in {"released", "counted", "fetching", "removing"} : Sets(t, where, "none")
         \/ Sets(t, "storing", "none") /\ op[t].kind = "store" /\ op[t].local # NoFile
  PROVE  Good(t)
<1>1. InStep(t)
  BY DEF IInv
<1>2. OwnTypes' /\ KeepsOthers(t)
  BY DEF IInv, OwnTypes, Sets, KeepsOthers
<1>3. InStep(t)'
  BY <1>1 DEF InStep, Sets
<1>. QED
  BY <1>2, <1>3 DEF Good

(* A step that leaves the lock table alone lets nobody wait who did not.   *)
LEMMA StaysAwake ==
  ASSUME IInv, NEW t \in Threads, step[t] # "locking"
  PROVE  ~Waits(t) /\ (UNCHANGED fmVars => ~Waits(t)')
BY DEF IInv, InStep, Waits, fmVars

LEMMA OpensGood ==
  ASSUME IInv, NEW t \in Threads, StoreOpens(t) \/ FetchOpens(t) PROVE Good(t)
<1>1. /\ step[t] = "locked" /\ UNCHANGED <<fmVars, psVars, op, moved, gone, onDone, operations>>
      /\ TableStep(t) /\ RegistryStep
  BY DEF StoreOpens, FetchOpens, At, TableStep, RegistryStep
<1>2. \/ Sets(t, "storing", "none") /\ op[t].kind = "store" /\ op[t].local # NoFile
      \/ Sets(t, "fetching", "none")
      \/ \E status \in Replies : Sets(t, "idle", status)
  BY GoesSets, ReturnsSets DEF StoreOpens, FetchOpens, At, Steps, Replies
<1>. QED
  BY <1>1, <1>2, StaysAwake, ProceedsGood DEF IInv, OwnTypes

LEMMA StoreChunkGood == ASSUME IInv, NEW t \in Threads, StoreChunk(t) PROVE Good(t)
<1>. DEFINE i == Len(moved[t]) + 1
            v == op[t].local[i]
<1>1. step[t] = "storing" /\ InStep(t)
  BY DEF IInv, StoreChunk, At
<1>2. op[t].local \in Seq(Chunks) /\ Len(op[t].local) <= MaxChunks /\ moved[t] \in Seq(Chunks)
  BY <1>1, LocalChunks DEF IInv, OwnTypes
<1>3. i \in 1..MaxChunks /\ v \in Chunks /\ Append(moved[t], v) \in Seq(Chunks)
  BY <1>2, CountAssumption DEF StoreChunk
<1>4. op[t].file \in Files
  BY <1>1 DEF InStep, Operations
<1>5. PICK written \in BOOLEAN :
        /\ FMP!WriteFile(ClientOf[t], op[t].file, i, v, written)
        /\ IF written THEN /\ moved' = [moved EXCEPT ![t] = Append(@, v)]
                           /\ UNCHANGED <<step, reply>>
                      ELSE Returns(t, "DATA_LOSS") /\ UNCHANGED moved
  BY WriteFileSame DEF StoreChunk
<1>6. TableStep(t) /\ RegistryStep
  BY <1>3, <1>4, <1>5 DEF TableStep, FMP!Call, RegistryStep, StoreChunk
<1>7. ~Waits(t)'
  BY <1>1, <1>5, StaysAwake DEF FMP!WriteFile, Waits
<1>8. \/ \E s \in Seq(Chunks) : moved' = [moved EXCEPT ![t] = s] /\ UNCHANGED <<step, reply>>
      \/ (\E status \in Replies : Sets(t, "idle", status)) /\ UNCHANGED moved
  BY <1>3, <1>5, ReturnsSets DEF Replies
<1>. QED
  BY <1>1, <1>6, <1>7, <1>8, ProceedsGood DEF IInv, OwnTypes, StoreChunk

LEMMA StoreReleasesGood == ASSUME IInv, NEW t \in Threads, StoreReleases(t) PROVE Good(t)
<1>1. step[t] = "storing" /\ InStep(t)
  BY DEF IInv, StoreReleases, At
<1>2. op[t].file \in Files
  BY <1>1 DEF InStep, Operations
<1>3. UNCHANGED fmVars \/ FMP!ReleaseWriteLock(ClientOf[t], op[t].file)
  BY ReleaseSame DEF StoreReleases
<1>4. TableStep(t) /\ RegistryStep
  BY <1>2, <1>3 DEF TableStep, FMP!Call, RegistryStep, StoreReleases
<1>5. ~Waits(t)'
  BY <1>1, <1>3, StaysAwake, ReleaseWakes
<1>6. Sets(t, "released", "none")
  BY GoesSets DEF StoreReleases, Steps
<1>. QED
  BY <1>1, <1>4, <1>5, <1>6, ProceedsGood DEF IInv, OwnTypes, StoreReleases

LEMMA StoreAnnouncesGood ==
  ASSUME IInv, NEW t \in Threads, StoreCounts(t) \/ StorePublishes(t) PROVE Good(t)
<1>1. /\ step[t] \in {"released", "counted"}
      /\ UNCHANGED <<fmVars, op, moved, gone, onDone, operations>> /\ TableStep(t)
  BY DEF StoreCounts, StorePublishes, TableStep
<1>2. RegistryStep
  BY RegistrySame, PublishSame, ClientAssumption DEF StoreCounts, StorePublishes, Publisher,
     RegistryStep
<1>3. Sets(t, "counted", "none") \/ \E status \in Replies : Sets(t, "idle", status)
  BY GoesSets, ReturnsSets DEF StoreCounts, StorePublishes, Steps, Replies
<1>. QED
  BY <1>1, <1>2, <1>3, StaysAwake, ProceedsGood DEF IInv, OwnTypes

(* What a download reads is a chunk of the file.                           *)
LEMMA ReadsChunks ==
  ASSUME IInv, NEW c \in Clients, NEW f \in Files, FM!MayRead(c, f)
  PROVE  sessions[f][c] = "reader" /\ disk[f] \in Seq(Chunks)
<1>1. sessions[f][c] = "reader"
  BY DEF FM!MayRead
<1>. QED
  BY <1>1 DEF IInv, FMP!IInv, FMP!Types, FMP!HandlesHaveFiles, FMP!Exists

LEMMA FetchChunkGood == ASSUME IInv, NEW t \in Threads, FetchChunk(t) PROVE Good(t)
<1>1. step[t] = "fetching" /\ InStep(t) /\ moved[t] \in Seq(Chunks) /\ ClientOf[t] \in Clients
  BY ClientAssumption DEF IInv, OwnTypes, FetchChunk, At
<1>2. op[t].file \in Files
  BY <1>1 DEF InStep, Operations
<1>3. \/ \E s \in Seq(Chunks) : moved' = [moved EXCEPT ![t] = s] /\ UNCHANGED <<step, reply>>
      \/ (\E status \in Replies : Sets(t, "idle", status)) /\ UNCHANGED moved
  <2>1. CASE Returns(t, "DATA_LOSS") \/ Returns(t, "OK")
    <3>1. \E status \in Replies : Sets(t, "idle", status)
      BY <2>1, ReturnsSets DEF Replies
    <3>2. UNCHANGED moved
      BY <1>1, <3>1 DEF FetchChunk, Sets
    <3>. QED
      BY <3>1, <3>2
  <2>2. CASE ~(Returns(t, "DATA_LOSS") \/ Returns(t, "OK"))
    <3>. DEFINE f == op[t].file
                j == Len(moved[t]) + 1
    <3>1. /\ FM!MayRead(ClientOf[t], f) /\ j <= Len(disk[f]) /\ UNCHANGED <<step, reply>>
          /\ moved' = [moved EXCEPT ![t] = Append(moved[t], disk[f][j])]
      BY <2>2 DEF FetchChunk
    <3>2. Append(moved[t], disk[f][j]) \in Seq(Chunks)
      BY <1>1, <1>2, <3>1, ReadsChunks
    <3>. QED
      BY <3>1, <3>2
  <2>. QED
    BY <2>1, <2>2
<1>4. /\ UNCHANGED <<fmVars, psVars, op, gone, onDone, operations>>
      /\ TableStep(t) /\ RegistryStep
  BY DEF FetchChunk, TableStep, RegistryStep
<1>. QED
  BY <1>1, <1>3, <1>4, StaysAwake, ProceedsGood DEF IInv, OwnTypes

LEMMA FetchBreaksGood == ASSUME IInv, NEW t \in Threads, FetchBreaks(t) PROVE Good(t)
<1>1. step[t] = "fetching" /\ InStep(t)
  BY DEF IInv, FetchBreaks, At
<1>2. op[t].file \in Files
  BY <1>1 DEF InStep, Operations
<1>3. FMP!ReleaseReadLock(ClientOf[t], op[t].file)
  BY ReleaseSame DEF FetchBreaks
<1>4. TableStep(t) /\ RegistryStep
  BY <1>2, <1>3 DEF TableStep, FMP!Call, RegistryStep, FetchBreaks
<1>5. ~Waits(t)'
  BY <1>1, <1>3, StaysAwake, ReleaseWakes
<1>6. Sets(t, "idle", "OK") /\ "OK" \in Replies
  BY ReturnsSets DEF FetchBreaks, Replies
<1>. QED
  BY <1>1, <1>4, <1>5, <1>6, ProceedsGood DEF IInv, OwnTypes, FetchBreaks

LEMMA RemovesGood == ASSUME IInv, NEW t \in Threads, Removes(t) PROVE Good(t)
<1>. DEFINE f == op[t].file
            c == ClientOf[t]
<1>1. step[t] = "locked" /\ InStep(t)
  BY DEF IInv, Removes, At
<1>2. f \in Files
  BY <1>1 DEF InStep, Operations
<1>3. RegistryStep
  BY DEF Removes, RegistryStep
<1>4. ASSUME NEW status \in FM!FileStatus, FM!RemoveFile(t, c, f, status),
             Returns(t, StatusOf(status)),
             onDone' = onDone \cup {[thread |-> t, file |-> f, next |-> "release"]}
      PROVE  Good(t)
  <2>1. FMP!RemoveFile(t, c, f, status) /\ status \in FMP!FileStatus
    BY <1>4, RemoveSame DEF FM!FileStatus, FMP!FileStatus
  <2>2. TableStep(t) /\ ~Waits(t)'
    BY <1>2, <2>1, RemoveWaits DEF TableStep, FMP!Call
  <2>3. \E s \in Replies : Sets(t, "idle", s)
    BY <1>4, ReturnsSets DEF FM!FileStatus, StatusOf, Replies
  <2>4. onDone' \subseteq OnDones
    BY <1>2, <1>4 DEF IInv, OwnTypes, OnDones
  <2>. QED
    BY <1>1, <1>3, <2>2, <2>3, <2>4, ProceedsGood DEF Removes
<1>5. ASSUME FM!RemoveFileHangs(t, c, f), Goes(t, "removing"), UNCHANGED onDone
      PROVE  Good(t)
  <2>1. FMP!RemoveFileHangs(t, c, f)
    BY <1>5, RemoveSame
  <2>2. TableStep(t) /\ ~Waits(t)'
    BY <1>2, <2>1, RemoveWaits DEF TableStep, FMP!Call
  <2>3. Sets(t, "removing", "none")
    BY <1>5, GoesSets DEF Steps
  <2>. QED
    BY <1>1, <1>3, <1>5, <2>2, <2>3, ProceedsGood DEF IInv, OwnTypes, Removes
<1>. QED
  BY <1>4, <1>5 DEF Removes

(* What OnDone of RemoveFile does, whatever t is doing by then.            *)
LEMMA FinishesGood == ASSUME IInv, NEW t \in Threads, Finishes(t) PROVE Good(t)
<1>1. PICK d \in onDone : d.thread = t /\ (RemoveReleases(d) \/ RemovePublishes(d))
  BY DEF Finishes
<1>2. d \in OnDones /\ d.file \in Files
  BY DEF IInv, OwnTypes, OnDones
<1>3. CASE RemoveReleases(d)
  <2>1. FMP!ReleaseWriteLock(ClientOf[t], d.file)
    BY <1>1, <1>3, ReleaseSame DEF RemoveReleases
  <2>2. TableStep(t) /\ RegistryStep
    BY <1>2, <1>3, <2>1 DEF RemoveReleases, TableStep, FMP!Call, RegistryStep
  <2>3. UNCHANGED <<step, op, moved, gone, reply, operations>> /\ onDone' \subseteq OnDones
    <3>1. [d EXCEPT !.next = "publish"] \in OnDones
      BY <1>2 DEF OnDones
    <3>. QED
      BY <1>3, <3>1 DEF RemoveReleases, IInv, OwnTypes
  <2>4. InStep(t)'
    BY <2>1, <2>3, ReleaseWakes DEF IInv, InStep
  <2>. QED
    BY <2>2, <2>3, <2>4 DEF Good, IInv, OwnTypes, KeepsOthers
<1>4. CASE RemovePublishes(d)
  <2>1. TableStep(t) /\ RegistryStep
    BY <1>1, <1>4, PublishSame, ClientAssumption DEF RemovePublishes, TableStep, RegistryStep
  <2>2. /\ UNCHANGED <<fmVars, step, op, moved, gone, reply, operations>>
        /\ onDone' \subseteq OnDones
    BY <1>4 DEF RemovePublishes, IInv, OwnTypes
  <2>3. InStep(t)'
    BY <2>2 DEF IInv, InStep, Waits, fmVars
  <2>. QED
    BY <2>1, <2>2, <2>3 DEF Good, IInv, OwnTypes, KeepsOthers
<1>. QED
  BY <1>1, <1>3, <1>4

LEMMA VanishesGood == ASSUME IInv, NEW t \in Threads, Vanishes(t) PROVE Good(t)
<1>1. /\ UNCHANGED <<fmVars, psVars, op, moved, reply, onDone, operations>>
      /\ TableStep(t) /\ RegistryStep
  BY DEF Vanishes, TableStep, RegistryStep
<1>2. /\ step' \in [Threads -> Steps] /\ gone' \in [Threads -> BOOLEAN]
      /\ step'[t] = step[t] \/ (step[t] = "locked" /\ step'[t] = "idle")
      /\ \A u \in Threads \ {t} : step'[u] = step[u] /\ gone'[u] = gone[u]
  BY DEF Vanishes, IInv, OwnTypes, Steps
<1>3. InStep(t)'
  BY <1>1, <1>2 DEF IInv, InStep, Waits, fmVars
<1>. QED
  BY <1>1, <1>2, <1>3 DEF Good, IInv, OwnTypes, KeepsOthers

(* Every step of an operation is a good one.                               *)
LEMMA StepOfGood == ASSUME IInv, NEW t \in Threads, StepOf(t) PROVE Good(t)
BY BeginGood, LockGood, OpensGood, StoreChunkGood, StoreReleasesGood, StoreAnnouncesGood,
   FetchChunkGood, FetchBreaksGood, RemovesGood, FinishesGood, VanishesGood
   DEF StepOf, Proceeds

LEMMA GoodInv == ASSUME IInv, NEW t \in Threads, Good(t) PROVE IInv'
<1>1. FMP!IInv' /\ PSP!IInv'
  BY TableStepInv, RegistryStepInv DEF Good, IInv
<1>2. ASSUME NEW u \in Threads \ {t} PROVE InStep(u)'
  BY OthersInStep DEF Good, KeepsOthers
<1>. QED
  BY <1>1, <1>2 DEF Good, IInv

(* So does what concerns no operation.                                     *)
LEMMA OperationsRest ==
  ASSUME IInv, UNCHANGED <<fmVars, opVars>>, RegistryStep PROVE IInv'
<1>1. FMP!IInv'
  <2>1. UNCHANGED FMP!vars
    BY DEF fmVars, FMP!vars, FMP!lockVars
  <2>. QED
    BY <2>1, FiniteSame, FilesAssumption, FiniteAssumption, CountAssumption, ChunksAssumption,
       FMP!NextInv DEF IInv
<1>2. PSP!IInv'
  BY RegistryStepInv DEF IInv
<1>3. OwnTypes' /\ \A t \in Threads : InStep(t)'
  BY DEF IInv, OwnTypes, InStep, Waits, opVars, fmVars
<1>. QED
  BY <1>1, <1>2, <1>3 DEF IInv

(* A step of the system is one of an operation, or of a stream, or none.   *)
LEMMA StepsOfTheSystem ==
  ASSUME [Next]_vars
  PROVE  \/ \E t \in Threads : StepOf(t)
         \/ UNCHANGED <<fmVars, opVars>> /\ RegistryStep
<1>1. Next => (\E t \in Threads : StepOf(t)) \/ \E r \in Reactors : Streams(r)
  BY DEF Next, StepOf
<1>2. ASSUME NEW r \in Reactors, Streams(r)
      PROVE  UNCHANGED <<fmVars, opVars>> /\ RegistryStep
  BY <1>2, ReactorStepSame DEF Streams, RegistryStep
<1>. QED
  BY <1>1, <1>2 DEF vars, RegistryStep

LEMMA InitInv == Init => IInv
<1>. SUFFICES ASSUME Init PROVE IInv
  OBVIOUS
<1>1. FMP!IInv
  BY InitSame, FiniteSame, FilesAssumption, FiniteAssumption, CountAssumption,
     ChunksAssumption, FMP!InitInv DEF Init
<1>2. PSP!IInv
  BY RegistrySame, ReactorsAssumption, CountAssumption, PSP!InitInv DEF Init
<1>3. OwnTypes
  BY CountAssumption DEF Init, OwnTypes, Steps, Replies
<1>4. \A t \in Threads : InStep(t)
  BY DEF Init, FM!Init, InStep, Waits
<1>. QED
  BY <1>1, <1>2, <1>3, <1>4 DEF IInv

LEMMA NextInv == IInv /\ [Next]_vars => IInv'
BY StepsOfTheSystem, StepOfGood, GoodInv, OperationsRest

-----------------------------------------------------------------------------
(* The theorems.                                                           *)

(* The inductive invariant of the operations with the lock table and the   *)
(* registry they use.                                                      *)
THEOREM Invariance == Spec => []IInv
BY InitInv, NextInv, PTL DEF Spec

(* The variables keep their types, and an operation waits for a lock       *)
(* exactly when a thread of the server does, for any number of clients,    *)
(* threads and streams, whoever vanishes and whatever the system refuses.  *)
THEOREM TypeCorrectness == Spec => []TypeOK
<1>1. IInv => TypeOK
  <2>. SUFFICES ASSUME IInv PROVE TypeOK
    OBVIOUS
  <2>1. FM!TypeOK
    BY TypeOKSame DEF IInv, FMP!IInv, FMP!QueueInv, FMP!TableInv, FMP!TypeOK
  <2>2. PS!TypeOK
    BY RegistrySame DEF IInv, PSP!IInv
  <2>. QED
    BY <2>1, <2>2 DEF IInv, OwnTypes, InStep, Waits, TypeOK
<1>. QED
  BY <1>1, Invariance, PTL

(* Whatever the operations do, they use the lock table as any client may:  *)
(* what FileManagerProofs proves of FileManager holds of it here.          *)
THEOREM OperationsUseTheTable == Spec => FMP!Spec
<1>1. Init => FMP!Init
  BY InitSame DEF Init
<1>2. IInv /\ [Next]_vars => [FMP!Next]_(FMP!vars)
  <2>. SUFFICES ASSUME IInv, [Next]_vars PROVE [FMP!Next]_(FMP!vars)
    OBVIOUS
  <2>1. UNCHANGED fmVars => UNCHANGED FMP!vars
    BY DEF fmVars, FMP!vars, FMP!lockVars
  <2>2. ASSUME NEW t \in Threads, TableStep(t) PROVE [FMP!Next]_(FMP!vars)
    BY <2>1, <2>2, ClientAssumption DEF TableStep, FMP!Next
  <2>. QED
    BY <2>1, <2>2, StepsOfTheSystem, StepOfGood DEF Good
<1>. QED
  BY <1>1, <1>2, Invariance, PTL DEF Spec, FMP!Spec

-----------------------------------------------------------------------------
(* Whole files.  When no two operations are made under one client id, what *)
(* the server keeps for a client is kept for its operation.                *)

Alone == \A t, u \in Threads : ClientOf[t] = ClientOf[u] => t = u

(* The chunks an upload has written are the beginning of the file, and the *)
(* chunks a download has got are, for as long as its client has the file.  *)
Begins(s, f) == /\ disk[f] \in Seq(Chunks) /\ Len(s) <= Len(disk[f])
                /\ \A i \in 1..Len(s) : disk[f][i] = s[i]

Transfers(t) ==
  LET f == op[t].file
  IN  /\ step[t] = "storing" /\ sessions[f][ClientOf[t]] = "writer" => Begins(moved[t], f)
      /\ step[t] = "fetching" /\ sessions[f][ClientOf[t]] = "reader" => Begins(moved[t], f)

TransfersInv == \A t \in Threads : Transfers(t)

(* What a step of one operation does to the files concerns its client.     *)
LEMMA StepOfEffect ==
  ASSUME IInv, NEW t \in Threads, StepOf(t)
  PROVE  UNCHANGED <<sessions, disk>> \/ \E g \in Files : FMP!Effect(ClientOf[t], g)
<1>1. CASE UNCHANGED fmVars
  BY <1>1 DEF fmVars
<1>2. CASE Waits(t) /\ FMP!ThreadStep(t)
  <2>1. call[t] \in FMP!Calls /\ FMP!Effect(call[t].client, call[t].file)
    BY <1>2, FiniteSame, FilesAssumption, FiniteAssumption, CountAssumption,
       ChunksAssumption, FMP!ThreadStepEffect DEF IInv
  <2>2. InStep(t)
    BY DEF IInv
  <2>3. call[t].client = ClientOf[t]
    BY <1>2, <2>2 DEF InStep
  <2>. QED
    BY <2>1, <2>3 DEF FMP!Calls
<1>3. ASSUME NEW f \in Files, FMP!Call(t, ClientOf[t], f)
      PROVE  FMP!Effect(ClientOf[t], f)
  BY <1>3, ClientAssumption, FiniteSame, FilesAssumption, FiniteAssumption, CountAssumption,
     ChunksAssumption, FMP!CallEffect DEF IInv
<1>. QED
  BY <1>1, <1>2, <1>3, StepOfGood DEF Good, TableStep

(* Another operation's step does not touch what t transfers.               *)
LEMMA TransfersOfOthers ==
  ASSUME IInv, Alone, NEW t \in Threads, NEW u \in Threads \ {t}, StepOf(u), Transfers(t)
  PROVE  Transfers(t)'
<1>. DEFINE f == op[t].file
            c == ClientOf[t]
<1>1. step'[t] = step[t] /\ op'[t] = op[t] /\ moved'[t] = moved[t]
  BY StepOfGood DEF Good, KeepsOthers
<1>2. ASSUME step[t] \in {"storing", "fetching"}, sessions'[f][c] \in {"reader", "writer"}
      PROVE  sessions'[f][c] = sessions[f][c] /\ disk'[f] = disk[f]
  <2>1. f \in Files /\ c \in Clients /\ ClientOf[u] \in Clients \ {c}
    BY <1>2, ClientAssumption DEF IInv, InStep, Operations, Alone
  <2>2. ASSUME NEW g \in Files, FMP!Effect(ClientOf[u], g)
        PROVE  sessions'[f][c] = sessions[f][c] /\ disk'[f] = disk[f]
    BY <1>2, <2>1, <2>2, FiniteSame, FilesAssumption, FiniteAssumption, CountAssumption,
       ChunksAssumption, FMP!OthersUndisturbed DEF IInv
  <2>. QED
    BY <2>2, StepOfEffect
<1>. QED
  BY <1>1, <1>2 DEF Transfers, Begins

(* A chunk written behind the beginning of the file extends it.            *)
LEMMA WriteExtends ==
  ASSUME NEW s \in Seq(Chunks), NEW content \in Seq(Chunks), NEW v \in Chunks,
         Len(s) <= Len(content), \A k \in 1..Len(s) : content[k] = s[k],
         FMP!WriteAt(content, Len(s) + 1, v) \in Seq(Chunks)
  PROVE  LET new == FMP!WriteAt(content, Len(s) + 1, v)
         IN  /\ Len(Append(s, v)) <= Len(new)
             /\ \A k \in 1..Len(Append(s, v)) : new[k] = Append(s, v)[k]
<1>. DEFINE n == IF Len(s) + 1 > Len(content) THEN Len(s) + 1 ELSE Len(content)
            new == FMP!WriteAt(content, Len(s) + 1, v)
<1>1. n \in Nat /\ Len(s) + 1 <= n
  OBVIOUS
<1>2. new = [k \in 1..n |-> IF k = Len(s) + 1 THEN v
                            ELSE IF k <= Len(content) THEN content[k] ELSE Hole]
  BY DEF FMP!WriteAt
<1>3. Len(new) = n /\ \A k \in 1..n : new[k] = IF k = Len(s) + 1 THEN v
                               ELSE IF k <= Len(content) THEN content[k] ELSE Hole
  <2>. HIDE DEF n
  <2>. QED
    BY <1>1, <1>2
<1>4. Len(Append(s, v)) = Len(s) + 1
  OBVIOUS
<1>5. ASSUME NEW k \in 1..(Len(s) + 1) PROVE new[k] = Append(s, v)[k]
  <2>. HIDE DEF n, new
  <2>1. k \in 1..n
    BY <1>1
  <2>. QED
    BY <1>3, <2>1
<1>. HIDE DEF new, n
<1>6. Len(Append(s, v)) <= Len(new) /\ \A k \in 1..Len(Append(s, v)) : new[k] = Append(s, v)[k]
  BY <1>1, <1>3, <1>4, <1>5
<1>. QED
  BY <1>6 DEF new

(* The chunk that StoreFile writes and the one that FetchFile reads.       *)
LEMMA StoreChunkTransfers ==
  ASSUME IInv, NEW t \in Threads, Transfers(t), StoreChunk(t)
  PROVE  /\ Transfers(t)'
         /\ moved'[t] # moved[t] =>
              /\ moved'[t] \in Seq(Chunks) /\ op[t].file \in Files
              /\ Begins(moved[t], op[t].file)'
<1>. DEFINE f == op[t].file
            c == ClientOf[t]
            i == Len(moved[t]) + 1
            v == op[t].local[i]
<1>1. step[t] = "storing" /\ InStep(t)
  BY DEF IInv, StoreChunk, At
<1>2. op[t].local \in Seq(Chunks) /\ Len(op[t].local) <= MaxChunks /\ moved[t] \in Seq(Chunks)
  BY <1>1, LocalChunks DEF IInv, OwnTypes
<1>3. i \in Nat \ {0} /\ v \in Chunks /\ Append(moved[t], v) \in Seq(Chunks)
  BY <1>2 DEF StoreChunk
<1>4. f \in Files /\ c \in Clients
  BY <1>1, ClientAssumption DEF InStep, Operations
<1>5. PICK written \in BOOLEAN :
        /\ FMP!WriteFile(c, f, i, v, written)
        /\ IF written THEN /\ moved' = [moved EXCEPT ![t] = Append(@, v)]
                           /\ UNCHANGED <<step, reply>>
                      ELSE Returns(t, "DATA_LOSS") /\ UNCHANGED moved
  BY WriteFileSame DEF StoreChunk
<1>6. UNCHANGED op
  BY DEF StoreChunk
<1>7. CASE written
  <2>1. sessions[f][c] = "writer" /\ disk' = [disk EXCEPT ![f] = FMP!WriteAt(disk[f], i, v)]
    BY <1>5, <1>7 DEF FMP!WriteFile
  <2>2. disk[f] \in Seq(Chunks) /\ disk \in [Files -> Seq(Chunks) \cup {NoFile}]
    BY <1>4, <2>1 DEF IInv, FMP!IInv, FMP!Types, FMP!HandlesHaveFiles, FMP!Exists
  <2>3. Begins(moved[t], f)
    BY <1>1, <2>1 DEF Transfers
  <2>4. FMP!WriteAt(disk[f], i, v) \in Seq(Chunks)
    BY <1>3, <2>2, FiniteSame, FilesAssumption, FiniteAssumption, CountAssumption,
       ChunksAssumption, FMP!WriteAtType
  <2>5. disk'[f] = FMP!WriteAt(disk[f], i, v) /\ moved'[t] = Append(moved[t], v)
    BY <1>4, <1>5, <1>7, <2>1, <2>2 DEF IInv, OwnTypes
  <2>6. Begins(moved[t], f)'
    <3>1. Len(moved[t]) <= Len(disk[f]) /\ \A k \in 1..Len(moved[t]) : disk[f][k] = moved[t][k]
      BY <2>3 DEF Begins
    <3>2. /\ Len(Append(moved[t], v)) <= Len(FMP!WriteAt(disk[f], i, v))
          /\ \A k \in 1..Len(Append(moved[t], v)) :
               FMP!WriteAt(disk[f], i, v)[k] = Append(moved[t], v)[k]
      BY <1>2, <1>3, <2>2, <2>4, <3>1, WriteExtends
    <3>3. op'[t].file = f
      BY <1>6
    <3>4. /\ disk'[op'[t].file] = FMP!WriteAt(disk[f], i, v)
          /\ moved'[t] = Append(moved[t], v)
      BY <2>5, <3>3
    <3>. HIDE DEF i, v
    <3>. QED
      BY <2>4, <3>2, <3>4 DEF Begins
  <2>. QED
    BY <1>1, <1>3, <1>4, <1>5, <1>6, <1>7, <2>5, <2>6 DEF Transfers
<1>8. CASE ~written
  <2>1. Sets(t, "idle", "DATA_LOSS") /\ UNCHANGED moved
    BY <1>5, <1>8, ReturnsSets DEF Replies
  <2>. QED
    BY <2>1 DEF Sets, Transfers
<1>. QED
  BY <1>7, <1>8

LEMMA FetchChunkTransfers ==
  ASSUME IInv, NEW t \in Threads, Transfers(t), FetchChunk(t)
  PROVE  Transfers(t)'
<1>. DEFINE f == op[t].file
            c == ClientOf[t]
            i == Len(moved[t]) + 1
<1>1. step[t] = "fetching" /\ InStep(t) /\ moved[t] \in Seq(Chunks) /\ c \in Clients
  BY ClientAssumption DEF IInv, OwnTypes, FetchChunk, At
<1>2. f \in Files
  BY <1>1 DEF InStep, Operations
<1>3. UNCHANGED <<op, sessions, disk>>
  BY DEF FetchChunk, fmVars
<1>4. CASE Returns(t, "DATA_LOSS") \/ Returns(t, "OK")
  <2>1. \E status \in Replies : Sets(t, "idle", status)
    BY <1>4, ReturnsSets DEF Replies
  <2>. QED
    BY <2>1 DEF Sets, Transfers
<1>5. CASE ~(Returns(t, "DATA_LOSS") \/ Returns(t, "OK"))
  <2>1. /\ FM!MayRead(c, f) /\ i <= Len(disk[f]) /\ UNCHANGED <<step, reply>>
        /\ moved' = [moved EXCEPT ![t] = Append(moved[t], disk[f][i])]
    BY <1>5 DEF FetchChunk
  <2>2. sessions[f][c] = "reader" /\ disk[f] \in Seq(Chunks)
    BY <1>1, <1>2, <2>1, ReadsChunks
  <2>3. Begins(moved[t], f)
    BY <1>1, <2>2 DEF Transfers
  <2>4. moved'[t] = Append(moved[t], disk[f][i])
    BY <2>1 DEF IInv, OwnTypes
  <2>5. Begins(moved[t], f)'
    BY <1>1, <1>3, <2>1, <2>2, <2>3, <2>4 DEF Begins
  <2>. QED
    BY <1>1, <1>3, <2>1, <2>5 DEF Transfers
<1>. QED
  BY <1>4, <1>5

(* A transfer begins with nothing.                                         *)
LEMMA OpensTransfers ==
  ASSUME IInv, NEW t \in Threads, StoreOpens(t) \/ FetchOpens(t)
  PROVE  Transfers(t)'
<1>. DEFINE f == op[t].file
            c == ClientOf[t]
<1>1. /\ step[t] = "locked" /\ InStep(t)
      /\ UNCHANGED <<op, moved, sessions, disk>>
  BY DEF IInv, StoreOpens, FetchOpens, At, fmVars
<1>2. moved[t] = <<>> /\ f \in Files /\ c \in Clients
  BY <1>1, ClientAssumption DEF InStep, Operations
<1>3. ASSUME sessions[f][c] \in {"reader", "writer"} PROVE disk[f] \in Seq(Chunks)
  BY <1>2, <1>3 DEF IInv, FMP!IInv, FMP!Types, FMP!HandlesHaveFiles, FMP!Exists
<1>. QED
  BY <1>1, <1>2, <1>3 DEF Transfers, Begins

(* The other steps of an operation transfer nothing: they come before or   *)
(* after the transfer, or end its hold of the file.                        *)
LEMMA StepOfTransfers ==
  ASSUME IInv, NEW t \in Threads, StepOf(t), Transfers(t)
  PROVE  Transfers(t)'
<1>1. step \in [Threads -> Steps]
  BY DEF IInv, OwnTypes
<1>2. ASSUME NEW kind \in Kinds, NEW f \in Files, NEW local \in Locals(kind),
             Begin(t, kind, f, local)
      PROVE  step'[t] \notin {"storing", "fetching"}
  BY <1>1, <1>2 DEF Begin, Goes, Returns
<1>3. CASE LockWakesUp(t) \/ LockSpuriousWakeup(t) \/ LockOrphanReturns(t)
  <2>1. step[t] = "locking"
    <3>1. Waits(t) /\ InStep(t)
      BY <1>3, WakesUpSame, WaitsSame DEF IInv, LockWakesUp, LockSpuriousWakeup,
         LockOrphanReturns, FMP!WakesUp, FMP!WaitsAgain, FMP!SpuriousWakeup,
         FMP!OrphanReturns, Waits
    <3>. QED
      BY <3>1 DEF InStep
  <2>2. step'[t] \notin {"storing", "fetching"}
    BY <1>1, <1>3, <2>1 DEF LockWakesUp, LockSpuriousWakeup, LockOrphanReturns,
       LockAnswered, Goes, Returns, opVars
  <2>. QED
    BY <2>2 DEF Transfers
<1>4. CASE \/ StoreReleases(t) \/ StoreCounts(t) \/ StorePublishes(t)
           \/ FetchBreaks(t) \/ Removes(t)
  <2>1. step'[t] \notin {"storing", "fetching"}
    BY <1>1, <1>4 DEF StoreReleases, StoreCounts, StorePublishes, FetchBreaks, Removes,
       Goes, Returns
  <2>. QED
    BY <2>1 DEF Transfers
<1>5. CASE Finishes(t)
  <2>1. PICK d \in onDone : d.thread = t /\ (RemoveReleases(d) \/ RemovePublishes(d))
    BY <1>5 DEF Finishes
  <2>2. UNCHANGED <<step, op, moved, disk>>
    BY <2>1, ReleaseSame DEF RemoveReleases, RemovePublishes, FMP!ReleaseWriteLock, fmVars
  <2>3. ASSUME sessions'[op[t].file][ClientOf[t]] \in {"reader", "writer"},
               step[t] \in {"storing", "fetching"}
        PROVE  sessions'[op[t].file][ClientOf[t]] = sessions[op[t].file][ClientOf[t]]
    <3>1. op[t].file \in Files /\ ClientOf[t] \in Clients /\ d.file \in Files
      BY <2>3, ClientAssumption DEF IInv, OwnTypes, OnDones, InStep, Operations
    <3>2. CASE RemovePublishes(d)
      BY <3>2 DEF RemovePublishes, fmVars
    <3>3. CASE FMP!ReleaseWriteLock(ClientOf[t], d.file)
      <4>1. \/ UNCHANGED sessions
            \/ sessions' = [sessions EXCEPT ![d.file][ClientOf[t]] = "none"]
        BY <3>3 DEF FMP!ReleaseWriteLock, FMP!SetSession
      <4>2. sessions \in [Files -> [Clients -> FMP!Sessions]]
        BY DEF IInv, FMP!IInv, FMP!Types
      <4>. QED
        BY <2>3, <3>1, <4>1, <4>2
    <3>. QED
      BY <2>1, <3>2, <3>3, ReleaseSame DEF RemoveReleases
  <2>. QED
    BY <2>2, <2>3 DEF Transfers, Begins
<1>6. CASE Vanishes(t)
  <2>1. UNCHANGED <<op, moved, sessions, disk>> /\ step'[t] \in {step[t], "idle"}
    BY <1>1, <1>6 DEF Vanishes, fmVars
  <2>. QED
    BY <2>1 DEF Transfers, Begins
<1>. QED
  BY <1>2, <1>3, <1>4, <1>5, <1>6, OpensTransfers, StoreChunkTransfers, FetchChunkTransfers
     DEF StepOf, Proceeds, Transfers

LEMMA TransfersNext ==
  ASSUME Alone, IInv, TransfersInv, [Next]_vars PROVE TransfersInv'
<1>1. ASSUME NEW t \in Threads, NEW u \in Threads, StepOf(u)
      PROVE  Transfers(t)'
  BY <1>1, TransfersOfOthers, StepOfTransfers DEF TransfersInv
<1>2. ASSUME UNCHANGED <<fmVars, opVars>> PROVE TransfersInv'
  BY <1>2 DEF TransfersInv, Transfers, Begins, fmVars, opVars
<1>. QED
  BY <1>1, <1>2, StepsOfTheSystem DEF TransfersInv

LEMMA TransfersAlways ==
  ASSUME Alone PROVE Spec => []TransfersInv
<1>1. Init => TransfersInv
  BY DEF Init, TransfersInv, Transfers
<1>2. IInv /\ TransfersInv /\ [Next]_vars => TransfersInv'
  BY TransfersNext
<1>. QED
  BY <1>1, <1>2, Invariance, PTL DEF Spec

(* Which step ends a download, and which one writes for an upload.         *)
LEMMA TransferSteps ==
  ASSUME IInv, NEW t \in Threads, StepOf(t)
  PROVE  /\ step[t] = "fetching" /\ reply'[t] # reply[t] => FetchChunk(t) \/ FetchBreaks(t)
         /\ step[t] = "storing" /\ moved'[t] # moved[t] => StoreChunk(t)
<1>1. CASE LockWakesUp(t) \/ LockSpuriousWakeup(t) \/ LockOrphanReturns(t)
  <2>1. Waits(t) /\ InStep(t)
    BY <1>1, WakesUpSame, WaitsSame DEF IInv, LockWakesUp, LockSpuriousWakeup,
       LockOrphanReturns, FMP!WakesUp, FMP!WaitsAgain, FMP!SpuriousWakeup,
       FMP!OrphanReturns, Waits
  <2>. QED
    BY <2>1 DEF InStep
<1>2. ASSUME NEW kind \in Kinds, NEW f \in Files, NEW local \in Locals(kind),
             Begin(t, kind, f, local)
      PROVE  step[t] = "idle"
  BY <1>2 DEF Begin
<1>3. CASE \/ StoreOpens(t) \/ FetchOpens(t) \/ StoreReleases(t) \/ StoreCounts(t)
           \/ StorePublishes(t) \/ Removes(t)
  BY <1>3 DEF StoreOpens, FetchOpens, StoreReleases, StoreCounts, StorePublishes, Removes, At
<1>4. CASE Finishes(t) \/ Vanishes(t)
  BY <1>4 DEF Finishes, RemoveReleases, RemovePublishes, Vanishes
<1>5. CASE StoreChunk(t) \/ FetchChunk(t) \/ FetchBreaks(t)
  BY <1>5 DEF StoreChunk, FetchChunk, FetchBreaks, At
<1>. QED
  BY <1>1, <1>2, <1>3, <1>4, <1>5 DEF StepOf, Proceeds

(* A download that is answered OK has got the whole file as it is at that  *)
(* moment, provided that no other operation is made under its client id:   *)
(* FetchFile holds the lock by client id, and for all its chunks.          *)
THEOREM DownloadsAreSnapshots ==
  ASSUME Alone PROVE Spec => FetchesAreSnapshots
<1>1. ASSUME IInv, TransfersInv, [Next]_vars, NEW t \in Threads,
             At(t, "fetching", "fetch"), reply'[t] = "OK", ~gone[t]
      PROVE  moved[t] = disk[op[t].file]
  <2>. DEFINE f == op[t].file
              c == ClientOf[t]
  <2>1. step[t] = "fetching" /\ InStep(t) /\ moved[t] \in Seq(Chunks) /\ c \in Clients
    BY <1>1, ClientAssumption DEF IInv, OwnTypes, At
  <2>2. f \in Files /\ reply'[t] # reply[t]
    BY <1>1, <2>1 DEF InStep, Operations
  <2>3. ASSUME NEW u \in Threads, StepOf(u) PROVE u = t
    BY <1>1, <2>2, <2>3, StepOfGood DEF Good, KeepsOthers
  <2>4. StepOf(t)
    BY <1>1, <2>2, <2>3, StepsOfTheSystem DEF opVars
  <2>5. FetchChunk(t)
    BY <1>1, <2>1, <2>2, <2>4, TransferSteps DEF FetchBreaks
  <2>6. Returns(t, "OK") /\ FM!MayRead(c, f) /\ ~(Len(moved[t]) + 1 <= Len(disk[f]))
    <3>1. reply'[t] # "DATA_LOSS" /\ ~UNCHANGED <<step, reply>>
      BY <1>1, <2>2
    <3>2. ~Returns(t, "DATA_LOSS")
      BY <1>1, <3>1 DEF IInv, OwnTypes, Returns
    <3>. QED
      BY <2>5, <3>1, <3>2 DEF FetchChunk
  <2>7. sessions[f][c] = "reader" /\ disk[f] \in Seq(Chunks)
    BY <1>1, <2>1, <2>2, <2>6, ReadsChunks
  <2>8. Begins(moved[t], f)
    BY <1>1, <2>1, <2>7 DEF TransfersInv, Transfers
  <2>9. Len(moved[t]) = Len(disk[f]) /\ \A i \in 1..Len(moved[t]) : moved[t][i] = disk[f][i]
    BY <2>1, <2>6, <2>7, <2>8 DEF Begins
  <2>. QED
    BY <2>1, <2>7, <2>9, SeqEqual
<1>2. IInv /\ TransfersInv /\ [Next]_vars =>
        [\A t \in Threads : At(t, "fetching", "fetch") /\ reply'[t] = "OK" /\ ~gone[t]
            => moved[t] = disk[op[t].file]]_vars
  BY <1>1
<1>. QED
  BY <1>2, Invariance, TransfersAlways, PTL DEF Spec, FetchesAreSnapshots

(* When the last chunk of an upload is written the file begins with all of *)
(* its chunks: nobody has written between them, and none was lost.         *)
THEOREM UploadsAreWhole ==
  ASSUME Alone PROVE Spec => StoresAreWhole
<1>1. ASSUME IInv, TransfersInv, [Next]_vars, NEW t \in Threads,
             At(t, "storing", "store"), moved'[t] # moved[t], moved'[t] = op[t].local
      PROVE  SubSeq(disk'[op[t].file], 1, Len(op[t].local)) = op[t].local
  <2>. DEFINE f == op[t].file
              local == op[t].local
  <2>1. step[t] = "storing" /\ Transfers(t)
    BY <1>1 DEF At, TransfersInv
  <2>2. ASSUME NEW u \in Threads, StepOf(u) PROVE u = t
    BY <1>1, <2>2, StepOfGood DEF Good, KeepsOthers
  <2>3. StepOf(t)
    BY <1>1, <2>2, StepsOfTheSystem DEF opVars
  <2>4. StoreChunk(t)
    BY <1>1, <2>1, <2>3, TransferSteps
  <2>5. moved'[t] \in Seq(Chunks) /\ Begins(moved[t], f)'
    BY <1>1, <2>1, <2>4, StoreChunkTransfers
  <2>6. UNCHANGED op
    BY <2>4 DEF StoreChunk
  <2>7. /\ local \in Seq(Chunks) /\ disk'[f] \in Seq(Chunks) /\ Len(local) <= Len(disk'[f])
        /\ \A i \in 1..Len(local) : disk'[f][i] = local[i]
    BY <1>1, <2>5, <2>6 DEF Begins
  <2>. HIDE DEF f, local
  <2>8. Len(local) \in Nat /\ \A i \in 1..Len(local) : disk'[f][i] \in Chunks
    BY <2>7
  <2>9. /\ SubSeq(disk'[f], 1, Len(local)) \in Seq(Chunks)
        /\ Len(SubSeq(disk'[f], 1, Len(local))) = Len(local)
        /\ \A i \in 1..Len(local) : SubSeq(disk'[f], 1, Len(local))[i] = disk'[f][i]
    BY <2>7, <2>8
  <2>10. SubSeq(disk'[f], 1, Len(local)) = local
    BY <2>7, <2>9, SeqEqual
  <2>. QED
    BY <2>10 DEF f, local
<1>2. IInv /\ TransfersInv /\ [Next]_vars =>
        [\A t \in Threads :
           LET local == op[t].local
           IN  At(t, "storing", "store") /\ moved'[t] # moved[t] /\ moved'[t] = local
                 => SubSeq(disk'[op[t].file], 1, Len(local)) = local]_vars
  BY <1>1
<1>. QED
  BY <1>2, Invariance, TransfersAlways, PTL DEF Spec, StoresAreWhole

-----------------------------------------------------------------------------
(* Downloads are counted.  Where nothing is removed no FileLock is         *)
(* destroyed under a thread that waits for it, and every download that     *)
(* goes on was counted when it got its lock.                               *)

NobodyOrphaned == \A t \in Threads : pc[t] # "orphaned"
CoverInv == NobodyOrphaned /\ ReadersCoverFetches

Fetchers(f) == {t \in Threads : Fetching(t, f)}

(* How the readers of a file and its downloads change with a step of t.    *)
CoverStep(t, f) ==
  \/ readers'[f] = readers[f] /\ Fetchers(f)' \subseteq Fetchers(f)
  \/ readers'[f] = readers[f] + 1 /\ Fetchers(f)' \subseteq Fetchers(f) \cup {t}
  \/ /\ readers[f] > 0 => readers'[f] = readers[f] - 1
     /\ t \in Fetchers(f) /\ Fetchers(f)' \subseteq Fetchers(f) \ {t}

Covers(t) == \A f \in Files : CoverStep(t, f)

LEMMA CoverStepKeeps ==
  ASSUME IInv, IInv', NEW t \in Threads, NEW f \in Files, CoverStep(t, f),
         readers[f] >= Cardinality(Fetchers(f))
  PROVE  readers'[f] >= Cardinality(Fetchers(f)')
<1>. DEFINE S == Fetchers(f)
            T == Fetchers(f)'
<1>1. IsFiniteSet(S) /\ Cardinality(S) \in Nat /\ IsFiniteSet(S \cup {t}) /\ IsFiniteSet(S \ {t})
  <2>1. S \in SUBSET Threads
    BY DEF Fetchers
  <2>2. IsFiniteSet(S)
    BY <2>1, FiniteAssumption, FS_Subset
  <2>. QED
    BY <2>2, FS_CardinalityType, FS_AddElement, FS_RemoveElement
<1>2. readers[f] \in Nat /\ readers'[f] \in Nat
  BY CountAssumption DEF IInv, FMP!IInv, FMP!Types
<1>. HIDE DEF S, T
<1>3. CASE readers'[f] = readers[f] /\ T \subseteq S
  <2>1. Cardinality(T) <= Cardinality(S) /\ Cardinality(T) \in Nat
    BY <1>1, <1>3, FS_Subset, FS_CardinalityType
  <2>. QED
    BY <1>1, <1>2, <1>3, <2>1 DEF S, T
<1>4. CASE readers'[f] = readers[f] + 1 /\ T \subseteq S \cup {t}
  <2>1. Cardinality(T) <= Cardinality(S \cup {t}) /\ Cardinality(T) \in Nat
    BY <1>1, <1>4, FS_Subset, FS_CardinalityType
  <2>2. Cardinality(S \cup {t}) <= Cardinality(S) + 1
    BY <1>1, FS_AddElement
  <2>3. Cardinality(S \cup {t}) \in Nat
    BY <1>1, FS_CardinalityType
  <2>. QED
    BY <1>1, <1>2, <1>4, <2>1, <2>2, <2>3 DEF S, T
<1>5. CASE /\ readers[f] > 0 => readers'[f] = readers[f] - 1
           /\ t \in S /\ T \subseteq S \ {t}
  <2>1. Cardinality(T) <= Cardinality(S \ {t}) /\ Cardinality(T) \in Nat
    BY <1>1, <1>5, FS_Subset, FS_CardinalityType
  <2>2. Cardinality(S \ {t}) = Cardinality(S) - 1 /\ Cardinality(S \ {t}) \in Nat
    BY <1>1, <1>5, FS_RemoveElement, FS_CardinalityType
  <2>. QED
    BY <1>1, <1>2, <1>5, <2>1, <2>2 DEF S, T
<1>. QED
  BY <1>3, <1>4, <1>5 DEF CoverStep, S, T

(* Only t's own part in the downloads of a file changes.                   *)
LEMMA OthersFetching ==
  ASSUME NEW t \in Threads, NEW f \in Files, KeepsOthers(t)
  PROVE  /\ Fetchers(f)' \subseteq Fetchers(f) \cup {t}
         /\ ~Fetching(t, f)' => Fetchers(f)' \subseteq Fetchers(f) \ {t}
         /\ (Fetching(t, f)' => Fetching(t, f)) => Fetchers(f)' \subseteq Fetchers(f)
BY DEF KeepsOthers, Fetchers, Fetching

(* Who gets a lock to download is counted.                                 *)
LEMMA GrantCovers ==
  ASSUME IInv, NEW t \in Threads, NEW c, NEW f \in Files, NEW kind \in Kinds,
         NEW granted \in BOOLEAN,
         FMP!Enters(c, f, ModeOf(kind), granted), KeepsOthers(t),
         op'[t].kind = kind, op'[t].file = f, granted \/ step'[t] = "idle"
  PROVE  Covers(t)
<1>. SUFFICES ASSUME NEW g \in Files PROVE CoverStep(t, g)
  BY DEF Covers
<1>1. readers \in [Files -> 0..MaxReaders]
  BY DEF IInv, FMP!IInv, FMP!Types
<1>2. ModeOf(kind) = "read" <=> kind = "fetch"
  BY KindsAssumption DEF ModeOf
<1>3. readers'[g] = IF g = f /\ granted /\ kind = "fetch" THEN readers[g] + 1 ELSE readers[g]
  BY <1>1, <1>2 DEF FMP!Enters, FMP!ReaderEnters, FMP!WriterEnters
<1>4. CASE g = f /\ granted /\ kind = "fetch"
  BY <1>3, <1>4, OthersFetching DEF CoverStep
<1>5. CASE ~(g = f /\ granted /\ kind = "fetch")
  <2>1. ~Fetching(t, g)'
    BY <1>5 DEF Fetching
  <2>. QED
    BY <1>3, <1>5, <2>1, OthersFetching DEF CoverStep
<1>. QED
  BY <1>4, <1>5

(* The steps that count no reader and begin no download.                   *)
LEMMA RestCovers ==
  ASSUME NEW t \in Threads, KeepsOthers(t), UNCHANGED readers,
         \A g \in Files : Fetching(t, g)' => Fetching(t, g)
  PROVE  Covers(t)
BY OthersFetching DEF CoverStep, Covers

(* What becomes of the operations that wait.                               *)
LEMMA LockCovers ==
  ASSUME IInv, NobodyOrphaned, NEW t \in Threads,
         LockWakesUp(t) \/ LockSpuriousWakeup(t) \/ LockOrphanReturns(t)
  PROVE  Covers(t) /\ NobodyOrphaned'
<1>1. InStep(t) /\ KeepsOthers(t) /\ pc \in [Threads -> FMP!ThreadStates]
  BY LockGood DEF IInv, FMP!IInv, FMP!Types, Good
<1>2. ~LockOrphanReturns(t)
  BY WaitsSame DEF LockOrphanReturns, FMP!OrphanReturns, NobodyOrphaned
<1>3. ASSUME FMP!WaitsAgain(t) \/ FMP!SpuriousWakeup(t), UNCHANGED <<step, op>>
      PROVE  Covers(t) /\ NobodyOrphaned'
  <2>1. UNCHANGED readers /\ NobodyOrphaned'
    BY <1>1, <1>3 DEF FMP!WaitsAgain, FMP!SpuriousWakeup, FMP!lockVars, NobodyOrphaned
  <2>. QED
    BY <1>1, <1>3, <2>1, RestCovers DEF Fetching
<1>4. ASSUME NEW granted \in BOOLEAN, FMP!WakesUp(t, granted), LockAnswered(t, granted),
             UNCHANGED op
      PROVE  Covers(t) /\ NobodyOrphaned'
  <2>1. step[t] = "locking"
    BY <1>1, <1>4 DEF InStep, Waits, FMP!WakesUp
  <2>2. /\ call[t] = [client |-> ClientOf[t], file |-> op[t].file, mode |-> ModeOf(op[t].kind)]
        /\ op[t].kind \in Kinds /\ op[t].file \in Files
    BY <1>1, <2>1 DEF InStep, Operations
  <2>3. FMP!Enters(ClientOf[t], op[t].file, ModeOf(op[t].kind), granted)
    BY <1>4, <2>2 DEF FMP!WakesUp
  <2>4. NobodyOrphaned'
    BY <1>1, <1>4 DEF FMP!WakesUp, NobodyOrphaned
  <2>5. granted \/ step'[t] = "idle"
    BY <1>4 DEF LockAnswered, Returns, IInv, OwnTypes
  <2>6. Covers(t)
    BY <1>1, <1>4, <2>2, <2>3, <2>5, GrantCovers
  <2>. QED
    BY <2>4, <2>6
<1>. QED
  BY <1>2, <1>3, <1>4, WakesUpSame, WaitsSame DEF LockWakesUp, LockSpuriousWakeup, opVars

LEMMA BeginCovers ==
  ASSUME IInv, NobodyOrphaned, NEW t \in Threads, NEW kind \in Kinds,
         NEW f \in Files, NEW local \in Locals(kind), Begin(t, kind, f, local)
  PROVE  Covers(t) /\ NobodyOrphaned'
<1>1. KeepsOthers(t) /\ pc \in [Threads -> FMP!ThreadStates] /\ step \in [Threads -> Steps]
  BY BeginGood DEF IInv, OwnTypes, FMP!IInv, FMP!Types, Good
<1>2. op'[t].kind = kind /\ op'[t].file = f
  BY DEF Begin, IInv, OwnTypes
<1>3. CASE FMP!AcquireWaits(t, ClientOf[t], f, ModeOf(kind)) /\ Goes(t, "locking")
  <2>1. UNCHANGED readers /\ NobodyOrphaned'
    BY <1>1, <1>3 DEF FMP!AcquireWaits, NobodyOrphaned
  <2>2. step'[t] = "locking"
    BY <1>1, <1>3 DEF Goes
  <2>. QED
    BY <1>1, <2>1, <2>2, RestCovers DEF Fetching
<1>4. ASSUME NEW granted \in BOOLEAN,
             FMP!AcquireAtOnce(t, ClientOf[t], f, ModeOf(kind), granted),
             IF granted THEN Goes(t, "locked") ELSE Returns(t, "ABORTED")
      PROVE  Covers(t) /\ NobodyOrphaned'
  <2>1. FMP!Enters(ClientOf[t], f, ModeOf(kind), granted) /\ NobodyOrphaned'
    BY <1>4 DEF FMP!AcquireAtOnce, NobodyOrphaned
  <2>2. granted \/ step'[t] = "idle"
    BY <1>1, <1>4 DEF Returns
  <2>. QED
    BY <1>1, <1>2, <2>1, <2>2, GrantCovers
<1>. QED
  BY <1>3, <1>4, AcquireSame DEF Begin

(* A release counts one reader less, when it is the one to be counted.     *)
LEMMA FetchBreaksCovers ==
  ASSUME IInv, NEW t \in Threads, FetchBreaks(t)
  PROVE  Covers(t)
<1>. SUFFICES ASSUME NEW g \in Files PROVE CoverStep(t, g)
  BY DEF Covers
<1>. DEFINE f == op[t].file
<1>1. KeepsOthers(t) /\ readers \in [Files -> 0..MaxReaders] /\ UNCHANGED op
  BY FetchBreaksGood DEF IInv, FMP!IInv, FMP!Types, Good, FetchBreaks
<1>2. FMP!ReleaseReadLock(ClientOf[t], f)
  BY ReleaseSame DEF FetchBreaks
<1>3. step[t] = "fetching" /\ op[t].kind = "fetch" /\ step'[t] = "idle"
  BY DEF FetchBreaks, At, Returns, IInv, OwnTypes
<1>4. ~Fetching(t, g)'
  BY <1>3 DEF Fetching
<1>5. CASE UNCHANGED readers
  BY <1>1, <1>4, <1>5, OthersFetching DEF CoverStep
<1>6. CASE readers' = [readers EXCEPT ![f] = IF @ = 0 THEN MaxReaders ELSE @ - 1]
  <2>1. CASE g = f
    <3>1. t \in Fetchers(g)
      BY <1>3, <2>1 DEF Fetchers, Fetching
    <3>2. readers[g] > 0 => readers'[g] = readers[g] - 1
      BY <1>1, <1>6, <2>1
    <3>. QED
      BY <1>1, <1>4, <3>1, <3>2, OthersFetching DEF CoverStep
  <2>2. CASE g # f
    BY <1>1, <1>4, <1>6, <2>2, OthersFetching DEF CoverStep
  <2>. QED
    BY <2>1, <2>2
<1>. QED
  BY <1>2, <1>5, <1>6 DEF FMP!ReleaseReadLock

(* A release orphans nobody.                                               *)
LEMMA ReleaseOrphansNobody ==
  ASSUME NobodyOrphaned, NEW c, NEW f, FMP!ReleaseWriteLock(c, f) \/ FMP!ReleaseReadLock(c, f)
  PROVE  NobodyOrphaned'
<1>1. CASE UNCHANGED pc
  BY <1>1 DEF NobodyOrphaned
<1>2. CASE FMP!NotifyAll(f)
  BY <1>2 DEF FMP!NotifyAll, NobodyOrphaned
<1>. QED
  BY <1>1, <1>2 DEF FMP!ReleaseWriteLock, FMP!ReleaseReadLock

LEMMA ProceedsCovers ==
  ASSUME IInv, NobodyOrphaned, "remove" \notin Kinds, NEW t \in Threads,
         Proceeds(t) \/ Finishes(t) \/ Vanishes(t)
  PROVE  Covers(t) /\ NobodyOrphaned'
<1>1. KeepsOthers(t) /\ step \in [Threads -> Steps] /\ InStep(t)
  BY StepOfGood DEF StepOf, IInv, OwnTypes, Good
<1>2. CASE StoreOpens(t) \/ FetchOpens(t) \/ FetchChunk(t)
  <2>1. UNCHANGED <<pc, readers, op>>
    BY <1>2 DEF StoreOpens, FetchOpens, FetchChunk, fmVars
  <2>2. \A g \in Files : Fetching(t, g)' => Fetching(t, g)
    BY <1>1, <1>2, <2>1 DEF StoreOpens, FetchOpens, FetchChunk, At, Fetching, Goes, Returns
  <2>. QED
    BY <1>1, <2>1, <2>2, RestCovers DEF NobodyOrphaned
<1>3. CASE StoreChunk(t)
  <2>1. UNCHANGED <<pc, readers, op>>
    BY <1>3, WriteFileSame DEF StoreChunk, FMP!WriteFile
  <2>2. step'[t] \notin {"locked", "fetching"}
    BY <1>1, <1>3 DEF StoreChunk, At, Returns
  <2>. QED
    BY <1>1, <2>1, <2>2, RestCovers DEF NobodyOrphaned, Fetching
<1>4. CASE StoreReleases(t)
  <2>1. UNCHANGED fmVars \/ FMP!ReleaseWriteLock(ClientOf[t], op[t].file)
    BY <1>4, ReleaseSame DEF StoreReleases
  <2>2. UNCHANGED readers /\ NobodyOrphaned'
    BY <2>1, ReleaseOrphansNobody DEF FMP!ReleaseWriteLock, fmVars, NobodyOrphaned
  <2>3. step'[t] \notin {"locked", "fetching"}
    BY <1>1, <1>4 DEF StoreReleases, Goes
  <2>. QED
    BY <1>1, <2>2, <2>3, RestCovers DEF Fetching
<1>5. CASE StoreCounts(t) \/ StorePublishes(t)
  <2>1. UNCHANGED <<pc, readers>>
    BY <1>5 DEF StoreCounts, StorePublishes, fmVars
  <2>2. step'[t] \notin {"locked", "fetching"}
    BY <1>1, <1>5 DEF StoreCounts, StorePublishes, Goes, Returns
  <2>. QED
    BY <1>1, <2>1, <2>2, RestCovers DEF NobodyOrphaned, Fetching
<1>6. CASE FetchBreaks(t)
  BY <1>6, FetchBreaksCovers, ReleaseOrphansNobody, ReleaseSame DEF FetchBreaks
<1>7. ~Removes(t)
  BY <1>1, KindsAssumption DEF Removes, At, InStep, Operations
<1>8. CASE Finishes(t)
  <2>1. PICK d \in onDone : RemoveReleases(d) \/ RemovePublishes(d)
    BY <1>8 DEF Finishes
  <2>2. UNCHANGED <<step, op, readers>> /\ NobodyOrphaned'
    <3>1. CASE RemoveReleases(d)
      BY <3>1, ReleaseSame, ReleaseOrphansNobody DEF RemoveReleases, FMP!ReleaseWriteLock
    <3>2. CASE RemovePublishes(d)
      BY <3>2 DEF RemovePublishes, fmVars, NobodyOrphaned
    <3>. QED
      BY <2>1, <3>1, <3>2
  <2>. QED
    BY <1>1, <2>2, RestCovers DEF Fetching
<1>9. CASE Vanishes(t)
  <2>1. UNCHANGED <<pc, readers, op>> /\ step'[t] \in {step[t], "idle"}
    BY <1>1, <1>9 DEF Vanishes, fmVars
  <2>. QED
    BY <1>1, <2>1, RestCovers DEF NobodyOrphaned, Fetching
<1>. QED
  BY <1>2, <1>3, <1>4, <1>5, <1>6, <1>7, <1>8, <1>9 DEF Proceeds

LEMMA CoverNext ==
  ASSUME "remove" \notin Kinds, IInv, CoverInv, [Next]_vars PROVE CoverInv'
<1>1. IInv'
  BY NextInv
<1>2. \A g \in Files : readers[g] >= Cardinality(Fetchers(g))
  BY DEF CoverInv, ReadersCoverFetches, Fetchers
<1>3. ASSUME NEW t \in Threads, StepOf(t) PROVE CoverInv'
  <2>1. Covers(t) /\ NobodyOrphaned'
    BY <1>3, BeginCovers, LockCovers, ProceedsCovers DEF StepOf, CoverInv
  <2>2. ASSUME NEW g \in Files PROVE readers'[g] >= Cardinality(Fetchers(g)')
    BY <1>1, <1>2, <2>1, CoverStepKeeps DEF Covers
  <2>. QED
    BY <2>1, <2>2 DEF CoverInv, ReadersCoverFetches, Fetchers
<1>4. CASE UNCHANGED <<fmVars, opVars>>
  BY <1>4 DEF CoverInv, NobodyOrphaned, ReadersCoverFetches, Fetching, fmVars, opVars
<1>. QED
  BY <1>3, <1>4, StepsOfTheSystem

(* FileLock::readers counts every download that has its lock and has not   *)
(* ended, also when several are made under one client id and share one     *)
(* session, as long as nothing is removed.                                 *)
THEOREM DownloadsAreCounted ==
  ASSUME "remove" \notin Kinds PROVE Spec => []ReadersCoverFetches
<1>1. Init => CoverInv
  <2>. SUFFICES ASSUME Init PROVE CoverInv
    OBVIOUS
  <2>1. NobodyOrphaned
    BY DEF Init, FM!Init, NobodyOrphaned
  <2>2. ASSUME NEW f \in Files PROVE readers[f] >= Cardinality({t \in Threads : Fetching(t, f)})
    <3>1. {t \in Threads : Fetching(t, f)} = {}
      BY DEF Init, Fetching
    <3>2. readers[f] = 0
      BY DEF Init, FM!Init
    <3>. QED
      BY <3>1, <3>2, FS_EmptySet
  <2>. QED
    BY <2>1, <2>2 DEF CoverInv, ReadersCoverFetches
<1>2. IInv /\ CoverInv /\ [Next]_vars => CoverInv'
  BY CoverNext
<1>3. CoverInv => ReadersCoverFetches
  BY DEF CoverInv
<1>. QED
  BY <1>1, <1>2, <1>3, Invariance, PTL DEF Spec

-----------------------------------------------------------------------------
(* Nothing is left behind.  Where all that is done is to store files and   *)
(* the system does not fail, every session is a writer's whose upload has  *)
(* not released it yet, or has no chunk and never will.  As there are any  *)
(* number of threads, it is enough that each stands for one upload.        *)

OnlyUploads == Kinds = {"store"} /\ FaultyFiles = {} /\ MaxOperations = 1

Holds(t, c, f) ==
  /\ operations[t] = 1
  /\ ClientOf[t] = c /\ op[t].kind = "store" /\ op[t].file = f
  /\ \/ step[t] \in {"locked", "storing"}
     \/ step[t] \in {"released", "counted", "idle"} /\ moved[t] = <<>>

Begun(t) == step[t] # "idle" => operations[t] = 1

HoldInv ==
  /\ \A t \in Threads : Begun(t)
  /\ \A f \in Files, c \in Clients :
       \/ sessions[f][c] = "none"
       \/ sessions[f][c] = "writer" /\ \E t \in Threads : Holds(t, c, f)

(* What t does begins no other operation, and its own only when idle.      *)
BeginsNoOther(t) ==
  /\ \A u \in Threads \ {t} : operations'[u] = operations[u]
  /\ Begun(t)'

LEMMA OnlyBeginBegins ==
  ASSUME NEW t \in Threads, StepOf(t)
  PROVE  \/ operations' = [operations EXCEPT ![t] = @ + 1] /\ operations[t] < MaxOperations
            /\ step[t] = "idle"
         \/ UNCHANGED operations
BY DEF StepOf, Begin, LockWakesUp, LockSpuriousWakeup, LockOrphanReturns, Proceeds,
       Finishes, Vanishes, StoreOpens, StoreChunk, StoreReleases, StoreCounts,
       StorePublishes, FetchOpens, FetchChunk, FetchBreaks, Removes, RemoveReleases,
       RemovePublishes, opVars

LEMMA BeginsOne ==
  ASSUME OnlyUploads, IInv, HoldInv, NEW t \in Threads, StepOf(t)
  PROVE  BeginsNoOther(t)
<1>1. CASE operations' = [operations EXCEPT ![t] = @ + 1] /\ operations[t] < MaxOperations
  BY <1>1 DEF IInv, OwnTypes, BeginsNoOther, Begun, OnlyUploads
<1>2. CASE UNCHANGED operations /\ (step[t] # "idle" \/ UNCHANGED step)
  BY <1>2 DEF BeginsNoOther, Begun, HoldInv
<1>4. FMP!OrphanReturns(t) => step[t] # "idle"
  <2>1. InStep(t)
    BY DEF IInv
  <2>. QED
    BY <2>1 DEF InStep, Waits, FMP!OrphanReturns
<1>5. StepOf(t) => \/ operations' = [operations EXCEPT ![t] = @ + 1] /\ operations[t] < MaxOperations
                  \/ step[t] # "idle" \/ UNCHANGED step
  BY <1>4, WaitsSame DEF StepOf, Begin, LockWakesUp, LockSpuriousWakeup, LockOrphanReturns,
         Proceeds, Finishes, Vanishes, StoreOpens, StoreChunk, StoreReleases, StoreCounts,
         StorePublishes, FetchOpens, FetchChunk, FetchBreaks, Removes, RemoveReleases,
         RemovePublishes, At, opVars
<1>. QED
  BY <1>1, <1>2, <1>5, OnlyBeginBegins

(* It is enough that t still holds what is kept for it after its step, and *)
(* that no session appears that t does not hold.                           *)
LEMMA HoldKept ==
  ASSUME HoldInv, NEW t \in Threads, KeepsOthers(t), BeginsNoOther(t),
         \A f \in Files, c \in Clients :
            \/ sessions'[f][c] = "none"
            \/ sessions'[f][c] = sessions[f][c] /\ (Holds(t, c, f) => Holds(t, c, f)')
            \/ sessions'[f][c] = "writer" /\ Holds(t, c, f)'
  PROVE  HoldInv'
<1>2. ASSUME NEW u \in Threads \ {t}, NEW f \in Files, NEW c \in Clients, Holds(u, c, f)
      PROVE  Holds(u, c, f)'
  BY <1>2 DEF Holds, KeepsOthers, BeginsNoOther
<1>3. ASSUME NEW f \in Files, NEW c \in Clients, sessions'[f][c] # "none"
      PROVE  sessions'[f][c] = "writer" /\ \E u \in Threads : Holds(u, c, f)'
  <2>1. CASE sessions'[f][c] = "writer" /\ Holds(t, c, f)'
    BY <2>1
  <2>2. CASE sessions'[f][c] = sessions[f][c] /\ (Holds(t, c, f) => Holds(t, c, f)')
    <3>1. sessions[f][c] = "writer" /\ \E u \in Threads : Holds(u, c, f)
      BY <1>3, <2>2 DEF HoldInv
    <3>. QED
      BY <1>2, <2>2, <3>1
  <2>. QED
    BY <1>3, <2>1, <2>2
<1>4. \A u \in Threads : Begun(u)'
  BY DEF HoldInv, Begun, KeepsOthers, BeginsNoOther
<1>. QED
  BY <1>3, <1>4 DEF HoldInv

(* Who gets a lock to store holds it; nobody is refused one.               *)
LEMMA GrantHolds ==
  ASSUME OnlyUploads, IInv, NEW t \in Threads, NEW f \in Files, NEW granted \in BOOLEAN,
         FMP!Enters(ClientOf[t], f, "create", granted)
  PROVE  /\ granted
         /\ \A g \in Files, c \in Clients :
              sessions'[g][c] = IF g = f /\ c = ClientOf[t] THEN "writer" ELSE sessions[g][c]
<1>1. FMP!WriterEnters(ClientOf[t], f, "create", granted)
  BY DEF FMP!Enters
<1>2. granted /\ sessions' = [sessions EXCEPT ![f][ClientOf[t]] = "writer"]
  BY <1>1 DEF FMP!WriterEnters, FMP!SetSession, OnlyUploads
<1>3. sessions \in [Files -> [Clients -> FMP!Sessions]]
  BY DEF IInv, FMP!IInv, FMP!Types
<1>. QED
  BY <1>2, <1>3, ClientAssumption

LEMMA BeginHolds ==
  ASSUME OnlyUploads, IInv, HoldInv, NEW t \in Threads, NEW kind \in Kinds, NEW f \in Files,
         NEW local \in Locals(kind), Begin(t, kind, f, local)
  PROVE  HoldInv'
<1>1. /\ KeepsOthers(t) /\ BeginsNoOther(t)
      /\ step \in [Threads -> Steps] /\ step[t] = "idle"
  BY BeginGood, BeginsOne DEF Begin, IInv, OwnTypes, Good, StepOf
<1>2. /\ op'[t].kind = "store" /\ op'[t].file = f
      /\ operations[t] = 0 /\ operations'[t] = 1
      /\ ModeOf(kind) = "create"
  BY DEF Begin, IInv, OwnTypes, OnlyUploads, ModeOf
<1>5. \A g \in Files, c \in Clients : ~Holds(t, c, g)
  BY <1>2 DEF Holds
<1>3. CASE FMP!AcquireWaits(t, ClientOf[t], f, "create")
  BY <1>1, <1>3, <1>5, HoldKept DEF FMP!AcquireWaits
<1>4. ASSUME NEW granted \in BOOLEAN, FMP!AcquireAtOnce(t, ClientOf[t], f, "create", granted),
             granted => Goes(t, "locked")
      PROVE  HoldInv'
  <2>1. /\ granted
        /\ \A g \in Files, c \in Clients :
             sessions'[g][c] = IF g = f /\ c = ClientOf[t] THEN "writer" ELSE sessions[g][c]
    BY <1>4, GrantHolds DEF FMP!AcquireAtOnce
  <2>2. step'[t] = "locked"
    BY <1>1, <1>4, <2>1 DEF Goes
  <2>3. Holds(t, ClientOf[t], f)'
    BY <1>2, <2>2 DEF Holds
  <2>. QED
    BY <1>1, <1>2, <1>5, <2>1, <2>3, HoldKept
<1>. QED
  BY <1>2, <1>3, <1>4, AcquireSame DEF Begin

LEMMA LockHolds ==
  ASSUME OnlyUploads, IInv, HoldInv, NEW t \in Threads,
         LockWakesUp(t) \/ LockSpuriousWakeup(t) \/ LockOrphanReturns(t)
  PROVE  HoldInv'
<1>1. /\ KeepsOthers(t) /\ BeginsNoOther(t)
      /\ step \in [Threads -> Steps] /\ InStep(t)
  BY LockGood, BeginsOne DEF IInv, OwnTypes, Good, StepOf
<1>2. Waits(t)
  BY WakesUpSame, WaitsSame DEF LockWakesUp, LockSpuriousWakeup,
     LockOrphanReturns, FMP!WakesUp, FMP!WaitsAgain, FMP!SpuriousWakeup,
     FMP!OrphanReturns, Waits
<1>3. /\ step[t] = "locking" /\ op[t].kind = "store" /\ op[t].file \in Files
      /\ moved[t] = <<>>
      /\ call[t] = [client |-> ClientOf[t], file |-> op[t].file, mode |-> "create"]
      /\ UNCHANGED <<op, moved, operations>>
  BY <1>1, <1>2 DEF InStep, Operations, OnlyUploads, ModeOf, LockWakesUp, LockSpuriousWakeup,
     LockOrphanReturns, opVars
<1>4. \A g \in Files, c \in Clients : ~Holds(t, c, g)
  BY <1>3 DEF Holds
<1>8. operations[t] = 1
  BY <1>3 DEF HoldInv, Begun
<1>5. CASE UNCHANGED sessions
  BY <1>1, <1>3, <1>4, <1>5, HoldKept
<1>6. ASSUME NEW granted \in BOOLEAN, FMP!WakesUp(t, granted), LockAnswered(t, granted)
      PROVE  HoldInv'
  <2>1. /\ granted
        /\ \A g \in Files, c \in Clients : sessions'[g][c] =
             IF g = op[t].file /\ c = ClientOf[t] THEN "writer" ELSE sessions[g][c]
    BY <1>3, <1>6, GrantHolds DEF FMP!WakesUp
  <2>2. step'[t] \in {"locked", "idle"}
    BY <1>1, <1>6, <2>1 DEF LockAnswered, Goes, Returns
  <2>3. Holds(t, ClientOf[t], op[t].file)'
    BY <1>3, <1>8, <2>2 DEF Holds
  <2>. QED
    BY <1>1, <1>3, <1>4, <2>1, <2>3, HoldKept
<1>7. FMP!WaitsAgain(t) \/ FMP!SpuriousWakeup(t) \/ FMP!OrphanReturns(t) => UNCHANGED sessions
  BY DEF FMP!WaitsAgain, FMP!SpuriousWakeup, FMP!OrphanReturns, FMP!lockVars
<1>. QED
  BY <1>5, <1>6, <1>7, WakesUpSame, WaitsSame
     DEF LockWakesUp, LockSpuriousWakeup, LockOrphanReturns

(* An upload that has a first chunk knows what to release; one that has    *)
(* none goes on holding its lock.                                          *)
LEMMA ReleaseHolds ==
  ASSUME OnlyUploads, IInv, HoldInv, NEW t \in Threads, StoreReleases(t)
  PROVE  HoldInv'
<1>. DEFINE f == op[t].file
            c == ClientOf[t]
<1>1. /\ KeepsOthers(t) /\ BeginsNoOther(t) /\ InStep(t)
      /\ step[t] = "storing" /\ step'[t] = "released" /\ UNCHANGED <<op, moved, operations>>
  BY StoreReleasesGood, BeginsOne
     DEF IInv, OwnTypes, Good, StoreReleases, At, Goes, StepOf, Proceeds
<1>2. f \in Files /\ c \in Clients
  BY <1>1, ClientAssumption DEF InStep, Operations
<1>3. CASE moved[t] = <<>>
  <2>1. UNCHANGED sessions
    BY <1>3 DEF StoreReleases, fmVars
  <2>. QED
    BY <1>1, <1>3, <2>1, HoldKept DEF Holds
<1>4. CASE moved[t] # <<>>
  <2>1. FMP!ReleaseWriteLock(c, f)
    BY <1>4, ReleaseSame DEF StoreReleases
  <2>2. f \notin fileLocks => sessions[f][c] = "none"
    BY <1>2 DEF IInv, FMP!IInv, FMP!TableInv, FMP!NewLocksAreFree
  <2>3. sessions \in [Files -> [Clients -> FMP!Sessions]]
    BY DEF IInv, FMP!IInv, FMP!Types
  <2>4. \A g \in Files, d \in Clients :
          sessions'[g][d] = IF g = f /\ d = c THEN "none" ELSE sessions[g][d]
    BY <1>2, <2>1, <2>2, <2>3 DEF FMP!ReleaseWriteLock, FMP!SetSession
  <2>5. \A g \in Files, d \in Clients : Holds(t, d, g) => g = f /\ d = c
    BY DEF Holds
  <2>. QED
    BY <1>1, <2>4, <2>5, HoldKept
<1>. QED
  BY <1>3, <1>4

LEMMA ProceedsHolds ==
  ASSUME OnlyUploads, IInv, HoldInv, NEW t \in Threads,
         Proceeds(t) \/ Finishes(t) \/ Vanishes(t)
  PROVE  HoldInv'
<1>. DEFINE c == ClientOf[t]
<1>8. UNCHANGED operations
  BY DEF Proceeds, Finishes, Vanishes, StoreOpens, StoreChunk, StoreReleases, StoreCounts,
         StorePublishes, FetchOpens, FetchChunk, FetchBreaks, Removes, RemoveReleases,
         RemovePublishes
<1>1. /\ KeepsOthers(t) /\ BeginsNoOther(t)
      /\ step \in [Threads -> Steps] /\ InStep(t) /\ UNCHANGED operations
  BY <1>8, StepOfGood, BeginsOne DEF StepOf, IInv, OwnTypes, Good
<1>2. CASE StoreOpens(t)
  <2>1. step[t] = "locked" /\ UNCHANGED <<op, moved, sessions>> /\ moved[t] = <<>>
    BY <1>1, <1>2 DEF StoreOpens, At, fmVars, InStep
  <2>2. step'[t] \in {"storing", "idle"}
    BY <1>1, <1>2 DEF StoreOpens, Goes, Returns
  <2>. QED
    BY <1>1, <2>1, <2>2, HoldKept DEF Holds
<1>3. CASE StoreChunk(t)
  <2>. DEFINE f == op[t].file
              i == Len(moved[t]) + 1
              v == op[t].local[i]
  <2>1. PICK written \in BOOLEAN :
          /\ FMP!WriteFile(c, f, i, v, written)
          /\ written => UNCHANGED step
    BY <1>3, WriteFileSame DEF StoreChunk
  <2>2. f \in Files /\ c \in Clients /\ UNCHANGED op /\ step[t] = "storing"
    BY <1>1, <1>3, ClientAssumption DEF StoreChunk, At, InStep, Operations
  <2>3. CASE written
    BY <1>1, <2>1, <2>2, <2>3, HoldKept DEF FMP!WriteFile, Holds
  <2>4. CASE ~written
    <3>1. sessions[f][c] # "writer" /\ UNCHANGED sessions
      BY <2>1, <2>4 DEF FMP!WriteFile, OnlyUploads
    <3>2. sessions[f][c] = "none"
      BY <2>2, <3>1 DEF HoldInv
    <3>. QED
      BY <1>1, <2>2, <3>1, <3>2, HoldKept DEF Holds
  <2>. QED
    BY <2>3, <2>4
<1>4. CASE StoreCounts(t) \/ StorePublishes(t)
  <2>1. /\ step[t] \in {"released", "counted"} /\ step'[t] \in {"counted", "idle"}
        /\ UNCHANGED <<op, moved, sessions>>
    BY <1>1, <1>4 DEF StoreCounts, StorePublishes, fmVars, Goes, Returns
  <2>. QED
    BY <1>1, <2>1, HoldKept DEF Holds
<1>5. ~FetchOpens(t) /\ ~FetchChunk(t) /\ ~FetchBreaks(t) /\ ~Removes(t)
  <2>1. step[t] # "idle" => op[t].kind = "store"
    BY <1>1 DEF InStep, Operations, OnlyUploads
  <2>. QED
    BY <2>1 DEF FetchOpens, FetchChunk, FetchBreaks, Removes, At, OnlyUploads
<1>6. CASE Finishes(t)
  <2>1. PICK d \in onDone : d.thread = t /\ (RemoveReleases(d) \/ RemovePublishes(d))
    BY <1>6 DEF Finishes
  <2>2. UNCHANGED <<step, op, moved>> /\ d.file \in Files
    BY <2>1 DEF RemoveReleases, RemovePublishes, IInv, OwnTypes, OnDones
  <2>3. \/ UNCHANGED sessions
        \/ sessions' = [sessions EXCEPT ![d.file][c] = "none"]
    BY <2>1, ReleaseSame
       DEF RemoveReleases, RemovePublishes, FMP!ReleaseWriteLock, FMP!SetSession, fmVars
  <2>4. sessions \in [Files -> [Clients -> FMP!Sessions]]
    BY DEF IInv, FMP!IInv, FMP!Types
  <2>5. \A g \in Files, e \in Clients :
          sessions'[g][e] = "none" \/ sessions'[g][e] = sessions[g][e]
    BY <2>2, <2>3, <2>4
  <2>6. \A g \in Files, e \in Clients : Holds(t, e, g) => Holds(t, e, g)'
    BY <1>1, <2>2 DEF Holds
  <2>. QED
    BY <1>1, <2>2, <2>5, <2>6, HoldKept
<1>7. CASE Vanishes(t)
  <2>1. UNCHANGED <<op, moved, sessions>>
    BY <1>7 DEF Vanishes, fmVars
  <2>2. step'[t] = IF step[t] = "locked" THEN "idle" ELSE step[t]
    BY <1>1, <1>7 DEF Vanishes
  <2>3. step[t] = "locked" => moved[t] = <<>>
    BY <1>1 DEF InStep
  <2>. QED
    BY <1>1, <2>1, <2>2, <2>3, HoldKept DEF Holds
<1>. QED
  BY <1>2, <1>3, <1>4, <1>5, <1>6, <1>7, ReleaseHolds DEF Proceeds

LEMMA HoldNext ==
  ASSUME OnlyUploads, IInv, HoldInv, [Next]_vars PROVE HoldInv'
<1>1. ASSUME NEW t \in Threads, StepOf(t) PROVE HoldInv'
  BY <1>1, BeginHolds, LockHolds, ProceedsHolds DEF StepOf
<1>2. CASE UNCHANGED <<fmVars, opVars>>
  BY <1>2 DEF HoldInv, Begun, Holds, fmVars, opVars
<1>. QED
  BY <1>1, <1>2, StepsOfTheSystem

(* A client that has no upload under way has no session, whenever clients  *)
(* are cut off: every upload releases what it has locked, except one of    *)
(* which no chunk came.                                                    *)
THEOREM UploadsLeaveNothing ==
  ASSUME OnlyUploads PROVE Spec => []IdleClientsHoldNothing
<1>1. Init => HoldInv
  BY DEF Init, FM!Init, HoldInv, Begun
<1>2. IInv /\ HoldInv /\ [Next]_vars => HoldInv'
  BY HoldNext
<1>3. HoldInv => IdleClientsHoldNothing
  BY DEF HoldInv, Holds, IdleClientsHoldNothing, LeavesLock
<1>. QED
  BY <1>1, <1>2, <1>3, Invariance, PTL DEF Spec
=============================================================================
