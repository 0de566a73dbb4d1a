-------------------------- MODULE WorkerPoolProofs --------------------------
(***************************************************************************)
(* The pool of threads keeps its types, wakes its threads, and runs every  *)
(* task once, for any numbers of threads and tasks.                        *)
(***************************************************************************)
EXTENDS WorkerPool, FiniteSetTheorems, SequenceTheorems, TLAPS

(* The owner is past its last task exactly when stop_ is set.              *)
Stopping == owner \in {"stopping", "joining", "joined"} <=> stop

IInv == TypeOK /\ Stopping /\ NobodyOversleeps

-----------------------------------------------------------------------------

LEMMA InitHolds == Init => IInv
<1> SUFFICES ASSUME Init PROVE IInv
  OBVIOUS
<1>1. TypeOK
  <2>1. queue \in Seq(Tasks)
    BY DEF Init
  <2> QED
    BY <2>1 DEF Init, TypeOK
<1>2. Stopping /\ NobodyOversleeps
  BY DEF Init, Stopping, NobodyOversleeps
<1> QED
  BY <1>1, <1>2 DEF IInv

(* One step of one thread: only its own place changes.                     *)
LEMMA GoesElsewhere ==
  ASSUME TypeOK, NEW w \in Workers, NEW where \in Tasks \cup {"ready", "waiting", "gone"},
         Goes(w, where)
  PROVE  /\ worker' \in [Workers -> Tasks \cup {"ready", "waiting", "gone"}]
         /\ worker'[w] = where
         /\ \A v \in Workers \ {w} : worker'[v] = worker[v]
BY DEF Goes, TypeOK

LEMMA AddHolds == ASSUME IInv, NEW k \in Tasks, Add(k) PROVE IInv'
BY DEF IInv, TypeOK, Stopping, NobodyOversleeps, Waiting, Add

LEMMA NotifyOneHolds == ASSUME IInv, NotifyOne PROVE IInv'
<1>1. CASE Waiting = {}
  BY <1>1 DEF IInv, TypeOK, Stopping, NobodyOversleeps, Waiting, NotifyOne
<1>2. CASE Waiting # {}
  <2>1. PICK w \in Waiting : Goes(w, "ready")
    BY <1>2 DEF NotifyOne
  <2>2. w \in Workers
    BY DEF Waiting
  <2>3. /\ worker' \in [Workers -> Tasks \cup {"ready", "waiting", "gone"}]
        /\ worker'[w] = "ready"
    BY <2>1, <2>2, GoesElsewhere DEF IInv
  <2> QED
    BY <2>2, <2>3 DEF IInv, TypeOK, Stopping, NobodyOversleeps, NotifyOne
<1> QED
  BY <1>1, <1>2

LEMMA BeginShutdownHolds == ASSUME IInv, BeginShutdown PROVE IInv'
BY DEF IInv, TypeOK, Stopping, NobodyOversleeps, Waiting, BeginShutdown

LEMMA NotifyAllHolds == ASSUME IInv, NotifyAll PROVE IInv'
<1>1. TypeOK' /\ Stopping'
  BY DEF IInv, TypeOK, Stopping, NotifyAll, Waiting
<1>2. Waiting' = {}
  BY DEF IInv, TypeOK, NotifyAll, Waiting
<1> QED
  BY <1>1, <1>2 DEF IInv, NobodyOversleeps

LEMMA JoinHolds == ASSUME IInv, Join PROVE IInv'
BY DEF IInv, TypeOK, Stopping, NobodyOversleeps, Waiting, Join

(* A thread waits only with nothing in the queue and no end in sight.      *)
LEMMA WaitHolds == ASSUME IInv, NEW w \in Workers, Wait(w) PROVE IInv'
<1>1. worker' \in [Workers -> Tasks \cup {"ready", "waiting", "gone"}]
  BY GoesElsewhere DEF Wait, IInv
<1> QED
  BY <1>1 DEF IInv, TypeOK, Stopping, NobodyOversleeps, Wait

LEMMA LeaveHolds == ASSUME IInv, NEW w \in Workers, Leave(w) PROVE IInv'
<1>1. /\ worker' \in [Workers -> Tasks \cup {"ready", "waiting", "gone"}]
      /\ worker'[w] = "gone"
      /\ \A v \in Workers \ {w} : worker'[v] = worker[v]
  BY GoesElsewhere DEF Leave, IInv
<1>2. Waiting' \subseteq Waiting
  BY <1>1 DEF Waiting
<1> QED
  BY <1>1, <1>2 DEF IInv, TypeOK, Stopping, NobodyOversleeps, Leave

(* A thread that is awake and goes on with something.                      *)
LEMMA AwakeHolds ==
  ASSUME IInv, NEW w \in Workers, NEW where \in Tasks \cup {"ready"}, Goes(w, where),
         queue' \in Seq(Tasks), outcome' \in [Tasks -> {"new", "added", "done", "failed"}],
         UNCHANGED <<stop, owner, crashed>>
  PROVE  IInv'
<1>1. /\ worker' \in [Workers -> Tasks \cup {"ready", "waiting", "gone"}]
      /\ worker'[w] \in Tasks \cup {"ready"}
      /\ \A v \in Workers \ {w} : worker'[v] = worker[v]
  BY GoesElsewhere DEF IInv
<1>2. Waiting' \subseteq Waiting
  BY <1>1, PoolAssumption DEF Waiting
<1> QED
  BY <1>1, <1>2 DEF IInv, TypeOK, Stopping, NobodyOversleeps

LEMMA TakeHolds == ASSUME IInv, NEW w \in Workers, Take(w) PROVE IInv'
<1>1. Head(queue) \in Tasks /\ Tail(queue) \in Seq(Tasks)
  BY DEF Take, IInv, TypeOK
<1> QED
  BY <1>1, AwakeHolds DEF Take, IInv, TypeOK

LEMMA TaskHolds ==
  ASSUME IInv, NEW w \in Workers, NEW k \in Tasks,
         TaskReturns(w, k) \/ TaskThrows(w, k) \/ TaskKills(w, k)
  PROVE  IInv'
<1>1. CASE TaskReturns(w, k)
  BY <1>1, AwakeHolds DEF TaskReturns, IInv, TypeOK
<1>2. CASE TaskThrows(w, k)
  BY <1>2, AwakeHolds DEF TaskThrows, IInv, TypeOK
<1>3. CASE TaskKills(w, k)
  BY <1>3 DEF TaskKills, IInv, TypeOK, Stopping, NobodyOversleeps, Waiting
<1> QED
  BY <1>1, <1>2, <1>3

LEMMA StepHolds == IInv /\ [Next]_vars => IInv'
<1> SUFFICES ASSUME IInv, [Next]_vars PROVE IInv'
  OBVIOUS
<1>1. CASE UNCHANGED vars
  BY <1>1 DEF vars, IInv, TypeOK, Stopping, NobodyOversleeps, Waiting
<1>2. CASE OwnerStep
  BY <1>2, NotifyOneHolds, NotifyAllHolds, JoinHolds DEF OwnerStep
<1>3. CASE BeginShutdown
  BY <1>3, BeginShutdownHolds
<1>4. ASSUME NEW k \in Tasks, Add(k) PROVE IInv'
  BY <1>4, AddHolds
<1>5. ASSUME NEW w \in Workers, WorkerStep(w) PROVE IInv'
  BY <1>5, WaitHolds, LeaveHolds, TakeHolds DEF WorkerStep
<1>6. ASSUME NEW w \in Workers, NEW k \in Tasks,
             TaskReturns(w, k) \/ TaskThrows(w, k) \/ TaskKills(w, k)
      PROVE IInv'
  BY <1>6, TaskHolds
<1> QED
  BY <1>1, <1>2, <1>3, <1>4, <1>5, <1>6 DEF Next

(* The inductive invariant holds in every reachable state.                 *)
THEOREM Invariance == Spec => []IInv
BY InitHolds, StepHolds, PTL DEF Spec

(* Every variable of the pool keeps its type: what a thread takes from the *)
(* queue is a task that was added.                                         *)
THEOREM TypeCorrectness == Spec => []TypeOK
<1>1. IInv => TypeOK
  BY DEF IInv
<1> QED
  BY <1>1, Invariance, PTL

(* However many threads and tasks there are, no thread sleeps through a    *)
(* task or the end of the pool, though add notifies only one, after it has *)
(* given the mutex up.                                                     *)
THEOREM Wakefulness == Spec => []NobodyOversleeps
<1>1. IInv => NobodyOversleeps
  BY DEF IInv
<1> QED
  BY <1>1, Invariance, PTL
-----------------------------------------------------------------------------
(* Where a task is.                                                        *)

InQueue(k) == \E i \in DOMAIN queue : queue[i] = k
Runs(k) == \E w \in Workers : worker[w] = k

(* A task has one place: in the queue, once, or with one thread; it has    *)
(* none before it is added and none after its outcome.                     *)
QueuedOnce == \A i, j \in DOMAIN queue : queue[i] = queue[j] => i = j
RunByOne == \A v, w \in Workers : worker[v] = worker[w] /\ Running(v, worker[v]) => v = w
QueuedOrRun == \A i \in DOMAIN queue : \A w \in Workers : worker[w] # queue[i]
PlacesAreAdded == \A k \in Tasks : outcome[k] = "added" <=> InQueue(k) \/ Runs(k)
Places == QueuedOnce /\ RunByOne /\ QueuedOrRun /\ PlacesAreAdded

LEMMA PlacesInit == Init => Places
BY PoolAssumption DEF Init, Places, QueuedOnce, RunByOne, QueuedOrRun, PlacesAreAdded,
                      InQueue, Runs, Running

LEMMA AddKeepsPlaces == ASSUME TypeOK, Places, NEW k \in Tasks, Add(k) PROVE Places'
<1>1. /\ DOMAIN queue = 1..Len(queue) /\ DOMAIN queue' = 1..(Len(queue) + 1)
      /\ Len(queue) \in Nat
      /\ \A i \in 1..Len(queue) : queue'[i] = queue[i]
      /\ queue'[Len(queue) + 1] = k
  BY AppendProperties, LenProperties DEF Add, TypeOK
<1>2. ~InQueue(k) /\ ~Runs(k)
  BY DEF Add, Places, PlacesAreAdded
<1>3. worker' = worker
  BY DEF Add
<1>4. QueuedOnce' /\ RunByOne' /\ QueuedOrRun'
  BY <1>1, <1>2, <1>3 DEF Places, QueuedOnce, RunByOne, QueuedOrRun, InQueue, Runs, Running
<1>5. PlacesAreAdded'
  <2>1. outcome' = [outcome EXCEPT ![k] = "added"]
    BY DEF Add
  <2>2. ASSUME NEW j \in Tasks PROVE InQueue(j)' <=> InQueue(j) \/ j = k
    BY <1>1 DEF InQueue
  <2>3. ASSUME NEW j \in Tasks PROVE Runs(j)' <=> Runs(j)
    BY <1>3 DEF Runs
  <2> QED
    BY <2>1, <2>2, <2>3 DEF TypeOK, Places, PlacesAreAdded
<1> QED
  BY <1>4, <1>5 DEF Places

LEMMA TakeKeepsPlaces == ASSUME TypeOK, Places, NEW w \in Workers, Take(w) PROVE Places'
<1> DEFINE k == Head(queue)
<1>1. /\ DOMAIN queue = 1..Len(queue) /\ DOMAIN queue' = 1..(Len(queue) - 1)
      /\ Len(queue) \in Nat \ {0}
      /\ \A i \in 1..(Len(queue) - 1) : queue'[i] = queue[i + 1]
      /\ k = queue[1] /\ k \in Tasks
  BY HeadTailProperties, LenProperties, EmptySeq DEF Take, TypeOK
<1>2. /\ worker'[w] = k
      /\ \A v \in Workers \ {w} : worker'[v] = worker[v]
  BY <1>1, GoesElsewhere DEF Take
<1>3. worker[w] \notin Tasks
  BY PoolAssumption DEF Take
<1>4. QueuedOnce' /\ QueuedOrRun'
  <2>1. \A i \in DOMAIN queue' : i + 1 \in DOMAIN queue /\ queue'[i] = queue[i + 1] /\ i + 1 # 1
    BY <1>1
  <2>2. QueuedOnce'
    BY <1>1, <2>1 DEF Places, QueuedOnce
  <2>3. QueuedOrRun'
    BY <1>1, <1>2, <2>1 DEF Places, QueuedOnce, QueuedOrRun
  <2> QED
    BY <2>2, <2>3
<1>5. RunByOne'
  BY <1>1, <1>2 DEF Places, RunByOne, QueuedOrRun, Running
<1>6. PlacesAreAdded'
  <2>1. outcome' = outcome
    BY DEF Take
  <2>2. ASSUME NEW j \in Tasks PROVE InQueue(j) <=> InQueue(j)' \/ j = k
    <3>1. ASSUME NEW i \in 1..Len(queue), queue[i] = j, j # k PROVE InQueue(j)'
      <4>1. i - 1 \in 1..(Len(queue) - 1) /\ queue'[i - 1] = j
        BY <1>1, <3>1
      <4> QED
        BY <4>1, <1>1 DEF InQueue
    <3>2. ASSUME NEW i \in 1..(Len(queue) - 1), queue'[i] = j PROVE InQueue(j)
      <4>1. i + 1 \in 1..Len(queue) /\ queue[i + 1] = j
        BY <1>1, <3>2
      <4> QED
        BY <4>1, <1>1 DEF InQueue
    <3>3. InQueue(k)
      BY <1>1 DEF InQueue
    <3> QED
      BY <1>1, <3>1, <3>2, <3>3 DEF InQueue
  <2>3. ASSUME NEW j \in Tasks PROVE Runs(j)' <=> Runs(j) \/ j = k
    BY <1>2, <1>3 DEF Runs
  <2> QED
    BY <2>1, <2>2, <2>3 DEF Places, PlacesAreAdded
<1> QED
  BY <1>4, <1>5, <1>6 DEF Places

(* A thread that goes from one state without a task to another.            *)
LEMMA IdleKeepsPlaces ==
  ASSUME Places, worker' \in [Workers -> Tasks \cup {"ready", "waiting", "gone"}],
         \A w \in Workers : worker'[w] # worker[w] =>
           worker[w] \notin Tasks /\ worker'[w] \notin Tasks,
         TypeOK, queue' = queue, outcome' = outcome
  PROVE  Places'
<1>1. \A i \in DOMAIN queue : queue[i] \in Tasks
  BY LenProperties, ElementOfSeq DEF TypeOK
<1>2. \A j \in Tasks : (InQueue(j)' <=> InQueue(j)) /\ (Runs(j)' <=> Runs(j))
  BY DEF InQueue, Runs
<1> QED
  BY <1>1, <1>2 DEF Places, QueuedOnce, RunByOne, QueuedOrRun, PlacesAreAdded, Running

LEMMA TaskKeepsPlaces ==
  ASSUME TypeOK, Places, NEW w \in Workers, NEW k \in Tasks,
         TaskReturns(w, k) \/ TaskThrows(w, k)
  PROVE  Places'
<1>1. /\ worker[w] = k /\ worker'[w] = "ready" /\ worker'[w] \notin Tasks
      /\ \A v \in Workers \ {w} : worker'[v] = worker[v]
      /\ queue' = queue
  BY PoolAssumption, GoesElsewhere DEF TaskReturns, TaskThrows, Running
<1>2. \A i \in DOMAIN queue : queue[i] \in Tasks
  BY LenProperties, ElementOfSeq DEF TypeOK
<1>3. QueuedOnce' /\ RunByOne' /\ QueuedOrRun'
  BY <1>1, <1>2 DEF Places, QueuedOnce, RunByOne, QueuedOrRun, Running
<1>4. PlacesAreAdded'
  <2>1. /\ outcome'[k] # "added"
        /\ \A j \in Tasks \ {k} : outcome'[j] = outcome[j]
    BY DEF TaskReturns, TaskThrows, TypeOK
  <2>2. ASSUME NEW j \in Tasks PROVE InQueue(j)' <=> InQueue(j)
    BY <1>1 DEF InQueue
  <2>3. ASSUME NEW j \in Tasks \ {k} PROVE Runs(j)' <=> Runs(j)
    BY <1>1 DEF Runs
  <2>4. ~InQueue(k) /\ ~Runs(k)'
    <3>1. ~InQueue(k)
      BY <1>1 DEF Places, QueuedOrRun, InQueue
    <3>2. ~Runs(k)'
      BY <1>1 DEF Places, RunByOne, Running, Runs
    <3> QED
      BY <3>1, <3>2
  <2> QED
    BY <2>1, <2>2, <2>3, <2>4 DEF Places, PlacesAreAdded
<1> QED
  BY <1>3, <1>4 DEF Places

LEMMA PlacesStep == TypeOK /\ TypeOK' /\ Places /\ [Next]_vars => Places'
<1> SUFFICES ASSUME TypeOK, TypeOK', Places, [Next]_vars PROVE Places'
  OBVIOUS
<1>1. CASE /\ queue' = queue /\ outcome' = outcome
           /\ \A w \in Workers : worker'[w] # worker[w] =>
                worker[w] \notin Tasks /\ worker'[w] \notin Tasks
  BY <1>1, IdleKeepsPlaces DEF TypeOK
<1>2. CASE UNCHANGED vars
  BY <1>2, <1>1 DEF vars
<1>3. CASE OwnerStep
  <2>1. CASE NotifyOne
    BY <2>1, <1>1, PoolAssumption DEF NotifyOne, Waiting, Goes, TypeOK
  <2>2. CASE NotifyAll
    BY <2>2, <1>1, PoolAssumption DEF NotifyAll, Waiting, TypeOK
  <2>3. CASE Join
    BY <2>3, <1>1 DEF Join
  <2> QED
    BY <1>3, <2>1, <2>2, <2>3 DEF OwnerStep
<1>4. CASE BeginShutdown
  BY <1>4, <1>1 DEF BeginShutdown
<1>5. ASSUME NEW k \in Tasks, Add(k) PROVE Places'
  BY <1>5, AddKeepsPlaces
<1>6. ASSUME NEW w \in Workers, WorkerStep(w) PROVE Places'
  <2>1. CASE Wait(w)
    BY <2>1, <1>1, PoolAssumption DEF Wait, Goes, TypeOK
  <2>2. CASE Leave(w)
    BY <2>2, <1>1, PoolAssumption DEF Leave, Goes, TypeOK
  <2>3. CASE Take(w)
    BY <2>3, TakeKeepsPlaces
  <2> QED
    BY <1>6, <2>1, <2>2, <2>3 DEF WorkerStep
<1>7. ASSUME NEW w \in Workers, NEW k \in Tasks,
             TaskReturns(w, k) \/ TaskThrows(w, k) \/ TaskKills(w, k)
      PROVE Places'
  <2>1. CASE TaskKills(w, k)
    BY <2>1, <1>1 DEF TaskKills
  <2> QED
    BY <1>7, <2>1, TaskKeepsPlaces
<1> QED
  BY <1>2, <1>3, <1>4, <1>5, <1>6, <1>7 DEF Next

(* A set of at most one element.                                           *)
LEMMA AtMostOne ==
  ASSUME NEW S, \A x, y \in S : x = y
  PROVE  Cardinality(S) = IF S = {} THEN 0 ELSE 1
<1>1. CASE S = {}
  BY <1>1, FS_EmptySet
<1>2. CASE S # {}
  <2>1. PICK x \in S : TRUE
    BY <1>2
  <2>2. S = {x}
    BY <2>1
  <2> QED
    BY <1>2, <2>2, FS_Singleton
<1> QED
  BY <1>1, <1>2

LEMMA PlacesAreOnce == TypeOK /\ Places => TasksAreKeptOnce
<1> SUFFICES ASSUME TypeOK, Places, NEW k \in Tasks
             PROVE  Cardinality({i \in DOMAIN queue : queue[i] = k})
                      + Cardinality({w \in Workers : worker[w] = k})
                    = IF outcome[k] = "added" THEN 1 ELSE 0
  BY DEF TasksAreKeptOnce
<1> DEFINE I == {i \in DOMAIN queue : queue[i] = k}
           W == {w \in Workers : worker[w] = k}
<1>1. Cardinality(I) = IF I = {} THEN 0 ELSE 1
  BY AtMostOne DEF Places, QueuedOnce
<1>2. \A v, w \in W : v = w
  BY DEF Places, RunByOne, Running
<1>3. Cardinality(W) = IF W = {} THEN 0 ELSE 1
  <2> HIDE DEF W
  <2> QED
    BY <1>2, AtMostOne
<1>4. /\ I # {} <=> InQueue(k)
      /\ W # {} <=> Runs(k)
      /\ ~(InQueue(k) /\ Runs(k))
  BY DEF InQueue, Runs, Places, QueuedOrRun
<1>5. outcome[k] = "added" <=> InQueue(k) \/ Runs(k)
  BY DEF Places, PlacesAreAdded
<1> HIDE DEF I, W
<1>6. Cardinality(I) + Cardinality(W) = IF outcome[k] = "added" THEN 1 ELSE 0
  BY <1>1, <1>3, <1>4, <1>5
<1> QED
  BY <1>6 DEF I, W

(* However many threads take from the queue, a task that was added is in   *)
(* it once, or with one thread, until it has its outcome.                  *)
THEOREM TasksAreRunOnce == Spec => []TasksAreKeptOnce
<1>1. Init => TypeOK /\ Places
  BY InitHolds, PlacesInit DEF IInv
<1>2. TypeOK /\ TypeOK' /\ Places /\ [Next]_vars => Places'
  BY PlacesStep
<1> QED
  BY <1>1, <1>2, TypeCorrectness, PlacesAreOnce, PTL DEF Spec
=============================================================================
