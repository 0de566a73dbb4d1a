----------------------------- MODULE WorkerPool -----------------------------
(***************************************************************************)
(* The pool of threads of the client                                       *)
(* (minidfs/src/application/core/worker_pool.cpp): a queue of tasks under  *)
(* a mutex, a condition variable the threads wait on, and a destructor     *)
(* that lets them finish the queue and waits for them.                     *)
(*                                                                         *)
(* What is done under the mutex is one step; the notifications come after  *)
(* it.  One thread, the owner, adds tasks and destroys the pool.           *)
(***************************************************************************)
EXTENDS Naturals, Sequences, FiniteSets, PoolConstants

VARIABLES
  queue,    \* task_queue
  stop,     \* stop_
  worker,   \* worker[w]: "ready" to look at the queue, "waiting", "gone", or its task
  owner,    \* "free", "notifying", "stopping", "joining" or "joined"
  outcome,  \* outcome[k]: "new", "added", "done" or "failed"
  crashed   \* std::terminate was called

vars == <<queue, stop, worker, owner, outcome, crashed>>

Running(w, k) == worker[w] = k /\ k \in Tasks
Waiting == {w \in Workers : worker[w] = "waiting"}
Goes(w, where) == worker' = [worker EXCEPT ![w] = where]

(* The threads have come to wait before the first task.                    *)
Init ==
  /\ queue = <<>>
  /\ stop = FALSE
  /\ worker = [w \in Workers |-> "waiting"]
  /\ owner = "free"
  /\ outcome = [k \in Tasks |-> "new"]
  /\ crashed = FALSE

-----------------------------------------------------------------------------
(* The owner.                                                              *)

Add(k) ==
  /\ owner = "free" /\ ~stop
  /\ outcome[k] = "new"
  /\ queue' = Append(queue, k)
  /\ outcome' = [outcome EXCEPT ![k] = "added"]
  /\ owner' = "notifying"
  /\ UNCHANGED <<stop, worker, crashed>>

NotifyOne ==
  /\ owner = "notifying"
  /\ IF Waiting = {} THEN UNCHANGED worker ELSE \E w \in Waiting : Goes(w, "ready")
  /\ owner' = "free"
  /\ UNCHANGED <<queue, stop, outcome, crashed>>

BeginShutdown ==
  /\ owner = "free" /\ ~stop
  /\ stop' = TRUE
  /\ owner' = "stopping"
  /\ UNCHANGED <<queue, worker, outcome, crashed>>

(* With a fault: one thread is notified.                                   *)
NotifyAllAsOne ==
  /\ owner = "stopping"
  /\ IF Waiting = {} THEN UNCHANGED worker ELSE \E w \in Waiting : Goes(w, "ready")
  /\ owner' = "joining"
  /\ UNCHANGED <<queue, stop, outcome, crashed>>

NotifyAll ==
  /\ owner = "stopping"
  /\ worker' = [w \in Workers |-> IF w \in Waiting THEN "ready" ELSE worker[w]]
  /\ owner' = "joining"
  /\ UNCHANGED <<queue, stop, outcome, crashed>>

Join ==
  /\ owner = "joining"
  /\ \A w \in Workers : worker[w] = "gone"
  /\ owner' = "joined"
  /\ UNCHANGED <<queue, stop, worker, outcome, crashed>>

-----------------------------------------------------------------------------
(* worker_thread.                                                          *)

Wait(w) ==
  /\ worker[w] = "ready"
  /\ queue = <<>> /\ ~stop
  /\ Goes(w, "waiting")
  /\ UNCHANGED <<queue, stop, owner, outcome, crashed>>

(* With a fault: a thread that sees stop_ does not look at the queue.      *)
LeaveAtOnce(w) ==
  /\ worker[w] = "ready"
  /\ stop
  /\ Goes(w, "gone")
  /\ UNCHANGED <<queue, stop, owner, outcome, crashed>>

Leave(w) ==
  /\ worker[w] = "ready"
  /\ queue = <<>> /\ stop
  /\ Goes(w, "gone")
  /\ UNCHANGED <<queue, stop, owner, outcome, crashed>>

(* With a fault: the task stays in the queue.                              *)
TakeWithoutPop(w) ==
  /\ worker[w] = "ready"
  /\ queue # <<>>
  /\ Goes(w, Head(queue))
  /\ UNCHANGED <<queue, stop, owner, outcome, crashed>>

Take(w) ==
  /\ worker[w] = "ready"
  /\ queue # <<>>
  /\ Goes(w, Head(queue))
  /\ queue' = Tail(queue)
  /\ UNCHANGED <<stop, owner, outcome, crashed>>

(* on_task and on_finish return, or one of them throws an exception that   *)
(* is caught and given to on_error.                                        *)
TaskReturns(w, k) ==
  /\ Running(w, k)
  /\ outcome' = [outcome EXCEPT ![k] = "done"]
  /\ Goes(w, "ready")
  /\ UNCHANGED <<queue, stop, owner, crashed>>

TaskThrows(w, k) ==
  /\ Running(w, k)
  /\ outcome' = [outcome EXCEPT ![k] = "failed"]
  /\ Goes(w, "ready")
  /\ UNCHANGED <<queue, stop, owner, crashed>>

(* Something that is no std::exception is thrown, or on_error throws.      *)
TaskKills(w, k) ==
  /\ Running(w, k)
  /\ crashed' = TRUE
  /\ UNCHANGED <<queue, stop, worker, owner, outcome>>

OwnerStep == NotifyOne \/ NotifyAll \/ Join
WorkerStep(w) == Wait(w) \/ Leave(w) \/ Take(w)

Next ==
  /\ ~crashed
  /\ \/ OwnerStep \/ BeginShutdown
     \/ \E k \in Tasks : Add(k)
     \/ \E w \in Workers :
          \/ WorkerStep(w)
          \/ \E k \in Tasks : TaskReturns(w, k) \/ TaskThrows(w, k) \/ TaskKills(w, k)

Spec == Init /\ [][Next]_vars

-----------------------------------------------------------------------------
(* Properties.                                                             *)

TypeOK ==
  /\ queue \in Seq(Tasks)
  /\ stop \in BOOLEAN
  /\ worker \in [Workers -> Tasks \cup {"ready", "waiting", "gone"}]
  /\ owner \in {"free", "notifying", "stopping", "joining", "joined"}
  /\ outcome \in [Tasks -> {"new", "added", "done", "failed"}]
  /\ crashed \in BOOLEAN

(* No thread sleeps while there is something for it to do that nobody will *)
(* wake it for: a task in the queue is seen by a thread that is awake, or  *)
(* is still to be notified; after the notification that ends the pool none *)
(* sleeps.                                                                 *)
NobodyOversleeps ==
  /\ queue # <<>> /\ Waiting # {} =>
       owner \in {"notifying", "stopping"} \/ \E w \in Workers : worker[w] \in Tasks \cup {"ready"}
  /\ owner \in {"joining", "joined"} => Waiting = {}

(* A task that was added is in the queue or with one thread until it has   *)
(* its outcome: it is neither lost nor run twice.                          *)
TasksAreKeptOnce ==
  \A k \in Tasks :
    Cardinality({i \in DOMAIN queue : queue[i] = k}) + Cardinality({w \in Workers : worker[w] = k})
      = IF outcome[k] = "added" THEN 1 ELSE 0
=============================================================================
