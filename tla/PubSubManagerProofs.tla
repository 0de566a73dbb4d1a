------------------------ MODULE PubSubManagerProofs ------------------------
(***************************************************************************)
(* Proofs about the registry and its reactors, for any number of clients   *)
(* and streams and any number of changes.                                  *)
(***************************************************************************)
EXTENDS PubSubManager, SequenceTheorems, TLAPS

(* A reactor that was never registered has been given nothing to write.    *)
NothingBeforeSubscribing ==
  \A r \in Reactors : stage[r] \in {"unused", "subscribing"} => queue[r] = <<>>

(* The updates of one stream, from the one the client has to the version   *)
(* of the moment.                                                          *)
Ordered(r) ==
  /\ seen[r] <= version
  /\ \A i \in 1..Len(queue[r]) : seen[r] <= queue[r][i] /\ queue[r][i] <= version
  /\ \A i, j \in 1..Len(queue[r]) : i < j => queue[r][i] <= queue[r][j]

(* None of the properties is inductive.  Publish may call what is          *)
(* registered because a reactor is deleted only when no client's entry is  *)
(* it, which is so as an entry is a stream of its own client; an opened    *)
(* stream starts with nothing queued; and an update goes behind the others *)
(* because none of them is ahead of version_.                              *)
IInv ==
  /\ TypeOK
  /\ NoDanglingReactor
  /\ NothingBeforeSubscribing
  /\ QueueIsBeingWritten
  /\ \A r \in Reactors : Ordered(r)

-----------------------------------------------------------------------------
(* What the queues hold.                                                   *)

(* The versions of a stream are in order when they are behind version_.    *)
LEMMA OrderedVersions ==
  ASSUME TypeOK, \A r \in Reactors : Ordered(r)
  PROVE  VersionsInOrder
<1>. SUFFICES ASSUME NEW r \in Reactors,
                     NEW i \in 1..Len(<<seen[r]>> \o queue[r]),
                     NEW j \in 1..Len(<<seen[r]>> \o queue[r]), i < j
              PROVE  (<<seen[r]>> \o queue[r])[i] <= (<<seen[r]>> \o queue[r])[j]
  BY DEF VersionsInOrder
<1>1. queue[r] \in Seq(0..MaxChanges) /\ seen[r] \in 0..MaxChanges
  BY DEF TypeOK
<1>2. /\ Len(<<seen[r]>> \o queue[r]) = 1 + Len(queue[r])
      /\ (<<seen[r]>> \o queue[r])[1] = seen[r]
      /\ \A k \in 2..(1 + Len(queue[r])) :
           (<<seen[r]>> \o queue[r])[k] = queue[r][k - 1]
  BY <1>1
<1>3. (<<seen[r]>> \o queue[r])[j] = queue[r][j - 1] /\ j - 1 \in 1..Len(queue[r])
  BY <1>1, <1>2
<1>4. CASE i = 1
  BY <1>2, <1>3, <1>4 DEF Ordered
<1>5. CASE i # 1
  <2>1. (<<seen[r]>> \o queue[r])[i] = queue[r][i - 1] /\ i - 1 \in 1..Len(queue[r])
    BY <1>1, <1>2, <1>5
  <2>2. i - 1 < j - 1
    BY <1>1
  <2>. QED
    BY <1>3, <2>1, <2>2 DEF Ordered
<1>. QED
  BY <1>4, <1>5

(* Only stages change, and maybe the registry, and no stream is opened     *)
(* but one that had nothing queued: the others stay or end.                *)
LEMMA StageMoves ==
  ASSUME IInv, stage' \in [Reactors -> Stages],
         UNCHANGED <<version, published, owner, queue, writing, seen>>, aborted' \in BOOLEAN,
         \A r \in Reactors :
           \/ stage'[r] = stage[r]
           \/ stage[r] \in {"unused", "subscribing"}
           \/ stage'[r] \in {"cancelled", "unsubscribing"},
         registry' \in [Clients -> Reactors \cup {NoReactor}],
         NoDanglingReactor'
  PROVE  IInv'
<1>1. TypeOK'
  BY DEF IInv, TypeOK
<1>2. NothingBeforeSubscribing' /\ QueueIsBeingWritten'
  BY DEF IInv, NothingBeforeSubscribing, QueueIsBeingWritten
<1>3. \A r \in Reactors : Ordered(r)'
  BY DEF IInv, Ordered
<1>. QED
  BY <1>1, <1>2, <1>3 DEF IInv

-----------------------------------------------------------------------------
(* Each operation keeps the invariant.                                     *)

LEMMA SubscribeTestsInv ==
  ASSUME IInv, NEW r \in Reactors, SubscribeTests(r) PROVE IInv'
<1>1. stage' \in [Reactors -> Stages] /\ \A s \in Reactors \ {r} : stage'[s] = stage[s]
  BY DEF IInv, TypeOK, SubscribeTests, Stages
<1>2. NoDanglingReactor'
  BY <1>1 DEF IInv, NoDanglingReactor, TypeOK, SubscribeTests
<1>. QED
  BY <1>1, <1>2, StageMoves DEF SubscribeTests, IInv, TypeOK

(* The reactor takes the entry of its own client and is open from then on. *)
LEMMA SubscribeInsertsInv ==
  ASSUME IInv, NEW r \in Reactors, SubscribeInserts(r) PROVE IInv'
<1>1. /\ stage' \in [Reactors -> Stages] /\ stage'[r] = "open"
      /\ \A s \in Reactors \ {r} : stage'[s] = stage[s]
  BY DEF IInv, TypeOK, SubscribeInserts, Stages
<1>2. /\ registry' \in [Clients -> Reactors \cup {NoReactor}]
      /\ owner[r] \in Clients
      /\ \A c \in Clients : registry'[c] = IF c = owner[r] THEN r ELSE registry[c]
  BY DEF IInv, TypeOK, SubscribeInserts
<1>3. NoDanglingReactor'
  BY <1>1, <1>2 DEF IInv, NoDanglingReactor, TypeOK, SubscribeInserts
<1>. QED
  BY <1>1, <1>2, <1>3, StageMoves DEF SubscribeInserts, IInv, TypeOK

(* OnCancel: the stream ends, whatever is queued on it.                    *)
LEMMA CancelledInv ==
  ASSUME IInv, NEW r \in Reactors, Cancelled(r) PROVE IInv'
<1>1. /\ stage' \in [Reactors -> Stages] /\ stage'[r] = "cancelled"
      /\ \A s \in Reactors \ {r} : stage'[s] = stage[s]
      /\ aborted' \in BOOLEAN
  BY DEF IInv, TypeOK, Cancelled, Stages, Finished
<1>2. NoDanglingReactor'
  BY <1>1 DEF IInv, NoDanglingReactor, TypeOK, Cancelled, Finished
<1>. QED
  BY <1>1, <1>2, StageMoves DEF Cancelled, IInv, TypeOK

(* A reactor is deleted when no client's entry is it.                      *)
LEMMA DeleteInv ==
  ASSUME IInv, NEW r \in Reactors, Delete(r),
         registry' \in [Clients -> Reactors \cup {NoReactor}],
         \A c \in Clients : registry'[c] \in {registry[c], NoReactor} \ {r},
         UNCHANGED <<version, published, owner, seen, aborted>>
  PROVE  IInv'
<1>1. /\ stage' \in [Reactors -> Stages] /\ stage'[r] = "deleted"
      /\ \A s \in Reactors \ {r} : stage'[s] = stage[s]
  BY DEF IInv, TypeOK, Delete, Stages
<1>2. /\ queue' \in [Reactors -> Seq(0..MaxChanges)] /\ queue'[r] = <<>>
      /\ \A s \in Reactors \ {r} : queue'[s] = queue[s]
  <2>1. <<>> \in Seq(0..MaxChanges)
    OBVIOUS
  <2>. QED
    BY <2>1 DEF IInv, TypeOK, Delete
<1>3. /\ writing' \in [Reactors -> BOOLEAN] /\ writing'[r] = FALSE
      /\ \A s \in Reactors \ {r} : writing'[s] = writing[s]
  BY DEF IInv, TypeOK, Delete
<1>4. TypeOK'
  BY <1>1, <1>2, <1>3 DEF IInv, TypeOK
<1>5. NoDanglingReactor'
  BY <1>1 DEF IInv, NoDanglingReactor, TypeOK
<1>6. NothingBeforeSubscribing' /\ QueueIsBeingWritten'
  BY <1>1, <1>2, <1>3 DEF IInv, NothingBeforeSubscribing, QueueIsBeingWritten
<1>7. ASSUME NEW s \in Reactors PROVE Ordered(s)'
  <2>1. CASE s = r
    BY <1>2, <2>1 DEF IInv, Ordered
  <2>2. CASE s # r
    BY <1>2, <2>2 DEF IInv, Ordered
  <2>. QED
    BY <2>1, <2>2
<1>. QED
  BY <1>4, <1>5, <1>6, <1>7 DEF IInv

(* Unsubscribe finds no entry of the client, and so none that is the       *)
(* reactor; or it will erase the one it finds.                             *)
LEMMA UnsubscribeTestsInv ==
  ASSUME IInv, NEW r \in Reactors, UnsubscribeTests(r) PROVE IInv'
<1>1. CASE registry[owner[r]] = NoReactor
  <2>1. \A c \in Clients : registry[c] # r
    BY <1>1, NoReactorAssumption DEF IInv, NoDanglingReactor
  <2>. QED
    BY <1>1, <2>1, DeleteInv DEF UnsubscribeTests, IInv, TypeOK
<1>2. CASE registry[owner[r]] # NoReactor
  <2>1. /\ stage' \in [Reactors -> Stages] /\ stage'[r] = "unsubscribing"
        /\ \A s \in Reactors \ {r} : stage'[s] = stage[s]
    BY <1>2 DEF IInv, TypeOK, UnsubscribeTests, Stages
  <2>2. UNCHANGED <<registry, version, published, owner, queue, writing, seen, aborted>>
    BY <1>2 DEF UnsubscribeTests
  <2>3. NoDanglingReactor'
    <3>. SUFFICES ASSUME NEW c \in Clients, registry[c] # NoReactor
                  PROVE  /\ owner[registry[c]] = c
                         /\ stage'[registry[c]] \in {"open", "unsubscribing"} \cup Finished
      BY <2>2 DEF NoDanglingReactor
    <3>1. registry[c] \in Reactors
      BY DEF IInv, TypeOK
    <3>. QED
      BY <2>1, <3>1 DEF IInv, NoDanglingReactor
  <2>. QED
    BY <2>1, <2>2, <2>3, StageMoves DEF IInv, TypeOK
<1>. QED
  BY <1>1, <1>2

(* Unsubscribe erases the client's entry, whichever reactor that is, and   *)
(* with it the only one that can be the reactor it is called for.          *)
LEMMA UnsubscribeErasesInv ==
  ASSUME IInv, NEW r \in Reactors, UnsubscribeErases(r) PROVE IInv'
<1>1. owner[r] \in Clients /\ registry' = [registry EXCEPT ![owner[r]] = NoReactor]
  BY DEF IInv, TypeOK, UnsubscribeErases
<1>2. registry' \in [Clients -> Reactors \cup {NoReactor}]
  BY <1>1 DEF IInv, TypeOK
<1>3. \A c \in Clients : registry'[c] \in {registry[c], NoReactor} \ {r}
  BY <1>1, NoReactorAssumption DEF IInv, TypeOK, NoDanglingReactor
<1>. QED
  BY <1>2, <1>3, DeleteInv DEF UnsubscribeErases

(* version_ only goes up.                                                  *)
LEMMA IncrementVersionInv ==
  ASSUME IInv, IncrementVersion PROVE IInv'
<1>1. version \in Nat /\ version' \in 0..MaxChanges /\ version <= version'
  BY BoundsAssumption DEF IInv, TypeOK, IncrementVersion
<1>2. TypeOK' /\ NoDanglingReactor' /\ NothingBeforeSubscribing' /\ QueueIsBeingWritten'
  BY <1>1 DEF IInv, TypeOK, NoDanglingReactor, NothingBeforeSubscribing,
              QueueIsBeingWritten, IncrementVersion
<1>3. ASSUME NEW r \in Reactors PROVE Ordered(r)'
  <2>1. queue[r] \in Seq(0..MaxChanges) /\ seen[r] \in 0..MaxChanges
    BY DEF IInv, TypeOK
  <2>2. \A i \in 1..Len(queue[r]) : queue[r][i] \in 0..MaxChanges
    BY <2>1, ElementOfSeq
  <2>3. UNCHANGED <<queue, seen>> /\ Ordered(r)
    BY DEF IncrementVersion, IInv
  <2>. QED
    BY <1>1, <2>1, <2>2, <2>3, BoundsAssumption DEF Ordered
<1>. QED
  BY <1>2, <1>3 DEF IInv

(* NotifyUpdate puts the version of the moment behind what is queued on    *)
(* each reactor it is called for.                                          *)
LEMMA NotifyUpdateEffect ==
  ASSUME IInv, NEW notified, NotifyUpdate(notified)
  PROVE  /\ queue' \in [Reactors -> Seq(0..MaxChanges)]
         /\ writing' \in [Reactors -> BOOLEAN]
         /\ \A r \in Reactors \ notified : queue'[r] = queue[r] /\ writing'[r] = writing[r]
         /\ \A r \in Reactors \cap notified :
              /\ queue'[r] = Append(queue[r], version)
              /\ writing'[r] = (writing[r] \/ queue[r] = <<>>)
<1>1. \A r \in Reactors : queue[r] \in Seq(0..MaxChanges) /\ version \in 0..MaxChanges
  BY DEF IInv, TypeOK
<1>2. \A r \in Reactors : Append(queue[r], version) \in Seq(0..MaxChanges)
  BY <1>1
<1>3. queue' \in [Reactors -> Seq(0..MaxChanges)]
  BY <1>1, <1>2 DEF NotifyUpdate
<1>4. \A r \in Reactors : writing[r] \in BOOLEAN
  BY DEF IInv, TypeOK
<1>. QED
  BY <1>3, <1>4 DEF NotifyUpdate

LEMMA NotifiedInv ==
  ASSUME IInv, NEW notified \in SUBSET Registered, NotifyUpdate(notified),
         published' \in 0..MaxChanges,
         registry' \in [Clients -> Reactors \cup {NoReactor}],
         \A c \in Clients : registry'[c] \in {registry[c], NoReactor},
         UNCHANGED <<version, stage, owner, seen, aborted>>
  PROVE  IInv'
<1>1. \A r \in notified : r \in Reactors /\ stage[r] \in {"open", "unsubscribing"} \cup Finished
  BY DEF IInv, TypeOK, NoDanglingReactor, Registered
<1>2. TypeOK'
  BY NotifyUpdateEffect DEF IInv, TypeOK
<1>3. NoDanglingReactor'
  BY DEF IInv, NoDanglingReactor
<1>4. \A r \in Reactors : queue[r] \in Seq(0..MaxChanges) /\ seen[r] \in 0..MaxChanges
  BY DEF IInv, TypeOK
<1>5. NothingBeforeSubscribing'
  BY <1>1, NotifyUpdateEffect DEF IInv, NothingBeforeSubscribing, Finished
<1>6. \A r \in Reactors \cap notified : queue'[r] # <<>>
  BY <1>4, NotifyUpdateEffect
<1>7. QueueIsBeingWritten'
  <2>. SUFFICES ASSUME NEW r \in Reactors
                PROVE  /\ writing'[r] => queue'[r] # <<>>
                       /\ stage'[r] = "open" /\ queue'[r] # <<>> => writing'[r]
    BY DEF QueueIsBeingWritten
  <2>1. CASE r \in notified
    BY <1>6, <2>1, NotifyUpdateEffect DEF IInv, QueueIsBeingWritten
  <2>2. CASE r \notin notified
    BY <2>2, NotifyUpdateEffect DEF IInv, QueueIsBeingWritten
  <2>. QED
    BY <2>1, <2>2
<1>8. ASSUME NEW r \in Reactors PROVE Ordered(r)'
  <2>1. CASE r \in notified
    <3>1. /\ queue'[r] = Append(queue[r], version)
          /\ UNCHANGED <<version, seen>> /\ Ordered(r)
      BY <2>1, NotifyUpdateEffect DEF IInv
    <3>2. version \in Nat /\ Len(queue[r]) \in Nat
      BY <1>4, BoundsAssumption DEF IInv, TypeOK
    <3>3. /\ Len(queue'[r]) = Len(queue[r]) + 1
          /\ queue'[r][Len(queue[r]) + 1] = version
          /\ \A i \in 1..Len(queue[r]) : queue'[r][i] = queue[r][i]
      BY <1>4, <3>1
    <3>. QED
      BY <3>1, <3>2, <3>3 DEF Ordered
  <2>2. CASE r \notin notified
    BY <2>2, NotifyUpdateEffect DEF IInv, Ordered
  <2>. QED
    BY <2>1, <2>2
<1>. QED
  BY <1>2, <1>3, <1>5, <1>7, <1>8 DEF IInv

(* Publish calls registered reactors only, all of them or, when it erases  *)
(* an entry meanwhile, some.                                               *)
LEMMA PublishInv ==
  ASSUME IInv, NEW c \in Clients, Publish(c) PROVE IInv'
<1>. DEFINE others == Registered \ {registry[c]}
<1>1. PICK notified \in SUBSET others : NotifyUpdate(notified)
  BY DEF Publish
<1>2. /\ published' \in 0..MaxChanges
      /\ UNCHANGED <<version, stage, owner, seen, aborted>>
  BY BoundsAssumption DEF Publish, IInv, TypeOK
<1>3. /\ registry' \in [Clients -> Reactors \cup {NoReactor}]
      /\ \A d \in Clients : registry'[d] \in {registry[d], NoReactor}
  BY DEF Publish, IInv, TypeOK
<1>. QED
  BY <1>1, <1>2, <1>3, NotifiedInv

(* OnWriteDone(true) takes the oldest update from the queue.               *)
LEMMA WriteSucceedsInv ==
  ASSUME IInv, NEW r \in Reactors, WriteSucceeds(r) PROVE IInv'
<1>1. queue[r] \in Seq(0..MaxChanges) /\ queue[r] # <<>>
  BY DEF IInv, TypeOK, QueueIsBeingWritten, WriteSucceeds
<1>2. /\ Head(queue[r]) = queue[r][1] /\ Head(queue[r]) \in 0..MaxChanges
      /\ Tail(queue[r]) \in Seq(0..MaxChanges)
      /\ Len(queue[r]) \in Nat \ {0} /\ Len(Tail(queue[r])) = Len(queue[r]) - 1
      /\ \A i \in 1..(Len(queue[r]) - 1) : Tail(queue[r])[i] = queue[r][i + 1]
  <2>1. Len(queue[r]) \in Nat \ {0}
    BY <1>1, EmptySeq
  <2>2. Head(queue[r]) = queue[r][1]
    BY <1>1
  <2>. QED
    BY <1>1, <2>1, <2>2, HeadTailProperties
<1>3. /\ seen' = [seen EXCEPT ![r] = Head(queue[r])]
      /\ queue' = [queue EXCEPT ![r] = Tail(queue[r])]
      /\ writing' = [writing EXCEPT ![r] = Len(queue[r]) > 1]
      /\ UNCHANGED <<registry, version, published, stage, owner, aborted>>
  BY DEF WriteSucceeds
<1>4. TypeOK'
  BY <1>2, <1>3 DEF IInv, TypeOK
<1>5. /\ queue'[r] = Tail(queue[r]) /\ seen'[r] = queue[r][1]
      /\ writing'[r] = (Len(queue[r]) > 1)
      /\ \A s \in Reactors \ {r} :
           queue'[s] = queue[s] /\ seen'[s] = seen[s] /\ writing'[s] = writing[s]
  BY <1>2, <1>3 DEF IInv, TypeOK
<1>6. NoDanglingReactor' /\ NothingBeforeSubscribing'
  BY <1>3, <1>5 DEF IInv, NoDanglingReactor, NothingBeforeSubscribing, WriteSucceeds
<1>7. QueueIsBeingWritten'
  <2>1. \A q \in Seq(0..MaxChanges) : q # <<>> <=> Len(q) > 0
    BY EmptySeq
  <2>. DEFINE rest == Tail(queue[r])
  <2>2. rest # <<>> <=> Len(queue[r]) > 1
    <3>1. rest \in Seq(0..MaxChanges) /\ Len(rest) = Len(queue[r]) - 1
      BY <1>2
    <3>2. Len(queue[r]) \in Nat
      BY <1>2
    <3>. HIDE DEF rest
    <3>. QED
      BY <2>1, <3>1, <3>2
  <2>. QED
    BY <1>3, <1>5, <2>2 DEF IInv, QueueIsBeingWritten
<1>8. ASSUME NEW s \in Reactors PROVE Ordered(s)'
  <2>1. CASE s = r
    <3>1. Ordered(r)
      BY DEF IInv
    <3>2. \A i \in 1..Len(queue'[r]) : i + 1 \in 1..Len(queue[r]) /\ queue'[r][i] = queue[r][i + 1]
      BY <1>2, <1>5
    <3>3. \A i \in 1..Len(queue'[r]) : seen'[r] <= queue'[r][i] /\ queue'[r][i] <= version'
      <4>1. 1 \in 1..Len(queue[r])
        BY <1>2
      <4>2. \A i \in 1..Len(queue'[r]) : 1 < i + 1
        OBVIOUS
      <4>. QED
        BY <1>3, <1>5, <3>1, <3>2, <4>1, <4>2 DEF Ordered
    <3>4. \A i, j \in 1..Len(queue'[r]) : i < j => queue'[r][i] <= queue'[r][j]
      BY <3>1, <3>2 DEF Ordered
    <3>5. seen'[r] <= version'
      BY <1>2, <1>3, <1>5, <3>1 DEF Ordered
    <3>. QED
      BY <2>1, <3>3, <3>4, <3>5 DEF Ordered
  <2>2. CASE s # r
    BY <1>3, <1>5, <2>2 DEF IInv, Ordered
  <2>. QED
    BY <2>1, <2>2
<1>. QED
  BY <1>4, <1>6, <1>7, <1>8 DEF IInv

(* OnWriteDone(false): the reactor leaves its queue, but is not open.      *)
LEMMA WriteFailsInv ==
  ASSUME IInv, NEW r \in Reactors, WriteFails(r) PROVE IInv'
<1>1. /\ stage' \in [Reactors -> Stages] /\ stage'[r] = "failed"
      /\ \A s \in Reactors \ {r} : stage'[s] = stage[s]
      /\ writing' \in [Reactors -> BOOLEAN] /\ writing'[r] = FALSE
      /\ \A s \in Reactors \ {r} : writing'[s] = writing[s]
      /\ UNCHANGED <<registry, version, published, owner, queue, seen>>
      /\ aborted' \in BOOLEAN
  BY DEF IInv, TypeOK, WriteFails, Stages, Finished
<1>2. TypeOK'
  BY <1>1 DEF IInv, TypeOK
<1>3. NoDanglingReactor' /\ NothingBeforeSubscribing' /\ QueueIsBeingWritten'
  BY <1>1 DEF IInv, TypeOK, NoDanglingReactor, NothingBeforeSubscribing, QueueIsBeingWritten,
              WriteFails, Finished
<1>4. \A s \in Reactors : Ordered(s)'
  BY <1>1 DEF IInv, Ordered
<1>. QED
  BY <1>2, <1>3, <1>4 DEF IInv

-----------------------------------------------------------------------------
(* The theorems.                                                           *)

(* At the start nobody is subscribed.                                      *)
LEMMA InitInv == Init => IInv
<1>. SUFFICES ASSUME Init PROVE IInv
  OBVIOUS
<1>1. 0 \in 0..MaxChanges /\ <<>> \in Seq(0..MaxChanges)
  BY BoundsAssumption
<1>2. TypeOK
  BY <1>1 DEF Init, TypeOK, Stages
<1>3. NoDanglingReactor /\ NothingBeforeSubscribing /\ QueueIsBeingWritten
  BY DEF Init, NoDanglingReactor, NothingBeforeSubscribing, QueueIsBeingWritten
<1>4. \A r \in Reactors : Ordered(r)
  BY DEF Init, Ordered
<1>. QED
  BY <1>2, <1>3, <1>4 DEF IInv

(* What gRPC does with a reactor keeps the invariant.                      *)
LEMMA ReactorStepInv ==
  ASSUME IInv, NEW r \in Reactors, ReactorStep(r) PROVE IInv'
BY SubscribeTestsInv, SubscribeInsertsInv, UnsubscribeTestsInv, UnsubscribeErasesInv,
   WriteSucceedsInv, WriteFailsInv, CancelledInv DEF ReactorStep

LEMMA StutterInv == ASSUME IInv, UNCHANGED vars PROVE IInv'
BY DEF IInv, vars, TypeOK, NoDanglingReactor, NothingBeforeSubscribing,
       QueueIsBeingWritten, Ordered

(* Every step keeps the inductive invariant.                               *)
LEMMA NextInv == IInv /\ [Next]_vars => IInv'
BY StutterInv, IncrementVersionInv, PublishInv, ReactorStepInv DEF Next

(* The inductive invariant of the registry and its reactors.               *)
THEOREM Invariance == Spec => []IInv
BY InitInv, NextInv, PTL DEF Spec

(* The variables have their types.                                         *)
THEOREM TypeCorrectness == Spec => []TypeOK
<1>1. IInv => TypeOK
  BY DEF IInv
<1>. QED
  BY <1>1, Invariance, PTL

(* Publish never calls a deleted reactor, for any number of clients and    *)
(* streams, in whatever order Subscribe and Unsubscribe test and change    *)
(* the registry.                                                           *)
THEOREM RegisteredAreAlive == Spec => []NoDanglingReactor
<1>1. IInv => NoDanglingReactor
  BY DEF IInv
<1>. QED
  BY <1>1, Invariance, PTL

(* An open stream with updates to send is sending one, and OnWriteDone     *)
(* pops from a queue that holds something.                                 *)
THEOREM WritingGoesOn == Spec => []QueueIsBeingWritten
<1>1. IInv => QueueIsBeingWritten
  BY DEF IInv
<1>. QED
  BY <1>1, Invariance, PTL

(* The versions a client sees are in order.                                *)
THEOREM VersionsAreInOrder == Spec => []VersionsInOrder
<1>1. IInv => VersionsInOrder
  BY OrderedVersions DEF IInv
<1>. QED
  BY <1>1, Invariance, PTL
=============================================================================
