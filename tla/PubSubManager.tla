--------------------------- MODULE PubSubManager ---------------------------
(***************************************************************************)
(* Push notifications: minidfs/src/dfs/server/pubsub_manager.cpp and the   *)
(* reactors of MiniDFSImpl::FileUpdateCallback that it calls.              *)
(*                                                                         *)
(* A client that subscribes gets a reactor, the server's end of a stream.  *)
(* The registry maps client ids to reactors.  Publish walks it and has     *)
(* every reactor queue the update; a reactor has one write outstanding and *)
(* starts the next when that one is done.  gRPC calls a reactor back when  *)
(* a write is done, when the client is gone, and, once the reactor has     *)
(* finished and no write is outstanding, for the last time.                *)
(***************************************************************************)
EXTENDS Naturals, Sequences

CONSTANTS
  Clients,     \* client ids
  Reactors,    \* the streams clients open, each used once
  NoReactor,   \* the entry of a client that is not in the registry
  MaxChanges   \* bound: updates published, and versions counted

ASSUME BoundsAssumption == MaxChanges \in Nat
ASSUME NoReactorAssumption == NoReactor \notin Reactors

VARIABLES
  registry,   \* registry[c]: PubSubManager::registry_
  version,    \* MiniDFSImpl::version_
  published,  \* the number of calls of Publish, for the bound
  stage,      \* stage[r]: how far the stream of reactor r has got
  owner,      \* owner[r]: Reactor::client_id_
  queue,      \* queue[r]: Reactor::queue_, as the versions of its updates
  writing,    \* writing[r]: a StartWrite is outstanding
  seen,       \* seen[r]: the version of the last update the client has got
  aborted     \* gRPC has ended the server, for a second Finish of a reactor

vars == <<registry, version, published, stage, owner, queue, writing, seen, aborted>>

(* A stream is not opened yet, is past the test of Subscribe, is open, has *)
(* called Finish in OnCancel or in OnWriteDone(false), is past the test of *)
(* Unsubscribe, is deleted.                                                *)
Finished == {"cancelled", "failed"}
Stages == {"unused", "subscribing", "open", "unsubscribing", "deleted"} \cup Finished

Init ==
  /\ registry = [c \in Clients |-> NoReactor]
  /\ version = 0
  /\ published = 0
  /\ stage = [r \in Reactors |-> "unused"]
  /\ owner \in [Reactors -> Clients]
  /\ queue = [r \in Reactors |-> <<>>]
  /\ writing = [r \in Reactors |-> FALSE]
  /\ seen = [r \in Reactors |-> 0]
  /\ aborted = FALSE

Registered == {registry[c] : c \in Clients} \ {NoReactor}

-----------------------------------------------------------------------------
(* FileUpdateCallback makes a reactor and subscribes it.  Subscribe tests  *)
(* the registry without the mutex and changes it with the mutex.  Nobody   *)
(* looks at its result: a reactor that is turned down stays open.          *)

SubscribeTests(r) ==
  /\ stage[r] = "unused"
  /\ stage' = [stage EXCEPT ![r] =
       IF registry[owner[r]] = NoReactor THEN "subscribing" ELSE "open"]
  /\ UNCHANGED <<registry, version, published, owner, queue, writing, seen, aborted>>

SubscribeInserts(r) ==
  /\ stage[r] = "subscribing"
  /\ registry' = [registry EXCEPT ![owner[r]] = r]
  /\ stage' = [stage EXCEPT ![r] = "open"]
  /\ UNCHANGED <<version, published, owner, queue, writing, seen, aborted>>

(* OnDone unsubscribes and deletes the reactor.  Unsubscribe goes by the   *)
(* client id, whichever reactor is registered for it.  An update that was  *)
(* published in between has started a write; it goes with the reactor.     *)
Delete(r) == /\ stage' = [stage EXCEPT ![r] = "deleted"]
             /\ queue' = [queue EXCEPT ![r] = <<>>]
             /\ writing' = [writing EXCEPT ![r] = FALSE]

(* With a fault: the reactor is deleted and stays registered.              *)
UnsubscribeTestsForgets(r) ==
  /\ stage[r] \in Finished /\ ~writing[r]
  /\ Delete(r)
  /\ UNCHANGED <<registry, version, published, owner, seen, aborted>>

(* With a fault: a reactor that is not registered is not deleted.          *)
UnsubscribeTestsFirst(r) ==
  /\ stage[r] \in Finished /\ ~writing[r]
  /\ registry[owner[r]] = r
  /\ stage' = [stage EXCEPT ![r] = "unsubscribing"]
  /\ UNCHANGED <<registry, version, published, owner, queue, writing, seen, aborted>>

UnsubscribeTests(r) ==
  /\ stage[r] \in Finished /\ ~writing[r]
  /\ IF registry[owner[r]] = NoReactor
       THEN Delete(r)
       ELSE /\ stage' = [stage EXCEPT ![r] = "unsubscribing"]
            /\ UNCHANGED <<queue, writing>>
  /\ UNCHANGED <<registry, version, published, owner, seen, aborted>>

UnsubscribeErases(r) ==
  /\ stage[r] = "unsubscribing"
  /\ registry' = [registry EXCEPT ![owner[r]] = NoReactor]
  /\ Delete(r)
  /\ UNCHANGED <<version, published, owner, seen, aborted>>

-----------------------------------------------------------------------------
(* Every change of a file counts up version_ and then, in a step of its    *)
(* own, publishes the update.                                              *)

IncrementVersion ==
  /\ version < MaxChanges
  /\ version' = version + 1
  /\ UNCHANGED <<registry, published, stage, owner, queue, writing, seen, aborted>>

(* With a fault: the version is the next one.                              *)
NotifyUpdateAhead(notified) ==
  /\ queue' = [r \in Reactors |->
                 IF r \in notified THEN Append(queue[r], version + 1) ELSE queue[r]]
  /\ writing' = [r \in Reactors |->
                   writing[r] \/ (r \in notified /\ queue[r] = <<>>)]

(* With a fault: the length of the queue is tested before the update is in. *)
NotifyUpdateTestsFirst(notified) ==
  /\ queue' = [r \in Reactors |->
                 IF r \in notified THEN Append(queue[r], version) ELSE queue[r]]
  /\ writing' = [r \in Reactors |->
                   writing[r] \/ (r \in notified /\ Len(queue[r]) = 1)]

(* NotifyUpdate queues the update with the version of the moment, and      *)
(* starts a write if there is none.                                        *)
NotifyUpdate(notified) ==
  /\ queue' = [r \in Reactors |->
                 IF r \in notified THEN Append(queue[r], version) ELSE queue[r]]
  /\ writing' = [r \in Reactors |->
                   writing[r] \/ (r \in notified /\ queue[r] = <<>>)]

(* Publish notifies everyone but the client that made the change.  If that *)
(* client is registered, Publish erases its entry while it iterates over   *)
(* the registry, which is undefined: any of the others may be left out.    *)
Publish(c) ==
  LET others == Registered \ {registry[c]}
  IN  /\ published < MaxChanges
      /\ published' = published + 1
      /\ IF registry[c] = NoReactor
           THEN NotifyUpdate(others)
           ELSE \E notified \in SUBSET others : NotifyUpdate(notified)
      /\ registry' = [registry EXCEPT ![c] = NoReactor]
      /\ UNCHANGED <<version, stage, owner, seen, aborted>>

-----------------------------------------------------------------------------
(* With a fault: the latest update is written, the oldest one is popped.   *)
WriteSucceedsFromTheBack(r) ==
  /\ stage[r] \in {"open", "cancelled"} /\ writing[r]
  /\ seen' = [seen EXCEPT ![r] = queue[r][Len(queue[r])]]
  /\ queue' = [queue EXCEPT ![r] = Tail(@)]
  /\ writing' = [writing EXCEPT ![r] = Len(queue[r]) > 1]
  /\ UNCHANGED <<registry, version, published, stage, owner, aborted>>

(* With a fault: the next update is not written.                           *)
WriteSucceedsOnce(r) ==
  /\ stage[r] \in {"open", "cancelled"} /\ writing[r]
  /\ seen' = [seen EXCEPT ![r] = Head(queue[r])]
  /\ queue' = [queue EXCEPT ![r] = Tail(@)]
  /\ writing' = [writing EXCEPT ![r] = FALSE]
  /\ UNCHANGED <<registry, version, published, stage, owner, aborted>>

(* OnWriteDone(true): the client has the update, the next one is written.  *)
WriteSucceeds(r) ==
  /\ stage[r] \in {"open", "cancelled"} /\ writing[r]
  /\ seen' = [seen EXCEPT ![r] = Head(queue[r])]
  /\ queue' = [queue EXCEPT ![r] = Tail(@)]
  /\ writing' = [writing EXCEPT ![r] = Len(queue[r]) > 1]
  /\ UNCHANGED <<registry, version, published, stage, owner, aborted>>

(* gRPC allows a reactor one Finish, and ends the program at the second.   *)
(* OnCancel and OnWriteDone(false) each call it, whichever came before:    *)
(* a client that goes while an update is written can bring about both.     *)

(* OnWriteDone(false): the reactor finishes and leaves its queue.          *)
WriteFails(r) ==
  /\ stage[r] \in {"open", "cancelled"} /\ writing[r]
  /\ writing' = [writing EXCEPT ![r] = FALSE]
  /\ stage' = [stage EXCEPT ![r] = "failed"]
  /\ aborted' = (stage[r] = "cancelled")
  /\ UNCHANGED <<registry, version, published, owner, queue, seen>>

(* OnCancel: the client is gone.                                           *)
Cancelled(r) ==
  /\ stage[r] \in {"open", "failed"}
  /\ stage' = [stage EXCEPT ![r] = "cancelled"]
  /\ aborted' = (stage[r] = "failed")
  /\ UNCHANGED <<registry, version, published, owner, queue, writing, seen>>

-----------------------------------------------------------------------------

ReactorStep(r) ==
  \/ SubscribeTests(r) \/ SubscribeInserts(r)
  \/ UnsubscribeTests(r) \/ UnsubscribeErases(r)
  \/ WriteSucceeds(r) \/ WriteFails(r) \/ Cancelled(r)

Next ==
  /\ ~aborted
  /\ \/ IncrementVersion
     \/ \E c \in Clients : Publish(c)
     \/ \E r \in Reactors : ReactorStep(r)

(* As long as the server runs, gRPC completes every operation that was     *)
(* started, and runs its callback.                                         *)
Fairness ==
  \A r \in Reactors :
    /\ WF_vars(~aborted /\ SubscribeInserts(r))
    /\ WF_vars(~aborted /\ (UnsubscribeTests(r) \/ UnsubscribeErases(r)))
    /\ WF_vars(~aborted /\ (WriteSucceeds(r) \/ WriteFails(r)))

Spec == Init /\ [][Next]_vars /\ Fairness

-----------------------------------------------------------------------------
(* Properties.                                                             *)

(* The variables have their types.                                         *)
TypeOK ==
  /\ registry \in [Clients -> Reactors \cup {NoReactor}]
  /\ version \in 0..MaxChanges
  /\ published \in 0..MaxChanges
  /\ stage \in [Reactors -> Stages]
  /\ owner \in [Reactors -> Clients]
  /\ queue \in [Reactors -> Seq(0..MaxChanges)]
  /\ writing \in [Reactors -> BOOLEAN]
  /\ seen \in [Reactors -> 0..MaxChanges]
  /\ aborted \in BOOLEAN

(* Publish never calls a reactor that OnDone has deleted, although the     *)
(* tests of Subscribe and Unsubscribe are made without the mutex and       *)
(* Unsubscribe erases by client id: what is registered for a client is     *)
(* alive and is one of its own streams.                                    *)
NoDanglingReactor ==
  \A c \in Clients : registry[c] # NoReactor =>
    /\ owner[registry[c]] = c
    /\ stage[registry[c]] \in {"open", "unsubscribing"} \cup Finished

(* NotifyUpdate and OnWriteDone hand the writing over to each other: an    *)
(* open stream that has updates to send is sending one, and OnWriteDone    *)
(* never pops from an empty queue.                                         *)
QueueIsBeingWritten ==
  \A r \in Reactors :
    /\ writing[r] => queue[r] # <<>>
    /\ stage[r] = "open" /\ queue[r] # <<>> => writing[r]

(* A client sees the versions of its updates in their order, through the   *)
(* queue and the stream.                                                   *)
VersionsInOrder ==
  \A r \in Reactors :
    LET versions == <<seen[r]>> \o queue[r]
    IN  \A i, j \in 1..Len(versions) : i < j => versions[i] <= versions[j]

(* What is queued on a stream reaches the client, or the stream ends and   *)
(* its reactor is deleted; but for a client that goes during a write and   *)
(* ends the server by the second Finish of its reactor.                    *)
UpdatesArrive ==
  \A r \in Reactors :
    queue[r] # <<>> ~> (queue[r] = <<>> \/ stage[r] = "deleted" \/ aborted)

(* A stream that has finished is cleaned up, whoever is registered for its *)
(* client, unless some reactor finishes twice before that.                 *)
StreamsEnd ==
  \A r \in Reactors : stage[r] \in Finished ~> stage[r] = "deleted" \/ aborted

(* TESTS.md:27: "Client A subscribes. Client B uploads. Verify Client A    *)
(* gets the ... event."  So an update that one client makes is queued on   *)
(* the open stream of every other client that has one stream.              *)
SubscribersAreNotified ==
  [][\A c \in Clients : Publish(c) =>
       \A r \in Reactors :
         /\ stage[r] = "open" /\ owner[r] # c
         /\ \A s \in Reactors \ {r} : owner[s] # owner[r]
         => Len(queue'[r]) = Len(queue[r]) + 1]_vars
=============================================================================
