------------------------------ MODULE FileSync ------------------------------
(***************************************************************************)
(* The file watcher of the client (minidfs/src/dfs/file_sync): what        *)
(* becomes, at the server, of the changes of the files under the mount.    *)
(*                                                                         *)
(* The operating system notices changes and keeps them until the watcher   *)
(* is ready for them: on Windows one after the other in a bounded buffer,  *)
(* on a Mac merged, for each path, into a set of flags.  The watcher hands *)
(* them to StoreFile and RemoveFile of MiniDFSClient, one at a time, and   *)
(* waits for each.  MiniDFSServer has these calls in detail; here a call   *)
(* that leaves its lock behind leaves it in held, and the next call for    *)
(* the path waits for ever.  A call may fail, as the server may be out of  *)
(* reach; nobody looks at what it returns.                                 *)
(***************************************************************************)
EXTENDS Naturals, Sequences

CONSTANTS
  Paths,
  MaxWrites,    \* bound: contents that are written
  Length,       \* Length[n]: how many parts the n-th of them has
  Capacity,     \* notices the operating system can keep
  MaxFailures   \* bound: calls that fail, and locks that others leave behind

VARIABLES
  platform,  \* "windows" or "mac"
  opens,     \* the name in a notice opens the file it names
  local,     \* local[p]: the content of the client's file
  remote,    \* remote[p]: the content of the server's,
  extent,    \* and how many parts that has
  held,      \* held[p]: the server keeps a lock for the path, for good
  failed,    \* paths for which the last call did not do its work
  failures,  \* failures so far
  writes,    \* contents written so far
  notices,   \* what the operating system has noticed and keeps
  overflow,  \* it could not keep everything (windows)
  renamed,   \* paths that a file was renamed to, or from
  at,        \* where the watcher is
  buffer,    \* the notices it has received,
  pos,       \* and the one it is at
  content,   \* what it has read of the file it stores
  sync       \* the object: "on", "stopping" or "gone"

vars == <<platform, opens, local, remote, extent, held, failed, failures, writes,
          notices, overflow, renamed, at, buffer, pos, content, sync>>
fileVars == <<local, writes, notices, overflow, renamed>>
setup == <<platform, opens, sync>>
server == <<remote, extent, held>>
outcomes == <<failed, failures>>
watcherVars == <<at, buffer, pos, content>>

(* A file that is not there, one that is empty, and contents in the order  *)
(* in which they are written.  The server's may be a mixture of some.      *)
Absent == 0
Empty == 1
Contents == 0..(MaxWrites + 1)
Mixture == MaxWrites + 2

LengthOf(c) == IF c \in {Absent, Empty} THEN 0 ELSE Length[c - 1]

Kinds == {"created", "removed", "modified", "renamed"}
Notices == [path : Paths, kinds : SUBSET Kinds]

(* A Windows notice names the file relative to the mount, and is opened    *)
(* relative to the working directory.                                      *)
Init ==
  /\ platform \in {"windows", "mac"}
  /\ opens \in {o \in BOOLEAN : platform = "mac" => o}
  /\ local = [p \in Paths |-> Absent]
  /\ remote = [p \in Paths |-> Absent]
  /\ extent = [p \in Paths |-> 0]
  /\ held = [p \in Paths |-> FALSE]
  /\ failed = {}
  /\ failures = 0
  /\ writes = 0
  /\ notices = <<>>
  /\ overflow = FALSE
  /\ renamed = {}
  /\ at = "read"
  /\ buffer = <<>>
  /\ pos = 1
  /\ content = Absent
  /\ sync = "on"

-----------------------------------------------------------------------------
(* The files change, and the operating system takes notice.                *)

With(kept, p, kind) ==
  LET same == {i \in DOMAIN kept : platform = "mac" /\ kept[i].path = p}
  IN  IF same = {} THEN Append(kept, [path |-> p, kinds |-> {kind}])
      ELSE [i \in DOMAIN kept |->
              IF i \in same THEN [kept[i] EXCEPT !.kinds = @ \cup {kind}] ELSE kept[i]]

(* What does not fit any more is dropped with what was kept.               *)
Keeps(kept) ==
  IF Len(kept) <= Capacity
  THEN notices' = kept /\ UNCHANGED overflow
  ELSE notices' = <<>> /\ overflow' = TRUE

Changes(new, kept) ==
  /\ sync # "gone"
  /\ local' = new
  /\ Keeps(kept)
  /\ UNCHANGED <<setup, server, outcomes, watcherVars>>

Create(p, filled) ==
  /\ local[p] = Absent
  /\ writes < MaxWrites
  /\ writes' = writes + 1
  /\ Changes([local EXCEPT ![p] = IF filled THEN writes + 2 ELSE Empty],
             With(notices, p, "created"))
  /\ UNCHANGED renamed

Write(p) ==
  /\ local[p] # Absent
  /\ writes < MaxWrites
  /\ writes' = writes + 1
  /\ Changes([local EXCEPT ![p] = writes + 2], With(notices, p, "modified"))
  /\ UNCHANGED renamed

Remove(p) ==
  /\ local[p] # Absent
  /\ Changes([local EXCEPT ![p] = Absent], With(notices, p, "removed"))
  /\ UNCHANGED <<writes, renamed>>

Rename(p, q) ==
  /\ local[p] # Absent /\ p # q
  /\ p \notin renamed                    \* bound: no path is renamed twice
  /\ Changes([local EXCEPT ![q] = local[p], ![p] = Absent],
             With(With(notices, p, "renamed"), q, "renamed"))
  /\ renamed' = renamed \cup {p, q}
  /\ UNCHANGED writes

-----------------------------------------------------------------------------
(* The watcher: sync_loop and handle_change on Windows, the callback of    *)
(* the event stream on a Mac.                                              *)

(* ReadDirectoryChangesW, for whatever there is or will be.                *)
ReadChanges ==
  /\ at = "read"
  /\ at' = IF sync = "on" THEN "wait" ELSE "ended"
  /\ UNCHANGED <<setup, fileVars, server, outcomes, buffer, pos, content>>

(* The changes that were kept are handed over; they go before the event to *)
(* stop.  A stream that was stopped calls back no more.  After an overflow *)
(* nothing is written to the buffer, and what it holds from before is      *)
(* handled again (at first it is zero).                                    *)
ReceiveChanges ==
  /\ at = "wait"
  /\ platform = "mac" => sync = "on"
  /\ overflow \/ notices # <<>>
  /\ IF overflow THEN UNCHANGED <<buffer, notices>>
                 ELSE buffer' = notices /\ notices' = <<>>
  /\ overflow' = FALSE
  /\ at' = IF buffer' = <<>> THEN "read" ELSE "handle"
  /\ pos' = 1
  /\ UNCHANGED <<setup, local, writes, renamed, server, outcomes, content>>

StopSignalled ==
  /\ at = "wait"
  /\ platform = "windows"
  /\ sync = "stopping"
  /\ ~overflow /\ notices = <<>>
  /\ at' = "ended"
  /\ UNCHANGED <<setup, fileVars, server, outcomes, buffer, pos, content>>

(* With a fault: whether it was removed is looked at first.                *)
RemovedFirst(notice) ==
  CASE "removed" \in notice.kinds /\ platform = "mac" -> "remove"
    [] notice.kinds \cap {"created", "modified"} # {} -> "store"
    [] OTHER -> "none"

(* Which of its handlers a notice goes to.                                 *)
HandlerOf(notice) ==
  CASE "created" \in notice.kinds -> "store"
    [] "created" \notin notice.kinds /\ platform = "windows" -> "none"
    [] OTHER -> IF "removed" \in notice.kinds THEN "remove"
                ELSE IF "modified" \in notice.kinds THEN "store" ELSE "none"

Notice == buffer[pos]
Handles(handler) == at = "handle" /\ HandlerOf(Notice) = handler

(* With a fault: one notice too many.                                      *)
GoesOnTooFar ==
  /\ IF pos > Len(buffer) THEN pos' = 1 /\ at' = "read"
                          ELSE pos' = pos + 1 /\ at' = "handle"
  /\ content' = Absent
  /\ UNCHANGED buffer

(* With a fault: only the first notice.                                    *)
GoesOnNoFurther ==
  /\ pos' = 1 /\ at' = "read" /\ content' = Absent
  /\ UNCHANGED buffer

(* To the next notice.                                                     *)
GoesOn ==
  /\ IF pos = Len(buffer) THEN pos' = 1 /\ at' = "read"
                          ELSE pos' = pos + 1 /\ at' = "handle"
  /\ content' = Absent
  /\ UNCHANGED buffer

HandleNothing ==
  /\ Handles("none")
  /\ GoesOn
  /\ UNCHANGED <<setup, fileVars, server, outcomes>>

(* What a call returns; nobody looks at it.                                *)
Succeeds == failed' = failed \ {Notice.path} /\ UNCHANGED failures
Fails ==
  /\ failures < MaxFailures
  /\ failures' = failures + 1
  /\ failed' = failed \cup {Notice.path}

(* RemoveFile.  The lock stays behind when there is no file to remove.     *)
HandleRemoved ==
  /\ Handles("remove")
  /\ ~held[Notice.path]
  /\ held' = [held EXCEPT ![Notice.path] = remote[Notice.path] = Absent]
  /\ remote' = [remote EXCEPT ![Notice.path] = Absent]
  /\ extent' = [extent EXCEPT ![Notice.path] = 0]
  /\ Succeeds
  /\ GoesOn
  /\ UNCHANGED <<setup, fileVars>>

(* StoreFile.  The lock comes first, and with it the file at the server.   *)
Created == [remote EXCEPT ![Notice.path] = IF @ = Absent THEN Empty ELSE @]

StoreLocks ==
  /\ Handles("store")
  /\ ~held[Notice.path]
  /\ remote' = Created
  /\ at' = "locked"
  /\ UNCHANGED <<setup, fileVars, extent, held, outcomes, buffer, pos, content>>

(* Then it opens the file.  It gives up if it cannot, and keeps the lock.  *)
StoreOpens ==
  /\ at = "locked"
  /\ IF opens /\ local[Notice.path] # Absent
     THEN /\ content' = local[Notice.path]
          /\ at' = "sending"
          /\ UNCHANGED <<held, buffer, pos>>
     ELSE /\ held' = [held EXCEPT ![Notice.path] = TRUE]
          /\ GoesOn
  /\ UNCHANGED <<setup, fileVars, remote, extent, outcomes>>

(* The first k parts come to the server.  Its file is not made shorter.    *)
Arrives(k) ==
  LET p == Notice.path
      all == k = LengthOf(content) /\ k >= extent[p]
  IN  /\ remote' = [remote EXCEPT ![p] = IF k = 0 \/ @ = content THEN @
                                         ELSE IF all THEN content ELSE Mixture]
      /\ extent' = [extent EXCEPT ![p] = IF @ < k THEN k ELSE @]

(* And sends it.  Of an empty file nothing is sent, and the lock is kept.  *)
StoreSends ==
  /\ at = "sending"
  /\ Arrives(LengthOf(content))
  /\ held' = [held EXCEPT ![Notice.path] = content = Empty]
  /\ Succeeds
  /\ GoesOn
  /\ UNCHANGED <<setup, fileVars>>

(* The server is out of reach, or cannot open or remove its file; or the   *)
(* lock is given, and the answer or the call to remove the file is lost.   *)
LockFails ==
  /\ at = "handle" /\ HandlerOf(Notice) # "none"
  /\ \/ UNCHANGED <<remote, held>>
     \/ /\ ~held[Notice.path]
        /\ held' = [held EXCEPT ![Notice.path] = TRUE]
        /\ remote' = IF Handles("store") THEN Created ELSE remote
  /\ Fails
  /\ GoesOn
  /\ UNCHANGED <<setup, fileVars, extent>>

(* A part is not written at the server, which keeps the lock, or the       *)
(* stream breaks, which looks to the server like its end.                  *)
SendFails ==
  /\ at = "sending" /\ content # Empty
  /\ \/ /\ \E k \in 0..LengthOf(content) : Arrives(k)
        /\ held' = [held EXCEPT ![Notice.path] = TRUE]
     \/ /\ \E k \in 1..(LengthOf(content) - 1) : Arrives(k)
        /\ UNCHANGED held
  /\ Fails
  /\ GoesOn
  /\ UNCHANGED <<setup, fileVars>>

CallFails == LockFails \/ SendFails

(* Another client leaves a lock behind, as each does that reads the file.  *)
OtherKeepsLock(p) ==
  /\ remote[p] # Absent /\ ~held[p]
  /\ ~(at \in {"locked", "sending"} /\ Notice.path = p)
  /\ failures < MaxFailures
  /\ failures' = failures + 1
  /\ held' = [held EXCEPT ![p] = TRUE]
  /\ UNCHANGED <<setup, fileVars, remote, extent, failed, watcherVars>>

-----------------------------------------------------------------------------
(* The destructors.  The one of Windows waits for the thread; the one of   *)
(* the Mac does not wait for a callback.                                   *)
Stop ==
  /\ sync = "on"
  /\ sync' = IF platform = "mac" THEN "gone" ELSE "stopping"
  /\ UNCHANGED <<platform, opens, fileVars, server, outcomes, watcherVars>>

Join ==
  /\ sync = "stopping"
  /\ at = "ended"
  /\ sync' = "gone"
  /\ UNCHANGED <<platform, opens, fileVars, server, outcomes, watcherVars>>

WatcherStep ==
  \/ ReadChanges \/ ReceiveChanges \/ StopSignalled
  \/ HandleNothing \/ HandleRemoved \/ StoreLocks \/ StoreOpens \/ StoreSends

FilesChange ==
  \/ \E p \in Paths : (\E filled \in BOOLEAN : Create(p, filled)) \/ Write(p) \/ Remove(p)
  \/ \E p, q \in Paths : Rename(p, q)

Next ==
  \/ FilesChange \/ WatcherStep \/ CallFails \/ Stop \/ Join
  \/ \E p \in Paths : OtherKeepsLock(p)

Spec == Init /\ [][Next]_vars

-----------------------------------------------------------------------------
(* Properties.                                                             *)

TypeOK ==
  /\ platform \in {"windows", "mac"} /\ opens \in BOOLEAN
  /\ local \in [Paths -> Contents]
  /\ remote \in [Paths -> Contents \cup {Mixture}] /\ extent \in [Paths -> Nat]
  /\ held \in [Paths -> BOOLEAN]
  /\ failed \subseteq Paths /\ failures \in 0..MaxFailures
  /\ notices \in Seq(Notices) /\ Len(notices) <= Capacity
  /\ overflow \in BOOLEAN /\ renamed \subseteq Paths
  /\ at \in {"read", "wait", "handle", "locked", "sending", "ended"}
  /\ buffer \in Seq(Notices)
  /\ at \in {"handle", "locked", "sending"} => pos \in DOMAIN buffer
  /\ content \in Contents
  /\ sync \in {"on", "stopping", "gone"}

(* The watcher waits for a lock that nobody will release.                  *)
Blocked == at = "handle" /\ HandlerOf(Notice) # "none" /\ held[Notice.path]

(* A notice for which path p will be stored as it then is.                 *)
ToBeStored(p) ==
  \/ \E i \in DOMAIN notices : notices[i].path = p /\ HandlerOf(notices[i]) = "store"
  \/ \E i \in DOMAIN buffer :
       /\ buffer[i].path = p /\ HandlerOf(buffer[i]) = "store"
       /\ \/ at \in {"handle", "locked"} /\ i >= pos
          \/ at = "sending" /\ (i > pos \/ (i = pos /\ content = local[p]))

(* A change of p may be lost only by a call that failed, which is not made *)
(* again, and in a file that is longer at the server, which keeps its end. *)
MayBeLost(p) == p \in failed \/ LengthOf(local[p]) < extent[p]

(* On a Mac a file whose content is not the server's will be stored, if it *)
(* came about by no rename, or is one of those two: no change is lost by   *)
(* merging, by the order in which flags are looked at, while other files   *)
(* are handled, or by a failure from before the last call for the file.    *)
ChangesAreNotLost ==
  \A p \in Paths :
    platform = "mac" /\ p \notin renamed /\ local[p] \notin {Absent, Empty, remote[p]}
      => ToBeStored(p) \/ MayBeLost(p)

(* A notice of a new file brings its content to the server, unless there   *)
(* is no further notice and it was lost in one of those two ways, or the   *)
(* watcher is blocked, destroyed or overrun, or cannot open the file.      *)
NoticedFilesAreStored ==
  \A p \in Paths : \A v \in Contents \ {Absent, Empty} :
    (ToBeStored(p) /\ local[p] = v)
      ~> \/ remote[p] = v \/ local[p] # v
         \/ MayBeLost(p) /\ ~ToBeStored(p)
         \/ Blocked \/ sync # "on" \/ overflow \/ ~opens
=============================================================================
