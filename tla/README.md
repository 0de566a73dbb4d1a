# MiniDFS in TLA+

MiniDFS is a small distributed file store: a gRPC server that keeps files under
a mount directory, a desktop client that uploads, downloads and deletes them and
listens to push notifications, and a Go proxy that keeps accounts and devices.
This directory specifies the server's lock table, its transfers and its
notifications; the client's file watcher, its pool of threads, its uploads, its
connected accounts with the proxy's token rows, and its main thread with the
views and the file explorer. It model-checks them with TLC on small instances,
and proves their safety with TLAPS for instances of any size: every invariant and
every property of steps that a run checks is a theorem too, and so is that the lock
table implements a store of files under locks and the explorer's history a trail.
Liveness is model-checked.

Source paths below are relative to `src/minidfs/src/` unless they start with
`src/`. `PROJECT.json` maps every definition to the lines it translates.

## 1. Inventory

| Component | State | Operations | What is hard |
|---|---|---|---|
| **FileManager** `dfs/file_manager.*` | one mutex; per path a FileLock: condition variable, `readers`, `pending_writers`, `has_writer`, sessions by client id; the files | Acquire/Release Read/WriteLock, WriteFile, ReadFile, RemoveFile | threads that wait in the middle of a method; releases of the wrong kind; an unsigned counter; failing opens; a removal that destroys what others wait on |
| **PubSubManager** and the reactor of FileUpdateCallback, `dfs/server/pubsub_manager.*`, `minidfs_impl.cpp:313` | registry of client ids to reactors; per reactor a queue and at most one write; `version_` | Subscribe, Unsubscribe, Publish, NotifyUpdate, OnWriteDone, OnCancel, OnDone | tests of the registry without its mutex; deletion of reactors that are being called; the hand-over of writing between two callbacks |
| **MiniDFSImpl** `dfs/server/minidfs_impl.*` | a reactor per call | GetFileLock, StoreFile, FetchFile, RemoveFile, ListFiles | the lock is taken by one call and released by another; callbacks of many calls interleave; a lock is waited for on a callback thread; a client that vanishes |
| **MiniDFSClient** `dfs/client/*` | client id; a table of local sessions with reference counts | StoreFile, FetchFile, RemoveFile, ListFiles | the order of the two calls of an operation; early returns between them |
| **FileSync** `dfs/file_sync/*` | the operating system's notices, the buffer, a stop event | init, start, event loop, handlers, destructor | notices that are merged or dropped; calls to the server that fail, or leave its lock behind; a destructor that waits for the loop, or does not |
| **WorkerPool** `application/core/worker_pool.*` | queue of tasks, condition variable, stop flag, threads | add, destructor, worker loop | shutdown against add; notifications outside the mutex; tasks that throw |
| **HttpClient** `application/core/http_client.*` | none between calls | single requests, chunked_upload | offsets, answers and cancellation of chunked_upload; a file that shrinks |
| **ServicesState** and its panel, `application/panels/services/`; account tokens of the **proxy**, `src/proxy/api/ms/token.go` | set of connected accounts; rows of tokens | check, show, disconnect, fetch of a profile, refresh, sign-in | detached threads that apply late answers; tokens that expire; read, ask and store at the proxy |
| **FileExplorerState, WorkspaceState, FileSidebarState** and their panels, `application/panels/home/` | directory, listing, selection, two history stacks; workspaces; dialogs | navigate, back, forward, select, open, choose a workspace, create | navigations that fail half-way; an index into a listing that is replaced |
| **ViewRegistry**, views, navigation bar, sign-in panels, `application/views/`, `panels/Navbar/`, `panels/auth/` | views by id, the current one, a mutex; inputs and errors | register, switch, render, sign in | views that are switched while they render |
| **Application** `application/application.*`, `application/platform/` | its members | run, init_*, main loop, destruction | a setup that throws; the order in which members end |
| **Proxy**, the rest, `src/proxy/` (TSBase, devices, users, files, workspaces) | peer map of the Tailscale bus; database rows | watcher, HTTP handlers | maps read without the watcher's mutex |
| UIRegistry, assets, file picker, setup panel, LinuxApp, server main | caches, wrappers, wiring | | nothing that a model checker would find, or code that cannot be reached |

**Interactions.** MiniDFSClient makes two calls for an operation: `GetFileLock`,
and then `StoreFile`, `FetchFile` or `RemoveFile`. MiniDFSImpl serves each with
a reactor that calls FileManager, which blocks the callback thread while a lock
is waited for, and, when files change, PubSubManager. PubSubManager calls the
reactors of the update streams, which gRPC calls back when a write is done, when
the client is gone and for the last time. A lock belongs to a client id and a
path, not to a call or a connection: the two calls of one operation, and
operations under one id, meet only in the session table.

The client runs five kinds of threads. The main thread renders and handles every
input, with requests to the proxy that it waits for. The watcher's thread (Windows)
or dispatch queue (Mac) calls MiniDFSClient. The pool's threads are there for
uploads, which no panel starts yet. Detached threads check the accounts and fetch
profiles. The threads of gRPC serve its streams. They meet in ServicesState (under
its mutex), in the pool's queue and at the end of the application, where `file_sync_`
is destroyed before `worker_pool_`.

**What makes each correct.** FileManager: many readers or one writer; counters that
agree with the sessions; no lost wakeup; nobody's file changed or taken away.
Notifications: no deleted reactor is called; what is queued arrives, in order; streams
are cleaned up. Operations: what is answered OK was transferred whole; what an operation
locks it releases; whoever waits gets its turn. FileSync: what is noticed comes to the
server, if the call for it does. WorkerPool: every task runs once, no worker sleeps
through one, the destructor ends. Uploads: what is reported is so. Accounts: none is
lost, resurrected or left loading by a late answer. Explorer: the history is the path
that was taken, the selection is what is shown. Views: every frame shows one and ends.

The hazards, each at its line and with the properties that speak of it, are in
`PROJECT.json`.

## 2. Modules

| Module | Models | Lines of code |
|---|---|---|
| `LockedStore` | abstract: what FileManager promises, without its lock table | interface |
| `FileManager` | every public method of FileManager that changes state, and the waits inside them | `dfs/file_manager.*` |
| `FileManagerProofs` | the theorems about FileManager | |
| `PubSubManager` | PubSubManager and the reactors of FileUpdateCallback | `dfs/server/pubsub_manager.*`, `minidfs_impl.cpp:313-379` |
| `PubSubManagerProofs` | the theorems about PubSubManager | |
| `MiniDFSServer` | the operations of MiniDFSClient and the reactors that serve them; composes `FileManager` and `PubSubManager` by INSTANCE and uses their actions for every call it makes | `dfs/client/minidfs_client.cpp`, `dfs/server/minidfs_impl.*` |
| `MiniDFSServerProofs` | the theorems about MiniDFSServer, from those about its two parts | |
| `Accounts` | ServicesState, its panel, the proxy's token rows, Graph's answers | `panels/services/*`, `src/proxy/api/ms/token.go` |
| `AccountsProofs` | the theorems about Accounts | |
| `FileSync` | the operating system's notices, the watchers of both platforms, what their calls do at the server | `dfs/file_sync/*`, `minidfs_client.cpp:54-118` |
| `PoolConstants`, `WorkerPool`, `WorkerPoolProofs` | the pool of threads, and the theorems about it | `core/worker_pool.*` |
| `ChunkedUpload` | `HttpClient::chunked_upload` against an upload session | `core/http_client.cpp:154-295` |
| `ClientThreads` | the end of the application; composes `FileSync`, `WorkerPool` and `ChunkedUpload` by INSTANCE: an upload is a task, its steps are those of the thread that runs it | `application.h`, `main.cpp` |
| `ClientThreadsProofs` | the theorems about ClientThreads, FileSync and ChunkedUpload, and from those about WorkerPool | |
| `Trail` | abstract: what the "<" and ">" buttons promise | interface |
| `ExplorerConstants`, `Explorer`, `ExplorerProofs` | explorer and sidebar, and the theorems about them | `panels/home/*` |
| `Views` | registry of views, navigation bar, sign-in panels | `views/*`, `panels/Navbar/*`, `panels/auth/*` |
| `Desktop` | the main thread; composes `Explorer` and `Views` by INSTANCE: what a panel does happens in a frame that renders its view | `application.cpp`, `platform/windows/*`, `platform/mac/*` |
| `DesktopProofs` | the theorems about Desktop and Views, and from those about Explorer | |
| `MC...` | instances for TLC | |

Definitions whose comment begins with *With a fault* are no part of a
specification. Each stands before the definition it would replace and changes it
the way a slip in the code would; they record what every property guards
against.

### FileManager

The methods hold `file_lock_mu_` for their whole length, so a call is one action.
A wait on the condition variable splits an acquisition: `AcquireWaits` gives the
mutex up, `NotifyAll` (part of the releases) or `SpuriousWakeup` make the thread
`ready`, and with the mutex back it is admitted (`WakesUp`) or waits again
(`WaitsAgain`). A call that is admitted at once is `AcquireAtOnce`; it counts
`pending_writers` up and down within one critical section, so the model does not
count it at all. `granted` is the method's result: it is FALSE where the file is
missing or, for `FaultyFiles`, where the system refuses.

Sessions are `none`, `reader`, `writer` and `closed`. The last is a writer's
session that cannot write: deleting does not need the file to open
(`create == false`), and a stream on which a write failed stays failed.
`fl->sessions[client_id] = ...` replaces a session the client already has, and the
releases erase whatever session there is and then count down as if it had been of
their kind. The model does the same, which is why counters and sessions can drift
apart, and why they are related by inequalities.

`file_locks_.erase(it)` destroys a FileLock. A condition variable with waiters
must not be destroyed, so the model has each outcome a build can produce: the
threads are `orphaned`, and may stay in the wait for ever or return
(`OrphanReturns`) with no lock of the table; or the destructor waits for them and
`RemoveFile` never returns, with the mutex (`RemoveFileHangs`).

Contents are sequences of chunks; a write beyond the end leaves a `Hole`, and one that
fails may have written a part of its chunk (`WritesInPart`, any chunk standing for it).
The two attempts of AcquireWriteLock to open a file are assumed to get the same answer.

### PubSubManager

`Subscribe` and `Unsubscribe` test the registry without the mutex and change it
with the mutex, so each is two actions. `Publish` and the `NotifyUpdate` it calls
are one action: Publish has its mutex, and the reactor's is only ever held for a
queue operation. Publish erases the entry of the client that made the change
while it iterates over the map; that is undefined, and the model lets it leave
out any of the others. A reactor's life is its `stage`; after Finish gRPC calls
`OnDone` once no write is outstanding. `OnWriteDone(false)` (stage `failed`) and
`OnCancel` (stage `cancelled`) both call Finish. gRPC allows a reactor one, so the
second of them ends the server: `aborted` is set, and no step of any module that uses
the registry is taken after it. Updates are represented by their versions.

### MiniDFSServer

Operation `t` goes through `idle`, `locking`, `locked`, and then `storing`,
`released`, `counted` or `fetching`. Every step of a reactor between two points
at which it gives a mutex up, or returns to gRPC, is an action. In particular
StoreFile releases its lock, counts the change and publishes it in three actions,
and OnDone of RemoveFile, which runs after the answer, is a record of `onDone`
that outlives the operation. `Publisher` is whose change an upload is: of one
without chunks the server never learns the client. `Vanishes` is a client that ends or
is cut off: in `locked` the server never hears of it, in `storing` its stream ends like
one that is complete, in `fetching` a write fails. `HasThread` says that one of
`PoolSize` callback threads is not blocked in a wait for a lock.

### Accounts

Tokens are written `<<a, n>>`, the n-th issued for account `a`. What the interface
does is one step up to a request it waits for (`Disconnect`, then `DeleteReturns`).
A detached thread is a record of `thread`: where it is, the account it works for,
the token or the rows it has. Every request is a step without the mutex, every
answer is applied with it (`Updates`, `Moves`) to the connection as it is by then, or to
none. `Moves` is the erase and insert of a profile: the connection is inserted under
the id that Graph gives (`GraphId`, `NoAccount` for none), and is dropped if there is
one. Rows with another id than Graph's are those of the migration
`20260127130000_ms_tokens_add_ms_user_id.sql`, which has the user's own id as a
placeholder; neither they nor the rows stored before the next migration have names, so
their profiles are fetched. `GraphFails` is any answer without a profile, one that does
not parse included, and may be the answer to every fetch. `RefreshReads` and
`RefreshStores` are the proxy's handler, which reads the row and stores the answer with
Microsoft's answer in between. `is_authenticated` is true exactly when there is a token,
so the token stands for it.

### FileSync, WorkerPool, ChunkedUpload, ClientThreads

`platform` is chosen at the start. On Windows notices are a sequence in a bounded
buffer; one that does not fit drops all (`overflow`), and what the buffer held before is
handled again. On a Mac notices of a path are merged into a set of flags. `HandlerOf` is
the switch of one and the chain of tests of the other. StoreFile is three steps, between
which files change: the lock, the file that is opened, what is sent. Contents are
numbers, of `Length[n]` parts each; `extent` is how many parts the server's file has, as
it never becomes shorter: what arrives over a longer file, or arrives in part, leaves a
`Mixture`. Calls may fail, up to `MaxFailures` times: `LockFails` when the lock is not
given, or is given and its answer or the call to remove is lost; `SendFails` when a
write fails at the server (DATA_LOSS), or the stream breaks, which the server takes for
its end. The handlers look at no status, so each then goes on to the next notice;
`failed` remembers the paths whose last call did not do its work, for the properties
only. `held` is a lock the server keeps for good: because a call of the watcher left it,
or another client (`OtherKeepsLock`, as each that downloads the file does, finding 3);
MiniDFSServer shows how. `opens` tells whether the name in a Windows notice, which is
relative to the mount and opened relative to the working directory, opens the file.

What WorkerPool does under its mutex is one step, a notification after it another.
A worker that runs a task is written as the task. ChunkedUpload counts lengths in
parts of a chunk; the session takes a range that continues what it has.

### Trail, Explorer, Views, Desktop

The disk belongs to everybody, so a directory that is read may hold anything and a
path may be unreadable at any time: a listing is any of `Listings`, and `get_files`
fails at will. `Visited` and `Place` map the two stacks and the current path to a
trail and a place on it. In Views a frame is several steps, as the registry's mutex
is taken and given up in it, and taken again by `switch_view` when a panel calls it;
one input is handled in a frame. `stage` of Desktop is the progress of `run`.

## 3. What is checked

| Run | Question | Instance | Distinct states |
|---|---|---|---|
| `file_manager` | Is the table sound under any calls, and does it implement LockedStore? | 3 clients, 3 threads, 1 faulty file, 2 chunks | 60 thousand |
| `file_manager_refused_writer` | finding 1 | 2 clients, 2 threads | |
| `pubsub` | Are reactors alive, queues written, versions ordered, streams cleaned up? | 2 clients, 2 streams, 3 updates | 200 thousand |
| `pubsub_own_upload` | finding 2 | 2 clients, 1 stream | |
| `server_operations` | Is what is answered OK whole, with removals, failures and a client that vanishes? | 2 clients, 2 operations each, every kind | 560 thousand |
| `server_shared_client` | Do counts cover downloads when ids are shared? | 3 operations, two under one id | 100 thousand |
| `server_uploads` | Do uploads release what they lock, get their turn, and are they heard of, the empty and cut-off ones too? | 2 uploads, 2 streams, 1 thread to spare | 330 thousand |
| `server_fetch_keeps_lock` | finding 3 | 1 download, 1 upload | |
| `server_overwrite` | finding 4 | 2 uploads | |
| `accounts` | Do accounts survive late answers, expiry, removal, sign-in, and a profile that gives them the id of another? | 2 accounts, one with the other's id at Graph, 2 tokens each, 2 threads | 6.7 million |
| `client_threads` | Which changes can be lost, do noticed files come to the server, do tasks run once, does the application end? | 2 files, 2 contents, buffer of 2, 1 failure; 2 workers, an upload and another task | 740 thousand |
| `desktop` | Is the history a trail, is the selection shown, do frames end? | 2 directories, one with two names, 1 file, listings of 2, 4 places | 1.2 million |

**FileManager.** `MutualExclusion`, `CountsCoverSessions`,
`PendingWritersCounted`, `HandlesHaveFiles` are invariants of the table;
`NoLostWriterWakeup` says that a writer that was not notified is not admitted, on
every path. `ReadersSeeOneFile`, `OneSessionEndsAtATime` and
`ReadersYieldToWriters` restrict steps. `ImplementsLockedStore` is the refinement:
sessions of kind `reader` are the readers, `writer` and `closed` the writers.

**Notifications.** `NoDanglingReactor`: what is registered is alive, although
nothing but the order of steps protects it. `QueueIsBeingWritten`: the two
callbacks hand over writing by the length of the queue and never both leave it.
`VersionsInOrder`, and the liveness of `UpdatesArrive` and `StreamsEnd`, for a server
that is not ended by a reactor's second Finish.

**Operations.** `FetchesAreSnapshots` and `StoresAreWhole` relate a transfer of
several chunks to the file at its end. `ReadersCoverFetches` relates downloads to
`FileLock::readers` when two share a session. `IdleClientsHoldNothing` and
`LocksAreAnswered` are about uploads, with clients that vanish at any point: what an
upload has locked is released, and who waits for it gets it, unless no chunk of it came
(`LeavesLock`). Both are false with downloads, removals or failures of the system, for
the reasons under *Findings* and *Known limits*.
`UploadsReachSubscribers` is about every upload that is counted, the empty and the
cut-off ones too, and every stream, if the uploader has none: with one, its Publish may
skip any other (`pubsub_manager.cpp:36`).

**Accounts.** `LoadingHasAThread` relates a flag that one thread sets to the threads
that will clear it. `OnlyExpiredSessionsClose`, `OnlyTheUserRemoves` and
`GoneStaysGone` restrict steps: a late answer neither logs an account out that did
not expire, nor removes it, nor brings it back when nothing of it is left under way.
A profile that gives an account another id does take it from the list, and
`OnlyTheUserRemoves` says that it is then listed under that id; an account is gone for
`GoneStaysGone` when it is gone under every id (`Aliases`). That an account is loaded in
the end is not claimed, as Graph may go on giving it no profile the code can read (*Known
limits*).

**Threads of the client.** `NobodyOversleeps` and `TasksAreKeptOnce` are the pool's
invariants; `UploadsAreReported` relates what an upload reports to what the session
has. `ChangesAreNotLost` says that on a Mac a file that differs from the server's is
in a notice that will store it, although flags have no order, only one handler runs and
calls fail; unless the last call for it failed, as nobody makes it again, or the server's
file is longer, as its end stays (`MayBeLost`). A lock left behind is no excuse: the
notice of the next change waits for it. `NoticedFilesAreStored` says that what is noticed
comes to the server, and `ApplicationEnds` that the destructors end with an outcome for
every task; each names the cases in which the code does not manage (`MayBeLost` when no
notice is left, a watcher that waits for a lock that is never released, an overflow, a
name that does not open, a crash). Each of the two cases of `MayBeLost` is needed:
without it TLC finds `ChangesAreNotLost` violated.

**Main thread.** `ImplementsTrail` is the refinement. `SelectionIsShown` keeps the
unchecked index of a shift-click within the listing. `FramesShowAViewAndEnd` says that
no frame is without a view and that every frame ends, though its view is switched.

### Bounds

Three threads are a holder, a waiter and one who overtakes; three clients let two
readers be present while a third writes. Files are independent, as no method
touches two FileLocks, so one is enough. Two chunks are the least with something
between chunks. `MaxReaders` is the greatest value of the 64-bit counter, from
which a model with few readers can wrap around; an acquisition that would pass it
is left out (it takes 2^64 of them). Two streams of one client are needed for
one to take the other's place. Two operations per thread let OnDone of a removal
meet the client's next operation; a client has one such OnDone pending. Symmetry
in threads and clients is used only in `file_manager`, which has no liveness.

No step of `Accounts` looks at two accounts but the rows of a check and the profile that
gives an account the id of another, so two show everything; two threads are a refresh
and a second fetch, or a check that overlaps one; two tokens let a token expire, be
refreshed and expire again. What becomes of a profile without an id is covered by the
proofs, which are for any `GraphId`. For the watcher, two files let one be renamed to
the other while a notice of it is handled, and two contents let a file change between
its notice and its storing; two notices fill the buffer. The second content has one part
and the first two (`LongThenShort`), so that a longer file is overwritten by a shorter
one; one call that fails is enough to lose a change and let the watcher go on to the
next (`MaxFailures`; the proof of `ChangesAreNotLost` is for any number). A chunk is two
parts and a file up to three, so a file can have two chunks and lose either end.
`ForFiles` keeps the changes of files apart from the tasks and the cancelling of
uploads, as they share nothing but the end. Two names for a directory let a visit be
none; four places let the trail be cut in the middle. `Unmoved` and `Unvisited` keep the
explorer's states and the other views' from being multiplied, as they share nothing but
the frame.

Deadlock is not checked, as the systems may stop: a thread in a destructor with
the mutex stops the table, and bounded operations and updates come to an end.

### Fairness

`PubSubManager`: as long as the server runs, gRPC completes a write it was given and
runs OnDone of a finished reactor; FileUpdateCallback, once entered, ends. Nobody has to
subscribe, publish or cancel. A server that a second Finish has ended (`aborted`) does
nothing more, and the liveness properties of it and of `MiniDFSServer` say so.
`MiniDFSServer`: a thread that was notified and is admitted runs (`LockWakesUp`), an
operation whose next step is possible takes it (`Proceeds`), OnDone runs (`Finishes`),
started writes and finished streams go on (`StreamGoesOn`, which leaves out the opening
and the cancelling of a stream). This is weak fairness, of each operation by itself;
nobody has to begin one, and spurious wakeups and vanishing clients are never required.
A condition variable is not fair between its waiters, so `LocksAreAnswered` is about
finitely many operations: with an endless supply of readers or writers one could wait
for ever.

`ClientThreads`: the watcher, every worker and the destructors go on while
the process lives; requests have no timeout in the code, so this assumes that they
are answered or that the system gives them up. Calls that fail, and locks that other
clients keep, are never required. `Desktop`: a frame that has begun goes
on; nobody has to begin one or to click.

### Findings

1. `AcquireWriteLock` returns false at `file_manager.cpp:38` (or throws at 27)
   after it has lowered `pending_writers`, without `notify_all`: readers that
   waited for this writer to be gone are not told. (`NoLostReaderWakeup`)
2. `Publish` erases the registration of the client that made the change
   (`pubsub_manager.cpp:36`). Its stream stays open and hears nothing any more.
   (`SubscribersAreNotified`)
3. `FetchFile` keeps its read lock when the download ends well
   (`minidfs_impl.cpp:298`); the next upload waits for ever. (`LocksAreAnswered`)
4. An existing file is never truncated, so a shorter upload leaves the end of the
   longer one (`file_manager.cpp:31`). (`StoresReplace`)

### Known limits of the code that the properties leave room for

- A lock is left behind by an upload of an empty file (the reactor learns the
  client and the path from the first chunk), by a failed write, by a local file
  that does not open, by a removal of a missing file (`has_writer` stays set) and
  by a client that vanishes before its first chunk. `IdleClientsHoldNothing` and
  `LocksAreAnswered` allow for uploads without a chunk by name, and are checked where
  nothing is removed and the system does not fail.
- With removals, a thread orphaned by one can go on without a lock. If operations
  share a client id as well, `ReadersCoverFetches` and `StoresAreWhole` fail: the
  orphan uses its namesake's session. They are checked without removals, or with
  an id for each operation. Within one process `ClientFileSession::mu` keeps the
  transfers of one path apart; two processes with one id have no such mutex.
- GetFileLock blocks a callback thread. With as many waiting calls as threads, the
  holder's upload cannot go on: `LocksAreAnswered` needs a `PoolSize` greater than
  the number of calls that can wait at once.
- Two changes can be announced with the same version, as it is read when the
  update is queued. `VersionsInOrder` is not strict.
- A reader may be counted more than once or after it has left; then no writer is
  admitted any more. Safety holds, progress of that file is lost.
- A client that goes while an update is being written can bring about both
  `OnWriteDone(false)` and `OnCancel`, and each calls Finish (`minidfs_impl.cpp:346`,
  `362`): gRPC ends the server (`aborted`).
- The publisher of a change that has a stream may keep any other stream from hearing
  of it (`pubsub_manager.cpp:36`).
- A call of the watcher that fails is not made again (`file_sync.cpp:13`), with the
  server down as with DATA_LOSS; the change is lost until the file changes once more.
  A file that becomes shorter never becomes equal at the server (finding 4).
- The watcher waits for ever for a lock it left itself: after a file that did not
  open, an empty one, a removal of a file the server does not have, or a failed call. It
  does so, too, for one that another client keeps, as each does that downloaded the file
  (finding 3). Then the Windows destructor waits for ever too (`FS!Blocked` in
  `ApplicationEnds`).
- On Windows only new files are stored; changes and removals are not handled
  (`file_sync_win.cpp:109`). `ChangesAreNotLost` is about the Mac. Renamed files are
  not stored on either.
- A place that `go_back` cannot read is lost from the history, and the current one
  stands there twice (`Trail`). A navigation that fails otherwise changes nothing.
- `create_file` makes a file also for "Create Folder", empties one of that name, and
  the listing is not read again. Choosing the workspace that is chosen does nothing,
  though the explorer may show the client's mount instead.
- A refresh that was under way when its account was deleted stores the row again
  (`token.go:181`); `GoneStaysGone` counts it as not yet gone. An account that is
  listed without a token keeps that entry when the user signs in again, until it is
  removed (`services_state.cpp:66`). When the proxy has no row its answer is `null`,
  which is shown as an invalid response. A late 401 for an old token closes a
  connection that was added again meanwhile.
- A profile gives an account of an old row the id of Graph (`services_state.cpp:245`). If
  that is listed already the old card disappears into it. Removing the new card deletes
  the row under Graph's id; the old row stays, and its account is back at the next check.
  Without an id the account is under the empty one, which has no card and cannot be
  removed.
- `json.value("mail", std::string(""))` throws on `"mail": null`
  (`services_state.cpp:242`), where a comment says that the principal name takes the place
  of an empty e-mail (248). Such an account is never loaded, and every frame starts a
  thread that fetches its profile again.
- `error_msg` and `ms_auth_error` of ServicesState are read by the interface without
  the mutex that the threads hold when they write them; detached threads outlive
  ServicesState at the end of the program.
- A setup that throws leads into the main loop after the cleanup
  (`application.cpp:18`), where the next frame fails for want of a context; one that
  throws before the window is made fails in the cleanup itself.
- A Mac's destructor does not wait for a callback under way (`CallbackCrashes`).

## 4. What is proved

For all values of the constants that satisfy the assumptions, `Spec` of each module
keeps

| Module | Theorem | Property | Under a hypothesis |
|---|---|---|---|
| `FileManagerProofs` | `Invariance` | `IInv`, the inductive invariant | |
| | `TypeCorrectness` | `TypeOK` | |
| | `Exclusion` | `MutualExclusion` | |
| | `Accounting` | `CountsCoverSessions` | |
| | `PendingWriters` | `PendingWritersCounted` | |
| | `OpenHandles` | `HandlesHaveFiles` | |
| | `WritersAreWoken` | `NoLostWriterWakeup` | |
| | `ReadersAreUndisturbed` | `ReadersSeeOneFile` | |
| | `SessionsEndOneByOne` | `OneSessionEndsAtATime` | |
| | `ReadersGiveWay` | `ReadersYieldToWriters` | |
| | `TableImplementsStore` | `ImplementsLockedStore`, the refinement | |
| `PubSubManagerProofs` | `Invariance` | `IInv` | |
| | `TypeCorrectness` | `TypeOK` | |
| | `RegisteredAreAlive` | `NoDanglingReactor` | |
| | `WritingGoesOn` | `QueueIsBeingWritten` | |
| | `VersionsAreInOrder` | `VersionsInOrder` | |
| `MiniDFSServerProofs` | `TypeCorrectness` | `TypeOK` | |
| | `OperationsUseTheTable` | the specification of FileManager, so all that is proved of it | |
| | `DownloadsAreSnapshots` | `FetchesAreSnapshots` | `Alone` |
| | `UploadsAreWhole` | `StoresAreWhole` | `Alone` |
| | `DownloadsAreCounted` | `ReadersCoverFetches` | no removals |
| | `UploadsLeaveNothing` | `IdleClientsHoldNothing` | `OnlyUploads` |
| `WorkerPoolProofs` | `TypeCorrectness` | `TypeOK` | |
| | `Wakefulness` | `NobodyOversleeps` | |
| | `TasksAreRunOnce` | `TasksAreKeptOnce` | |
| `ClientThreadsProofs` | `TypeCorrectness` | `TypeOK` | |
| | `PoolIsWakeful` | `NobodyOversleeps` | |
| | `PoolKeepsTasksOnce` | `TasksAreKeptOnce` | |
| | `UploadsReportTruly` | `UploadsAreReported` | |
| | `ChangesReachTheWatcher` | `ChangesAreNotLost` | `Room` |
| `AccountsProofs` | `Invariance` | `IInv` | |
| | `TypeCorrectness` | `TypeOK` | |
| | `LoadingIsWatched` | `LoadingHasAThread` | |
| | `RemovalIsTheUsers` | `OnlyTheUserRemoves` | |
| | `SessionsCloseExpired` | `OnlyExpiredSessionsClose` | |
| | `GoneUntilSignIn` | `GoneStaysGone` | |
| `ExplorerProofs` | `TypeCorrectness` | `TypeOK` | |
| | `SelectionShown` | `SelectionIsShown` | |
| | `HistoryImplementsTrail` | `ImplementsTrail`, the refinement | |
| `DesktopProofs` | `TypeCorrectness` | `TypeOK` | |
| | `ExplorerRuns` | the specification of Explorer, so all that is proved of it | |
| | `SelectionStaysShown` | `SelectionIsShown` | |
| | `HistoryStaysATrail` | `ImplementsTrail` | |
| | `FramesShowAView` | the safety of `FramesShowAViewAndEnd` | |

### The lock table

**Assumptions.** Clients and threads are finite sets (`FiniteAssumption`), as
cardinalities are compared; faulty files are files; the reader's counter has a
positive greatest value; an absent file is no sequence of chunks.

**Invariant.** `MutualExclusion` is not inductive. Whether a writer may enter is
decided by `has_writer` and `readers`, so these must never claim less than the
sessions (`CountsCoverSessions`), also for the FileLock that a path would be given
anew (`NewLocksAreFree`). `pending_writers` stays a natural number because it is
the number of threads that will lower it (`PendingWritersCounted`), which needs
that a waiting thread's FileLock is in the table (`WaitersHaveLocks`), or erasing
one would leave a thread that lowers a counter of its successor. With
`HandlesHaveFiles` this is `IInv`. There is one lemma for each action.
`TableAtFile` reduces the table to the one file an action touches
(`FileInv`), and `QueueUnchanged` disposes of the actions that leave the queue
alone. The delicate steps are the releases: a reader's session erased by
ReleaseWriteLock resets `has_writer`, which is sound only as a file with a reader
has no writer; a writer's session erased by ReleaseReadLock lowers `readers`, which
may wrap around, but then there is no reader to cover.

**Steps and refinement.** `Effect(c, f)` says what a call of client c may do to the
sessions and the content of a file f, and the effect of every step of a thread is
one (`ThreadStepEffect`). The properties of steps follow from it and `IInv`:
where a file has a reader there is no writer whose call could change it, and where a
writer waits, `pending_writers` is positive and readers are not admitted. By
`EffectMapped` an effect is a step of LockedStore under the mapping, or none. What
only moves the queue (notifications, waits, spurious wakeups) leaves sessions and
files alone and is a stutter.

**Wakeups.** `NoLostWriterWakeup` is kept by the steps that release a file because
they notify all who wait for it, and by those that take one because they take it
from writers too (`EntersExcludes`). `WritersStayExcluded` is the condition for both.
That a refused writer lowers `pending_writers` without a notification does not
matter to writers, whose admission does not depend on it; readers are another matter
(finding 1).

### The registry and the streams

**Assumptions.** No reactor is the absent one; the number of changes is bounded by a
number. Nothing is assumed of how many clients and streams there are.

**Argument.** A registered reactor is alive because a client's entry is a stream of its
own, and a reactor is deleted only after its `Unsubscribe` found the client without an
entry or erased whatever it was; a reactor that is subscribed again while another one is
unsubscribed may lose its entry, but not its life. Nothing is queued for a stream before
it is registered (`NothingBeforeSubscribing`). For the order of versions, every queued
one is at most `version_`, so what is appended is behind all of them (`Ordered`).
`QueueIsBeingWritten` needs only that NotifyUpdate starts a write when it finds the
queue empty, and that OnWriteDone starts the next one unless it leaves it empty.

### The operations of the server

**Assumptions.** Those of the two parts, and that every operation has a client, every
local file is absent or a sequence of at most `MaxChunks` chunks, and a change
without a client (`NoClient`) is none of the clients'.

**Argument.** `IInv` is that of FileManager, that of PubSubManager, the types, and for
each operation `InStep`: it is `locking` exactly when its thread waits in the lock table,
for the call it made. Each step calls an action of FileManager, or of
PubSubManager, or neither (`TableStep`, `StepOfGood`), so the invariants of the parts
are kept by their own theorems, and every behaviour is one of FileManager's
(`OperationsUseTheTable`). The prover takes an operator of the instance the model uses
and that of the proof module's instance for two, so a lemma `...Same` says of each pair
that they are equal. The rest is proved from invariants on top of `IInv`:

- `TransfersInv`: what an upload has written, and what a download has got, is the
  beginning of the file while its client has its session. This needs `Alone`: no two
  operations share a client id, else the session that protects the file may be
  another's (see *Known limits*).
- `CoverInv`: no wait is orphaned, and `readers` covers the downloads that have their
  lock. It holds for shared ids too, but only without removals: an orphaned wait can
  release what it never had.
- `HoldInv`: a session is a writer's, of an upload that has not released it, or will
  never, as no chunk of it came. This is so where there are only uploads, each of a
  thread of its own, and the system does not fail (`OnlyUploads`), with any local files
  and clients that vanish; a download, a removal and a failure each leave something else
  behind (*Known limits*).

### The threads of the client

**Assumptions.** Tasks are none of the words for a worker's other states
(`PoolAssumption`); those of the watcher and the uploads are types.

**The pool.** `NobodyOversleeps` with the types and the link between `stop` and the
owner's progress is inductive: a worker goes to wait only when the queue is empty and
`stop` is not set, and whoever changes either is still to notify. `TasksAreKeptOnce`
counts places; what is proved by induction is `Places`, without cardinalities: a task
stands in the queue at one place at most, runs with one worker at most, never both,
and has a place exactly while it is added and has no outcome.

**The client as a whole.** `StepOfParts`: each step is one of the watcher, the pool or
the uploads and leaves the other two alone, except a crash of the process, after
which nothing moves. So the invariants of the pool are kept as WorkerPool keeps them.

**Uploads.** `UploadInv` ties what the client has counted to what the session has, in
each phase of the loop: equal before a chunk is sent and when it was refused, behind by
the chunk once it is accepted. The session is whole only when its last byte has been
taken. `UploadsAreReported` follows for any sizes.

**The watcher on a Mac.** `MacInv` says for each file (those that were renamed apart, as
the property does) what must be so for a change not to be lost: the notices with the
flags that lead to a removal are about a file that is gone, or that is in a later notice
(`RemovalsAreTrue`); what the watcher has read is the file's content or there is a
notice that came after (`ReadAnew`); and a file that differs from the server's is in a
notice that will store it, or being stored, or `MayBeLost` (`NotLost`). Calls may fail at
any of their steps (`FailuresHold`): a failure puts the path among the failed ones, and
only a later call that does its work takes it out, by storing what is then read or by
removing what is gone. A call that is given its lock and cannot open the file finds it
gone, as on a Mac every name opens.
`Room` says that a stream has room for a notice of each path, which is all it ever
holds as notices of a path are merged. `Capacity` is a bound of the Windows buffer; the
Mac's stream has none in the code.

### The accounts

**Assumptions.** `NoAccount` is no account (`AccountsAssumption`), the id that Graph
gives is an account that Graph knows by its id, or none (`GraphAssumption`), the bound
of tokens is positive.

**Argument.** The types do not suffice. `LoadingHasAThread` needs that a token belongs
to the accounts an id may stand for, in a connection, a row or a thread (else a refresh
could end another account's loading), and what a thread holds at each step, as a thread
that has begun looks up its account by the token it was given. A profile may bring an
account's token under another id; but such a connection is loaded, so one that is not
holds a token of its own (`ConnectionHolds`), and a thread that was begun for it finds it
again and no other (`CardsWatched`). `OnlyExpiredSessionsClose` needs that a thread
which asks for a refresh, or has been refused, got there by a token that had expired, of
the account or of one that Graph calls so (`HasExpired`). The properties of steps follow
with one lemma per action; `Moves` is the only one that takes an account from the list
besides the user's, and `RemovalIsTheUsers` shows where it is then.

### The explorer and the main thread

**Assumptions.** Canonical paths are directories, typed and stored ones are paths, the
empty path is neither (`ExplorerAssumption`); the views that are registered, and
those the panels switch to, are members of the enumeration (`ViewsAssumption`).

**Argument.** The history holds directories only and is empty as long as there is no
current path (`HistoryOK`); then each of `Remembers`, `GoBack` and `GoForward` is a
`Visit` or a `Step` of `Trail`, by what `Append`, `Front`, `Last` and `Reverse` do to
the concatenation `Visited`. Each step of the main thread is a step of Explorer or
leaves its variables alone (`ExplorerRuns`), so selection and trail are as in Explorer.
`ViewsInv` is about the frames: there are some only in the main loop, where the registry
shows a view of its own (`LoopShowsViews`), and its mutex is held exactly while the view
is taken (`LockedToTakeView`), so a panel that calls `switch_view` finds it free.

### Only model-checked

Liveness, which is out of the prover's reach, as is ENABLED: `UpdatesArrive`,
`StreamsEnd`, `LocksAreAnswered`, `UploadsReachSubscribers`,
`NoticedFilesAreStored`, `ApplicationEnds`, and that frames end. The properties of the
runs that refute them (*Findings*) are false. What recursive definitions compute for
every input is induction over data and stays with TLC; the modules the theorems are
about define none.

## 5. What is not modelled

- `ListFiles`, `ResolvePath`, `VirtualPath`, `GetFileHash` and logging change no
  state. `ReleaseAllLocks` is private and used by a test fixture only;
  `SetVersion` is never called.
- The client's table of local sessions. Transfers of one process on one path
  exclude each other after the lock is held; the model lets them interleave.
- What gRPC does at a second Finish of a reactor is taken to be its assertion, which
  ends the server; the alternatives of a build without it are not distinguished.
- The unsynchronised read of the registry by `Subscribe` and `Unsubscribe` is taken
  to return the state before or after a change, not a torn one.
- Directories among the watched files; a `ReadDirectoryChangesW` that fails, which
  throws out of its thread; more than one path that becomes the same canonical path
  later; paths of more than 511 bytes, which `strncpy` cuts.
- For the watcher: a server that is restarted, which would forget its locks, and other
  clients that change the content of the files it stores.
- Spurious wakeups of the pool's workers: they look at the queue and wait again.
- Progress, queue and lock of `FileSidebarState` for uploads: no code uses them, and
  the panel asks for files and drops them (`file_sidebar_panel.cpp:380`). That a task
  is an upload is what they are declared for.
- Messages (`status_message`, `success_msg`, texts of errors) and flags that nothing
  reads or that are only set while the main thread waits (`is_loading`, `is_hidden`,
  `is_submitting`, `is_fetching`). The error of the services panel is one of them: it
  asks for "OK" before the next click.
- `open_file` and the links to the terms start other programs.
- `mark_disconnected` is never called, `fetch_token` has no definition.
- UIRegistry; the setup panel, whose view is registered nowhere; LinuxApp, which
  `main.cpp` refuses to build; AssetManager, EnvManager, FilePicker and the drawing of
  all panels.
- The rest of the proxy, see the plan: TSBase is modelled next; the handlers of users,
  files and workspaces are one statement each.

## 6. Plan

Done: `LockedStore`, `FileManager`, `PubSubManager`, `MiniDFSServer`; `Accounts`;
`FileSync`, `WorkerPool`, `ChunkedUpload` under `ClientThreads`; `Explorer` and `Views`
under `Desktop`; the theorems of section 4.

Next theorems: that the server's steps are steps of PubSubManager (with a client that
makes changes without a stream); `FetchesAreSnapshots` and `StoresAreWhole` for shared
client ids where there are no removals; the safety part of `ApplicationEnds`: when it
ends, every task has its outcome and no worker is left.

Next modules, in this order:

1. `Peers`: the watcher of TSBase, its peer map, GetServerPeer and the devices
   (`src/proxy/core/tsbase/tsbase.go`, `src/proxy/api/devices.go`).
2. The client's session table (`minidfs_client.cpp:175-196`), as a part of
   `MiniDFSServer`.
3. `FileSync` over `MiniDFSServer` in place of `held` and `extent`, to see two clients
   with a watcher each, which change the same files.
4. AssetManager and EnvManager, with the detached threads that read the environment
   while it is loaded.
