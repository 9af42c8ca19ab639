# Verification of the Drag[en]gine remote launcher

TLA+ specifications of `deremotelauncher`, TLC configurations that check them on
small instances, and theorems checked by TLAPS. File names below are relative to
`src/shared/src/` unless they begin with `src/`.

## The system

A *server* (the editor's side, `derlServer`) keeps a data directory. A *launcher*
(`derlLauncherClient`) on another machine connects to it. The server makes the
launcher's directory equal to its own and then starts an application there.

| Part | State | Operations | Hard because |
|---|---|---|---|
| Remote client `derlRemoteClient` (one per launcher, on the server) | the sync task, status, two file layouts, queue of pending tasks, processor threads | `Synchronize`, `Update`, `SucceedSynchronization`, `FailSynchronization`, `Start-`/`StopTaskProcessors` | its state is shared by the thread calling `Update()` and the processors, under four mutexes, some reads under none |
| Connection `internal/derlRemoteClientConnection` | queues of messages, counters of files and blocks in progress | one handler per response, `SendNextWriteRequests` | responses in any order, late responses, limits, two threads sending |
| Server processor `processor/derlTaskProcessorRemoteClient` | the task at hand | build layout, prepare hashing, prepare writing, read block | works on a sync task that may fail at the same time |
| Sync task `task/derlTaskSyncClient` with file and block tasks | status of the attempt, of every file, of every block | changed by all of the above | three nested state machines that must agree |
| Pending task queue (both sides) | queue, mutex, condition variable, exit flags | push, notify, clear, wait, scan, join | sleep and wake-up, exit, clear |
| Launcher client, connection, processor (`derlLauncherClient`, `internal/derlLauncherClientConnection`, `processor/derlTaskProcessorLauncherClient`) | queue, layout and its dirty flag, file tasks, open file, run status | `ConnectTo`, `Disconnect`, `Update`, one handler per request, file operations | a layout trusted across attempts and connections; operations fail one by one |
| Server socket `derlServer`, `internal/derlServerServer` | list of clients | accept, remove | connect and disconnect in the middle of all this |
| Run status | status and run parameters on both sides | start, stop, kill | reported by messages, set by two threads |
| Desktop launcher `src/launcher/desktop` | process, window, log | start, stop, pulse | window thread and client thread wait for each other |

The parts interact by messages (server and launcher, through `denetwork`: reliable
and ordered), by shared state (the thread calling `Update()` and the processors of
one side) and by callbacks (`OnSynchronizeFinished`, `OnFileLayoutChanged`).

What makes them correct:

* queue: each task pushed is run once or dropped by a clear, never twice; nobody
  sleeps while there is something to do; stopping the processors returns;
* synchronisation: `ready` is said only when the launcher has the server's files;
  every synchronisation ends; the status fits the sync task; no answer to an
  aborted attempt disturbs the next; limits are kept and used;
* server: a client is told of its connection in order, leaves the list after its threads,
  and does leave it;
* launcher: each request is answered once; a task runs against the layout it was
  made for; the layout reported is that of the files;
* run status: what the server shows is what the application does.

## Modules

| Module | Content |
|---|---|
| `TaskQueue` | the pending task queue and the processor threads: who sleeps, who is woken, who exits |
| `TaskQueueProofs` | its theorems |
| `MCTaskQueue` | its instance for TLC |
| `RemoteClient` | the server's side of a synchronisation: `derlRemoteClient`, its connection, its processors |
| `RemoteClientProofs` | its types, the order of blocks, its counters, one attempt after the other: theorems |
| `RemoteClientReady` | who moves on, messages and files, with one processor: an attempt never stalls, `ready` is the truth, and `SyncLifecycle` is implemented |
| `MCRemoteClient` | its instances for TLC |
| `LauncherClient` | the launcher's side: `derlLauncherClient`, its connection, its processors |
| `LauncherClientProofs` | its types, requests for the layout, the places of requests, the truth of layout and answers, success: theorems |
| `MCLauncherClient` | its instances for TLC |
| `SyncLifecycle` | abstract: what a synchronisation promises to the application |
| `Session` | `RemoteClient` and `LauncherClient` composed over a network; each is shown to keep what the other assumes of it, both together to implement `SyncLifecycle` |
| `SessionProofs` | the two sides against each other: the types of both, and requests for the layout |
| `MCSession` | its instances for TLC |
| `Connection` | the server: taking launchers, its update over all clients, closing by either side, the threads of a client |
| `ConnectionProofs` | its theorems |
| `MCConnection` | its instances for TLC |
| `Desktop` | the desktop launcher: requests to run the application, the run status, the window and its channel |
| `DesktopProofs` | its theorems |
| `MCDesktop` | its instances for TLC |
| `SequenceFacts` | lemmas about queues: appending, taking the first, erasing one; used by the modules of theorems |

`TaskQueue` looks at the queue alone and lets tasks become eligible and queues be
cleared at any time; `RemoteClient` looks at what the tasks do and takes a queue that
hands each task to one processor, which is what `TaskQueue` establishes.

### TaskQueue

Variables: `pc` (where every thread is), `exit` (`pExit`), `tasks` (`pPendingTasks`),
`eligible` (what `NextPendingTask()` would accept), `running`; `dropped`, `finished`
and `starts` are history. A section under `pMutexPendingTasks` is one step. What
happens outside of it is a step of its own: the test of `pExit`, the notification
after a push, raising the exit flags. A waiter is asleep (`wait`) or has been woken
and competes for the mutex (`woken`). Spurious wake-ups are allowed and not fair.

### RemoteClient

Threads: `Main` calls `Update()` and `Synchronize()` (as the test server does,
`src/testing/src/server/main.cpp` 73-140); each member of `Procs` runs a processor.
A step is the code between two points where another thread can get in: a critical
section, or the code between two. `pc` names these points. The mutex of a sync task
is held across several steps only in the loops that queue messages (`hash`, `delete`,
`send`), since `Update()` may send the first message before the loop ends; `Free`
says that no loop holds it.

| Variable | Code |
|---|---|
| `taskSync`, `syncStatus`, `layoutServer`, `layoutClient`, `pending` | the members of `derlRemoteClient` |
| `task[s]` | the `derlTaskSyncClient` of attempt `s`: status, which layouts are still wanted, the launcher's layout object, and the hash, delete and write tasks by path |
| `countFiles`, `countBlocks`, `queueSend`, `queueReceived` | the members of the connection |
| `pc`, `sync`, `todo`, `arg` | a thread's place, its sync task, the rest of its loop, its message or task |
| `wire`, `files` | requests the launcher has not answered, the launcher's files |

An attempt to synchronise has a number, so that an old sync task still referred to
by a thread is not mistaken for the present one. `layoutClient` is the number of the
attempt whose task owns the layout object: `pFileLayoutClient` is a shared reference
to it, and hashes are written through that reference. The attempt in a message is
not sent by the code and no guard of the code's actions reads it.

A file is the sequence of its blocks; equal hash is equal content, equal size is
equal length. The server's directory does not change during a run.

*The launcher is external here*: it answers each request once, requests outstanding
together in any order, which is more than the real one does (its network is ordered,
its processors are not). It refuses where `Faults` says so, and refuses to finish a
file with the wrong content; a request refused changes nothing. Block requests write
what the server sent.

Where the model is not literal:

* A `derlFileLayout::Ref` null at derlRemoteClientConnection.cpp:934 crashes the
  process; the model lets the thread fail the synchronisation.
* A block task refers to its file task by plain reference. Reading through it after
  the file task is gone is undefined; a read that succeeds or fails stands for it.
* When `ProcessPrepareHashing()` fails, the second test of the status in `RunTask()`
  is left out: the status is not `prepareTasksWriting` then.
* `PopAll()` and a loop of `Pop()` are the same here: one message per step.

### LauncherClient

`Main` calls `Update()`, and between two calls `ConnectTo()` and `Disconnect()`, which
the applications serialise with it; each member of `Procs` runs a processor. The code
starts one processor, and its header invites more. Within `Update()`, `pc[Main]` goes
through its four calls in their order; a message is handled in one step unless the code
lets go of a mutex on the way (`recut`, `push`). A processor's steps are its file
operation, its change to the layout, `SetDirtyFileLayoutSync()` and its answer.

| Variable | Code |
|---|---|
| `layout`, `nextLayout`, `dirty`, `pendingRequest`, `pending` | `pFileLayout`, `pNextFileLayout`, `pDirtyFileLayout`, `pPendingRequestLayout`, `pPendingTasks` |
| `content[a]` | the layout object built for attempt `a`; the references above are attempts |
| `writeTasks`, `fileWrite` | `pWriteFileTasks`, and the file tasks themselves |
| `queueSend`, `queueReceived` | the connection's queues; a task is the request it comes from |
| `conn`, `running`, `exit` | the connection and `pConnectionAccepted`, `pTaskProcessorsRunning`, `pExit` |
| `disk` | the data directory |
| `srv` | the server: its attempt, the answers it has, the requests sent and open |

A file is a sequence of blocks, with `Hole` for a block never written. `CalcFileHash()`
reads as much of a file as it shall have, `OpenFile()` looks for the file before it
opens it, a write that fails leaves anything in its block.

The server here is `RemoteClient` reduced to its requests: it sends them in any order
its limits could give, believes the first answer that names the path and block, and
gives up at a reported failure. It begins an attempt when the last one is over, or,
with the fault `server`, at any time.

`Faults` says what may happen: `disk` (a file operation fails), `build` (the layout
cannot be built), `close` (the connection closes), `address` (`ConnectTo()` throws),
`server`, and `cut` (a processor that has to exit leaves the layout unfinished).

Where the model is not literal:

* A file task stays in `fileWrite` when the code has freed it, so that behaviours go on
  after `ParentAlive` fails as if the memory were intact.
* `ProcessFileBlockHashes()` stores block hashes in the layout, and no code sets the flag
  under which they would be read again: only the presence of the file matters.
* `pSendResponseFileLayout()` iterates over the layout without its mutex, and
  `NextPendingTask()` reads `pFileLayout` without the one it is written under. Both are
  data races; a copy and a read of the old or the new reference stand for them.
* A processor that finds no eligible task in a filled queue scans it again and again.
  Here it waits for one. Sleeping and waking is `TaskQueue`.
* `ConnectTo()` starts the processors, and when the address is bad stops them again; both
  are one step here, which ends where the threads are joined. A processor that has started
  in between finds no more to do than it finds before it sees `exit`.

### SyncLifecycle

Two variables, `status` (`pSynchronizeStatus`) and `files` (the launcher's data
directory). A synchronisation begins unless one is under way, works, and succeeds or
fails. It succeeds only with the server's files. Work may add or change files the server
has and remove others, and goes on after a failure, since requests on their way are
still carried out; after success, and before the next beginning, nothing changes.

### Session

`Session` extends `RemoteClient`, whose variables are the server's, and has an instance
`Launcher` of `LauncherClient`. `toLauncher` and `toServer` are the network, which keeps
the order of reliable messages and loses none. Every step is a step of one of the two
models, with the environment it had there replaced by the other side:

| Step | Environment replaced |
|---|---|
| `SendRequests`, `ReceiveRequest` | `LauncherClient`'s `SendRequest` of its abstract server |
| `SendAnswers`, `ReceiveAnswer` | `RemoteClient`'s `Answer` of its abstract launcher |
| `SynchronizeClient` | `BeginAttempt` |

The variables by which a model knows its other side (`wire` and `files`, `srv`) stay as
auxiliary variables. No step of the other side reads them; they are there to state the
refinements:

* `ServerKeepsPromises` is `LauncherClient`'s specification, instance `Launcher`: the
  real server sends only what the abstract one could;
* `LauncherKeepsPromises` is `RemoteClient`'s specification, with the answers under way
  appended to `queueReceived` (for the server an answer has arrived when the launcher
  queues it);
* `Lifecycle` is `SyncLifecycle`'s specification, with `status` the server's and `files`
  the launcher's disk.

The first two hold without failures. With failures of the server the second attempt may
take the late answer to the first one's layout request as its own, which
`LauncherClient`'s server is not made to do; `Lifecycle` holds over failures of both.
The connection lasts; closing is in `LauncherClient` and `Connection`.

### Connection

The updater is at `pc` in `derlServer::Update()`; `cur`, `todo` and `closed` are the
variables of its loop. The application acts between two updates, in its own `Update()`
after that of the base class (`pc = "after"`, as `src/testing/src/server/main.cpp` does),
or on another thread.

| Variable | Code |
|---|---|
| `listening` | `denServer::IsListening()`; the server listens once |
| `waiting` | where the application is with `WaitAllClientsDisconnected()`: not called, waits, returned, left by an exception |
| `conn`, `client`, `clients` | the state of a connection, whether it has a `derlRemoteClient`, `pClients` |
| `queued`, `total` | length of `pQueueSend`; `total` bounds it |
| `notifyEstablished`, `notifyClosed` | `pNotifyConnectionEstablished`, `pNotifyConnectionClosed` |
| `running`, `exit`, `proc` | `pTaskProcessorsRunning`, `pExit`, the thread of the one processor |
| `syncStatus` | `pSynchronizeStatus` |
| `told`, `late` | history: the callbacks, and the connections the application closed at `after` |

What the processor and the handlers do is `RemoteClient`; here they queue messages and
decide a synchronisation. `Happens` says what may happen: `remote` (the launcher closes,
or the connection fails), `stop` (`StopListening()`), `between`, `late` and `thread`
(`Disconnect()` from the three places above).

Clients found disconnected are erased at the end of the loop, one per step, in any order
(`EraseClosed`); `EndUpdate` is the return.

The library throws when a message is sent over a closed connection. Nothing in the server
catches this, so it leaves `Update()`, and `WaitAllClientsDisconnected()` too when that has
made the call (`LeavesWait`). What comes next is the application's: here it catches the
exception and goes on with the next update, or waits again. The test server does not
catch it in its loop (`src/testing/src/server/main.cpp`); `ClosedIsRemoved` is about an
application that does. While it waits the application does nothing else on that thread
but what is in its own `Update()`.

Where the model is not literal: the handler of the first message is one step, for it
holds `derlGlobal::mutexNetwork`.

### Desktop

Three threads: `Updater` calls `Update()` without end, holding `pMutexClient`; `Window`
runs the user interface; `Preparer` prepares the launcher and ends. `todo[t]` is what is
left of the function a thread is in, as a sequence of the places where it can wait: a
message to post, a lock, a thread to join. Code between two such places is one step,
with the earlier one.

| Variable | Code |
|---|---|
| `holder` | the owner of `Client::pMutexClient`; `derlGlobal::mutexNetwork` stays locked from step to step only in a callback (`NetworkFree`) |
| `channel`, `buttons` | `pMessageChannel`, which of the two buttons is enabled |
| `state`, `game` | `Launcher::pState`, and whether the process lives |
| `ran`, `last`, `defied` | history: what `RunGame()` has run since the link was made, the last request, whether the last stop or kill handled threw and left the game running |
| `conn`, `wire`, `received` | the connection, requests under way, `pQueueReceived` |
| `value`, `changed`, `updates`, `known` | the launcher's `pValueRunStatus`, the link's, the server's value |

The client's messages and the network's come in `FrameUpdate`, which is left to do as
`messages`, then `network`; messages are handled one by one, those received before the
connection closed as well (`ProcessReceivedMessages`).

The network delivers in order; a link starts with the server's value, `stopped`, and
sends a value set to something else with the next `Update()`. Requests handled here are
those about the application; of the log, only its lines about these requests, and of
`RunGame()` only how it ends. Synchronisation is `LauncherClient`; `SendLog()` counts
as a lock to wait for. `Faults` says what may happen: `prepare`, `address`, `refuse`, `close`,
`start` (`RunGame()` throws), `profile` (the profile is not valid), `stop` (`StopGame()` or
`KillGame()` of the game throws), `exit` (the game ends). `Launcher` forgets the game only
after it has stopped it, and the window catches the exception: a stop or kill that throws
leaves the state `running` and the run status as it was (`StopThrows`).

## Runs

| Run | Instance | Shows |
|---|---|---|
| `queue` | 2 processors, 3 pushes, 2 starts | types, each task once, none lost, no sleeper forgotten, an eligible task is taken |
| `queue_stop` (violation) | 1 processor, 1 push | stopping can hang |
| `remote` | 1 processor, 3 launcher directories, all faults, 1 synchronisation | all invariants |
| `remote_leak` (violation) | see below | a way not to end |
| `launcher` | 1 processor, 3 directories, failing file operations, 1 attempt | types, requests in one place, true answers, true layout, true success, every request is answered or the attempt fails |
| `launcher_reconnect` | the same files, closing, bad address and a server that starts over, 2 attempts, 2 connects | no request lost, the layout request and the success across a reconnect |
| `launcher_cut` (violation) | see below | a success that is none |
| `desktop` | all faults, 2 requests, 2 connects, a channel that never fills | the last request wins unless it threw, no status without a run, buttons that fit, requests handled, the status catches up |
| `session` | 1 processor each, no failures, 4 launcher directories, 2 synchronisations | the two sides keep each other's assumptions, every synchronisation ends, the layout stays true |
| `session_retry` | a failing server and failing file operations, 4 directories, 2 synchronisations | `SyncLifecycle`, and the layout request, over attempts that meet |
| `session_empty_file` (violation) | an empty file, failing file operations, 2 synchronisations | a success without the file |
| `connection` | 2 launchers, 2 messages each, everything that may happen | threads gone, callbacks in order, clients told and removed, no wait without end |

Configurations that are not runs, for the findings named at them:
`MCRemoteClientTwoProcs` (two processors: counters, and exactly one to move on; it
passes), `MCRemoteClientHashRace`, `MCRemoteClientClear`, `MCRemoteClientTwoPrepare`,
`MCLauncherClientThrow`, `MCLauncherClientBuild`, `MCLauncherClientTwoProcs`,
`MCLauncherClientParent`, `MCRemoteClientLate`, `MCDesktopProfile`, `MCDesktopStuck` and, with `Connection`,
`MCConnectionUntold`, `MCConnectionThrow`, `MCConnectionWait` and `MCConnectionUndecided`
(each violates its invariant). `MCRemoteClientTwice`, `MCRemoteClientLive` and `MCLauncherClientRetry` (two
synchronisations of one side against the abstract other, every synchronisation of it
ends, two attempts on the launcher) pass; `session` and `session_retry` ask the same with
the two sides composed.

**Bounds.** For the remote client, the server has a file of three blocks and an empty one. Two blocks may
be in progress, so the file does not fit at once; one file may, so the second waits.
The launcher has nothing, or a shorter version of the file and one to delete, or a
version of equal size with two blocks to change: full and partial writes, hashing,
deleting and the empty file all occur. Two attempts are enough for an answer to be
late by one attempt; more attempts only repeat that, as no state but the counters
and the launcher's files outlives an attempt. `MaxSyncs` bounds the attempts,
`MaxStarts` the starts of the processors.

For the launcher, the server has one file of two blocks. The launcher has nothing, or
the file longer, or of equal size with one block wrong, the last two with a file to
delete: full and partial writes, truncation, hashing and deleting occur. Two blocks are
enough to lose one to the other and two attempts for tasks of one to meet the other.
`MaxConnects` bounds the connects.

In `session` the server has a file of two blocks and an empty one, the launcher nothing,
or the file longer, or changed, or right, the last three with a file to delete; in `session_retry`
the server has one file only, since failures of both sides multiply the orders. A second
synchronisation is enough for everything left of the first, on either side and on the
network, to meet it.

For the server two connections suffice: one to go while the other stays, before or
behind it in the list. One synchronisation and one message more per client can be queued
when the connection closes.

The runs of the queue, the remote client and the session have `CHECK_DEADLOCK FALSE`: the
application need not synchronise again and nobody needs to push a task, so these systems
may rest. `Update()` of the launcher is called for ever, and deadlock is checked, except
where the connection may close: a throw out of `Update()` is the end.

What holds with failing file operations and not otherwise: `LayoutTrue` is false when
the server starts over or reconnects while a layout is built, because a second build
is queued and its layout replaces one that has been changed meanwhile; the files so
listed are written once more, and `SynchronizedTruly` holds. `AnswersTrue` is for one
attempt: tasks left of an aborted one run after the layout of the next has been
answered. `RequestInOnePlace` fails when a retry takes the late answer to a write of the
last attempt as its own. With failing file operations *and* two attempts
`SynchronizedTruly` is false in one corner: a delete left of the first attempt fails,
takes the file out of the layout (derlTaskProcessorLauncherClient.cpp:253), and the
layout request is answered before the next line marks the layout dirty.

For the desktop launcher, a start and a stop are enough for one to overtake the other,
and two connects for what is left of one connection to meet the next. Three requests
give no violation of the invariants either. The channel of `desktop` holds more messages
than are ever posted; the one of `MCDesktopStuck` holds two, where the pipe of FOX holds some thousand:
a burst of log lines during one `Update()` takes its place.

**Fairness.** `Update()` is called on every frame (derlRemoteClient.h, `Update()`): the
actions of `Main` in it are weakly fair as one. A processor thread runs in a loop and
a mutex it waits for is handed over in the end. The launcher answers. Pushing,
clearing, stopping, synchronising and spurious wake-ups are not fair.

For the launcher, `Update()`, the network and each processor are weakly fair; connecting
and closing are not.

In `session` both updates and all processors are weakly fair, as before; the network's
deliveries are strongly fair, because one is possible in a part of the receiver's
`Update()` only, and a reliable message is delivered by one of them. That the launcher
connects or the server synchronises is not assumed. `SessionFinishes` excludes one
outcome: hashes that arrive before the sync task takes them (below), which is
`HashesLost`, for ever.

For `Connection` the update, by the application or by the wait, is weakly fair, and a processor told to exit exits. That
holds but for the hang of `queue_stop`, which belongs to the queue.

For the desktop launcher, the updater is weakly fair; the window's steps, taking a
message and the timer are strongly fair, since they wait for a mutex that another thread
locks again and again, and since its main loop serves both. Buttons, requests and the
end of a game are not fair.

`MCRemoteClientLive` leaves out the launcher directory that needs block hashes, because of
the finding below, and faults that would leave the counter raised.

### Findings

* **Stopping can hang** (`queue_stop`). A processor tests `pExit`, then
  `StopTaskProcessors()` raises it and notifies, then the processor locks the mutex and
  waits. Nobody notifies again.
* **Hashes can be dropped** (`MCRemoteClientHashRace.cfg`). The hash requests are queued before
  the sync task has the status that accepts the responses.
* **A failure uses up the limit** (`remote_leak`). Nothing lowers the count of files in
  progress when an attempt fails; with `pMaxInProgressFiles` files so lost, no later
  attempt writes any.
* **A failure can swallow the next attempt** (`MCRemoteClientClear.cfg`). The queue is cleared
  after the state is released.
* **Preparing twice** (`MCRemoteClientTwoPrepare.cfg`). With two processors the writing of one
  sync task can be prepared by both.

* **`Update()` throws after a close** (`MCLauncherClientThrow.cfg`). Answers queued when the
  connection closes are sent by the next call.
* **A failed layout build is forgotten** (`MCLauncherClientBuild.cfg`). Null replaces null, which is
  no change, so the pending request is never looked at again.
* **Half a layout** (`launcher_cut`). Stopping the processors ends the build early, with
  success; the next attempt trusts it, and can succeed with a file too long.
* **Two processors lose a block** (`MCLauncherClientTwoProcs.cfg`). Both create the file.
* **Window and updater wait for each other** (`MCDesktopStuck.cfg`). The updater posts to the
  window's channel with `pMutexClient` locked; when the channel is full it waits for the
  window, which waits for the mutex. Disconnecting makes the window post to itself.
* **Running without a game** (`MCDesktopProfile.cfg`). With an invalid profile `RunGame()`
  returns normally and `running` is reported, until the next pulse takes it back
  (`StatusCatchesUp` holds).
* **Ready without the file** (`session_empty_file`). The launcher cannot create an empty
  file. The server erases its block and fails the synchronisation
  (derlRemoteClientConnection.cpp:820), but a thread already on its way into
  `SendNextWriteRequests()` finds the file without blocks and asks to finish it. The
  launcher's check of an empty file opens no file, so the missing file enters the
  layout, and the next synchronisation believes it.
* **Closed without a word** (`MCConnectionUntold.cfg`). `OnConnectionClosed()` is for a
  connection closed "either by calling Disconnect() or by server" (derlRemoteClient.h:391).
  `Disconnect()` called in the application's `Update()` after the base class's, as the
  test server does, comes after the flag is looked at; `derlServer::Update()` removes the
  client next and the callback never comes. `ToldUnlessLate` shows that this is the only
  way. The header also says that the callback comes with `mutexNetwork` locked; it does
  not.
* **An update throws after a close** (`MCConnectionThrow.cfg`), on the server as on the
  launcher. The clients behind are left out once; `ClosedIsRemoved` shows that no client
  stays for ever when the application catches the exception and updates again.
* **The wait ends too early** (`MCConnectionWait.cfg`). The same exception leaves
  `WaitAllClientsDisconnected()` with clients in the list, which "waits for all clients to
  have disconnected" (derlServer.h:127). `WaitReturns` shows that waiting, and waiting again
  after each exception, ends; `TypeOK` that nobody is left when the wait returns.
* **A synchronisation without an end** (`MCConnectionUndecided.cfg`). `Synchronize()` after
  the connection has closed, and a close in the middle, leave the status `processing`.
* **A block outlives its file task** (`MCLauncherClientParent.cfg`). A retry replaces it while a
  block is queued.

`CountersExact` counts the files and blocks of *all* attempts, which is what makes it
hold; the leak is that the files of an aborted attempt are among them. While the limit
is one file, the leak also keeps the late answers of an aborted attempt from meeting a
file of the same name in progress; `MCRemoteClientTwice` is to be read with that in mind.
With room for two files they do meet (`MCRemoteClientLate`): an answer names path and
block but not the attempt, so a late answer to a write of a failed attempt stands for the
one just asked for, and blocks are sent while that request is still on its way.
`StagesInOrder` is false then; `ReadyMeansEqual` is not, see below.

## Proofs

Eight modules state theorems for every value of the constants, `SequenceFacts` the lemmas
about queues that they share.

`TaskQueueProofs`: the types together with `RunsItsTask` (a processor in `run`, or in
`notify`, has a task, and no other one has) are inductive. From them:
`TypeCorrect`, `TasksRunOnce` (`EachTaskOnce`), `NoTaskLost` (`NothingLost`),
`NoSleeperForgotten` (`NoLostWakeup`). `RunsItsTask` is needed because finishing and
taking overwrite `running`. `NoLostWakeup` is inductive with the types: a push moves
the pusher to `notify`, and a processor falls asleep only when the queue is empty.

`RemoteClientProofs`: `TypeCorrect` proves `TypeOK`, which contains `LimitsKept`, for any
number of processors, attempts and files. `TypeOK` is inductive as stated because it says
what a thread's argument is at each place, and that the paths a hashing loop visits are
the server's. `StartedInOrder` proves `BlocksStartInOrder`, inductive given the types: a
step removes blocks, changes one that is not pending, or starts the first pending ones.

`CountersAreExact` proves `CountersExact` for one task processor,
which is what the code starts (`pStartTaskProcessorCount(1)`, derlRemoteClient.cpp:43), any
limits, any number of attempts and failures. A count goes wrong if write tasks in
progress are replaced or an attempt's stage is set back. `StagesKept` says why neither
happens: there are no write tasks before the writing is prepared (`WritesComeLate`), the
processor prepares at the right stage (`PreparedInTime`), and the thread taking in hashes
moves to the next stage only while it is the one of the hashes (`HashesInTime`). With
`FinishedIsWritten` (a file asked to be finished has no block left, so that erasing it
erases none in progress) they make up `CountsInv`. With two processors
`MCRemoteClientTwoPrepare` prepares twice; `MCRemoteClientTwoProcs` shows counters that
stay exact on its small instance even so, which the theorem does not claim.

In the same module, `StatusIsTrue` proves `StatusMatchesTask` for one task processor,
any number of attempts and all faults. Only two functions set the status while the sync
task is neither set nor let go, `ProcessPrepareHashing()` and `ProcessPrepareWriting()`,
and they do it without its mutex: the attempt a processor prepares must be the one
present. That needs an account of all that works for an attempt, `AttemptInv`. Attempts
but the present one are over (`AttemptsOver`); `Update()` cannot end an attempt while it
is prepared, since no answer but the launcher's layout is taken then (`UpdateInTime`,
`DeletesComeLate`); the processor prepares the present attempt, and while hashes are
awaited it has nothing else to do (`PreparesAttempt`); a processor still sending for an old
attempt has not built the new layout (`SendsBeforeLayout`); and an attempt is queued only
once both layouts are there, behind all that is left of the attempts before it
(`QueuedInTime`). The last one is where the one processor counts: it takes tasks in the
order of the queue. With two, one prepares while the other ends the attempt, and the
status stays `processing` without a task (`MCRemoteClientTwoPrepare`).

`RemoteClientReady`: `AttemptsMoveOn` proves `SomebodyMovesOn` for one task processor in every behaviour with
`NoLateClear`: no thread is between letting go of an attempt it failed and clearing the
queue while the next has begun. The hypothesis is needed, since that clears away the next
attempt's task (`MCRemoteClientClear.cfg`); with one attempt it always holds, which
`OneAttemptMovesOn` proves (`ClearsAfterFailing`). On top of `AttemptInv`, `MoveInv` says
that the server's layout is at hand (`LayoutInHand`) or queued (`LayoutQueued`) only for
the attempt that waits for it; that the launcher's is asked for while it is waited for
(`LayoutAsked`) and finished once (`AnswerInHand`); that with both there the attempt is
queued or at hand exactly once (`QueuedOnce`); and that a processor that found nothing to
write ends that attempt and no other (`SucceedsItself`). Of these the queue's parts are
kept even by a late clear; only `LayoutComes`, that somebody builds the server's layout
while it is waited for, needs the hypothesis.

In the same module, `StagesComeInOrder` proves `StagesInOrder` for one task processor in
every behaviour with `AnswersInTime`: an answer received belongs to the attempt under way,
if there is one. The hypothesis is needed (`MCRemoteClientLate.cfg`); with one attempt it
always holds, which `OneAttemptInOrder` proves. `TravelInv` ties every request on its way
to the task it is about: it is there once (`OneCopy`), and its file, or block, has the
status that waits for it (`Backed`). A file has one status, so the requests about it are
of one kind.

`ReadyIsTrue` proves `ReadyMeansEqual` for one task processor and nothing else: any
number of attempts, every fault, answers in any order. Late answers do get mixed up, but
what they say stays true: a file equal to the server's can only be written with its own
content, only files the server has not are deleted (`DeletesOthers`), and none appears
but the server's. So `FilesInv` never has to say which attempt an answer belongs to. What
an answer (`AnswersTrue`) and the launcher's layout (`LayoutFits`) said to be right is
right; the delete tasks being made name every file too many (`DeletesComplete`); and from
then on what is not right has a task left (`FilesLeft`). An attempt succeeds when it has
no task left (`ReadyDone`), and it is not over in between (`StillOpen`). That the layout
read is the one of the attempt (`ClientOwn`, `OwnLayout`, `WantFirst`) rests on
`AttemptInv`. What the theorem takes from the launcher is `Answer`: it says a file is
finished only if it is, and lists what it has. `session_empty_file` is a launcher that does not.

`DoesAsPromised` proves that `RemoteClient` implements `SyncLifecycle`, with `syncStatus` for
`status` (instance `Promised`): each step is one of its actions or does not show.
Beginning and ending rest on `StatusMatchesTask`, success on `ReadyDone`. `Work` needs
that nothing is under way before the first attempt (`BeforeFirst`), that the files of a
`ready` launcher do not change, and that the launcher is asked to write only files the
server has (`WritesOwn`). `session_retry` checks the same with the real launcher in place of
`Answer`.

`LauncherClientProofs`: `TypeCorrect` proves `TypeOK` for any number of processors, attempts
and connects. `Typed` adds that a request about writing names a file the server has in
that attempt, that the request at hand fits the place a thread is at, and what the server
has asked for. `RequestServed` proves `LayoutRequestServed` for one processor (as started
by derlLauncherClient.cpp) without the fault `build`; with it the property is false
(`MCLauncherClientBuild.cfg`), and with two processors a file listed by one can be deleted
by the other. `ServedInv` adds that a waiting request with a layout present is about to
be answered, and that the files listed for the layout are still there while it is built.

In the same module, `RequestsInOnePlace` proves `RequestInOnePlace` for one attempt, any
number of processors and connects and all faults. The hypothesis `MaxAttempts = 1` is
needed: with a retry and failing file operations the property is false (see above). That a
request is somewhere exactly once, and the unanswered ones only (`PlacesInv`), is kept by
a step that moves a request; but `Update()` drops blocks and the end of a file that is not
being written. That this does not happen needs what is relied on, `WriteInv`: as long as the
server sends blocks of a file, will send them, or is about to be told that it may, the file
task is there and its status `processing`. A file's status is set back only by a new write
request or by the end of the file, and then nobody relies on it, because the server asks in
the order of the protocol (`AskInv`): nothing for a file before its write is answered, and
the end only after its blocks. `HandsEmpty` says that taking a request overwrites none.

`LayoutIsTrue`, `AnswersAreTrue` and `EndsSynchronized`, in the same module, prove `LayoutTrue`,
`AnswersTrue` and `SynchronizedTruly` for one attempt and without the fault `cut`, for any number
of processors and connects and all other faults. One attempt is needed: each of the three is
false in a corner of two (see above). With `cut` the layout is half the truth in the
first attempt already; what it does to a success comes with the second (`launcher_cut`).
The three come out of one inductive invariant, `TruthInv`, on top of `RequestsInv`:

* `LayoutInv`: the layout is asked for, built and answered once, and until its answer has
  gone nothing else is done. So the content of an answer to the layout request is the disk.
* `InOrder`: of two requests that are about at the same time (`Together`) none is a change
  while hashes are still to be read, and a file is opened, written and finished one after the
  other. While the connection lasts this is the server's order (`AskInv`); when it is gone, what
  is about only gets less (`ClosedInv`). `SentInv` says that the server writes the files
  that differ and deletes those it has not.
* `StatusInv`: the file task of a request to write is not there before the request is handled,
  and is there for every block. With it a write that fails or ends can be told from
  one not begun.
* `KnownInv`: the layout fits the disk at every path but where a task is between its change
  on disk and its change to the layout (`Unsettled`), or marks it dirty. A path not to be
  written yet fits even a dirty layout (`KnownUntilWritten`), which `Update()` needs when it
  cuts the entry of a file and puts it back (`PutBackTruly`).
* `ClaimsInv`: what an answer says, in the queue or in a processor's hands, is true of the disk
  (`Truly`); a file waiting to be opened will be cut or is not too long (`WaitingInv`).
* `ReliedInv`: what the server has been told is true still, as long as the attempt goes on;
  a file it neither writes nor deletes is what the layout said. Of a file with a block
  that failed the length is not claimed, since the server is going to hear of it
  (`BlockFailed`).

Two processors that create one file lose a block to each other, and these theorems hold even so:
the launcher checks the hash of a file before it says that it is finished.

`ConnectionProofs`: `ClientOutlivesThread` proves `ThreadsGone` for any number of launchers,
closed by whomever and whenever. It is not inductive: that the thread of a removed client
is off says nothing of a client about to be removed, nor that no thread is started
later. `ThreadInv` adds the types of what is involved and four facts: no client is found
disconnected before the loop begins (an exception empties the set); a thread is still to
be started only for a client in the list, and not for one in the rest of its update; a
client found disconnected has no thread but the one being joined. It needs no assumption.
`HeardInOrder` proves `CallbacksInOrder` from `ToldInv`, which says what the two flags of a
client promise: nothing is told before the thread is started, a close to be told belongs
to a closed connection and has not been told. It uses `ThreadInv` where the rest of an
update relies on the thread started before. `TypeCorrect` proves `TypeOK`: `Lists` says that
the list names every client present once, and that what the loop has still to visit and
to erase is in it, without which erasing would be out of range; `NobodyComes` that the
server accepts nobody once it has stopped listening, so that a wait that returned stays true. `NobodyGoesUnheard` proves
`ToldUnlessLate` from `GoneInv`: a connection closed, whose client has been told of it
being established, has a note of the close (`CloseNoted`), has been told, or was closed
late.

`SessionProofs`: what is proved of either side is carried over to the two together, where
its environment is the other side and not an assumption. `SessionTypeCorrect` proves the
types of both, `SessionServes` proves `Session`'s `LayoutRequestServed`, which is over any
number of attempts, server faults and failing file operations, for a launcher with one
processor and without the fault `build`. Every step but the arrival of a request is a step
of `LauncherClient`'s specification (`LauncherMoves`), so its inductive invariants `Typed`
and `ServedInv` are kept; for the arrival they are proved anew, since there the model of
the server is replaced by the real one. That needs two promises of form that
`LauncherClient` takes from its server and `RemoteClient` keeps: every request is one the
launcher's model knows, and is about a file and a block the server has (`ServerAsks`,
`RequestsAreRead`), and none arrives before the first one for the layout (`LayoutFirst`,
which follows the request through queue and network, with `NothingBegun`). In the other
direction every answer is one the server's model expects (`ResponsesAreRead`). The order
in which requests follow each other within an attempt is not used: that is
`ServerKeepsPromises`, which is model-checked.

`DesktopProofs`: `Inv` is inductive and implies five properties of the runs: `TypeCorrect`,
`LastWordHeeded` (`LastRequestHeeded`), `NoPhantomRuns` (`NoPhantomRun`), `ButtonsAlwaysFit`
(`ButtonsFit`) and `PreparedWhenRequested` (`PreparedWhenAsked`), for every capacity of the
channel and every set of faults. `Typed` lists the rests of functions each thread can be
in, says who holds the mutex, and that nothing is under way without a connection.
`PreparedInv` follows the preparation to the button that lets the user connect;
`ButtonsInv` the updates of the user interface due; `PhantomInv` the value `running` from
the handler to the link and the server; `HeededInv` the last request through wire, queue,
handler and channel: what is under way is empty, or ends with the last request. When it is
empty and the last request was a stop or a kill, either no game runs or that very request threw
(`defied`), and nothing but a request, or the end of the game, changes this. A phantom
run is one reported though `RunGame()` never returned: an invalid profile returns
without a game and is reported, too.

Assumptions: `ThreadsAssumption` (the owner, or `Main`, is no processor),
`TasksAssumption`, `DirsAssumption` (directories are functions from paths to sequences of
blocks), `NoLayoutAssumption` (the null reference is no directory), `NamesAssumption`,
`FaultsAssumption`, `LimitsAssumption` and `BoundsAssumption` (limits are natural numbers;
zero is allowed), `LauncherThreadsAssumption`, `LauncherNamesAssumption` and
`LauncherFaultsAssumption` (the same of `Session`'s launcher, whose faults are `build` and
`disk`), and those named at the theorems: one processor, one attempt, no fault `build`, no fault `cut`, no late clear, answers in time.

Only model-checked: the three refinements of `Session`, and `LayoutTrue` in it, which
rests on them; `LauncherClient`'s `SynchronizedTruly` over several attempts
(`launcher_reconnect`); and every liveness property, which is
out of the prover's reach. Operators defined by recursion (`SelectSeq`, folds)
are opaque to the provers, so the models proved about do not use them.

## Not modelled

Closing the connection within `Session`, features and names of the handshake, the
system properties and the lines of the log sent to the server, closing the desktop
launcher (its destructor joins an updater that may wait for the channel), the
parameters of a run: see the plan. The hash function, the contents of files, FOX widgets,
logging, the network library and the build: no logic of their own that the properties
could tell apart, or third-party code.

## Plan

1. Theorems: `LauncherClient`'s `SynchronizedTruly` over several attempts. It needs a failing
   disk excluded, or the corner above.
2. `Session`: the arrival of a request as a step of `LauncherClient`'s specification
   (`ServerKeepsPromises`), the other steps being proved to be; `LayoutTrue` follows.
3. `BlockLayout`: offsets and sizes of blocks: that they tile a file exactly, for every
   size and block size, as theorems.
4. `Desktop`: the parameters of a run, closing.
5. `Session`: closing and reconnecting, with the launcher's layout surviving and the
   server's client new.
