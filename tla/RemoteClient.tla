------------------------------ MODULE RemoteClient -----------------------------
(***************************************************************************)
(* The server's side of one synchronisation: derlRemoteClient, its         *)
(* connection derlRemoteClientConnection and its task processors           *)
(* derlTaskProcessorRemoteClient, for one connected launcher.              *)
(*                                                                         *)
(* Threads: Main calls Update() and Synchronize(); every member of Procs   *)
(* runs a task processor.  A step is a stretch of code between two points  *)
(* where another thread can get in: a section under a lock, or the code    *)
(* between two sections.  Only the loops that send messages while holding  *)
(* the mutex of a sync task take several steps under it.                   *)
(*                                                                         *)
(* The launcher and the network are external and abstract: a request sent  *)
(* is answered once, requests outstanding together in any order.           *)
(***************************************************************************)
EXTENDS Naturals, Sequences, FiniteSets, Functions

CONSTANTS
    Main,                 \* the thread calling Update()
    Procs,                \* the task processor threads
    Paths,                \* file paths
    Data,                 \* contents of a block
    Hole,                 \* a region never written, a hash never received
    ServerDir,            \* the files below the server's data directory
    ClientDirs,           \* the files the launcher may have at the beginning
    Faults,               \* what may fail: subset of {"build", "read", "launcher"}
    MaxInProgressFiles,   \* pMaxInProgressFiles
    MaxInProgressBlocks,  \* pMaxInProgressBlocks
    MaxSyncs,             \* bound: how often Synchronize() begins
    NoLayout              \* null layout reference

Blocks == Data \cup {Hole}

\* f maps some members of D to members of R.
IsMap(f, D, R) == DOMAIN f \subseteq D /\ f \in [DOMAIN f -> R]

(* A file is the sequence of its blocks, a directory a function from some
   paths to files.  Equal size is equal length, equal hash equal content. *)
IsDir(d) == IsMap(d, Paths, Seq(Blocks))

ASSUME ThreadsAssumption == Main \notin Procs
ASSUME DirsAssumption == IsDir(ServerDir) /\ \A d \in ClientDirs : IsDir(d)
ASSUME NoLayoutAssumption == NoLayout # ServerDir
ASSUME LimitsAssumption ==
    /\ MaxInProgressFiles \in Nat
    /\ MaxInProgressBlocks \in Nat
    /\ MaxSyncs \in Nat

Threads == Procs \cup {Main}

\* Attempts to synchronise are numbered; the sync task of attempt s is task[s].
Syncs == 1 .. MaxSyncs
None == 0

VARIABLES
    syncs,         \* attempts begun
    taskSync,      \* pTaskSyncClient: an attempt or None
    syncStatus,    \* pSynchronizeStatus
    layoutServer,  \* pFileLayoutServer
    layoutClient,  \* pFileLayoutClient: the attempt owning the object, or None
    pending,       \* pPendingTasks
    task,          \* the derlTaskSyncClient objects
    countFiles,    \* pCountInProgressFiles
    countBlocks,   \* pCountInProgressBlocks
    queueSend,     \* pQueueSend
    queueReceived, \* pQueueReceived
    pc,            \* where every thread is
    sync,          \* the attempt a thread works for
    todo,          \* paths a thread's loop has still to visit
    arg,           \* the message, task or layout a thread works with
    wire,          \* requests the launcher has not answered
    files          \* the launcher's files

client == <<syncs, taskSync, syncStatus, layoutServer, layoutClient>>
counts == <<countFiles, countBlocks>>
queues == <<queueSend, queueReceived>>
threads == <<pc, sync, todo, arg>>
launcher == <<wire, files>>

vars == <<client, pending, task, counts, queues, threads, launcher>>

-------------------------------------------------------------------------------
(* Files and blocks *)

\* derlTaskProcessorRemoteClient::ProcessFileLayoutServer(): a file up to one
\* block long, the empty file included, has one block.
BlockCount(file) == IF file = <<>> THEN 1 ELSE Len(file)

ServerBlocks(p) == 1 .. BlockCount(ServerDir[p])

\* Files to ask block hashes for: same size, other content.
HashPaths(layout) ==
    {p \in DOMAIN ServerDir \cap DOMAIN layout :
        /\ Len(layout[p].data) = Len(ServerDir[p])
        /\ layout[p].data # ServerDir[p]}

DeletePaths(layout) == DOMAIN layout \ DOMAIN ServerDir

WritePaths(layout) ==
    {p \in DOMAIN ServerDir :
        p \in DOMAIN layout => layout[p].data # ServerDir[p]}

\* Blocks to write: those with another hash if the launcher's file is cut into
\* the same blocks, all otherwise.
WriteBlocks(layout, p) ==
    IF p \in DOMAIN layout /\ Len(layout[p].hashes) = BlockCount(ServerDir[p])
    THEN {i \in ServerBlocks(p) : layout[p].hashes[i] # ServerDir[p][i]}
    ELSE ServerBlocks(p)

WriteTask(layout, p) ==
    [status |-> "pending", blocks |-> [i \in WriteBlocks(layout, p) |-> "pending"]]

(* Messages.  The attempt in a request is not sent: it tells the requests of
   two attempts apart, and no guard of the code below reads it. *)
LayoutRequest(s) == [kind |-> "layout", sync |-> s]
PathRequest(kind, s, p) == [kind |-> kind, sync |-> s, path |-> p]
DataRequest(s, p, i) == [kind |-> "data", sync |-> s, path |-> p, index |-> i]

\* The status the sync task must have for a response to be looked at.
Accepts(kind) ==
    CASE kind = "layout" -> {"pending"}
      [] kind = "hashes" -> {"processHashing"}
      [] kind = "delete" -> {"prepareTasksWriting", "processWriting"}
      [] OTHER -> {"processWriting"}

(* Tasks in the queue *)
LayoutTask(s) == [kind |-> "fileLayout", sync |-> s]
SyncTask(s) == [kind |-> "syncClient", sync |-> s]
BlockTask(s, p, i) == [kind |-> "fileWriteBlock", sync |-> s, path |-> p, index |-> i]

(* What else a thread has at hand: nothing, or the layout object of an attempt *)
NoArg == [kind |-> "none"]
LayoutOf(s) == [kind |-> "layout", sync |-> s]

Eligible(e) ==
    e.kind = "syncClient" =>
        task[e.sync].status \in {"pending", "prepareTasksWriting"}

\* The mutex of a sync task is held by no loop.
Free(s) == \A t \in Threads : pc[t] \in {"hash", "delete", "send"} => sync[t] # s

NewTask ==
    [status |-> "pending", want |-> {"server", "client"}, layout |-> <<>>,
     hashes |-> {}, deletes |-> {}, writes |-> <<>>]

Init ==
    /\ syncs = 0
    /\ taskSync = None
    /\ syncStatus = "pending"
    /\ layoutServer = NoLayout
    /\ layoutClient = None
    /\ pending = <<>>
    /\ task = [s \in Syncs |-> NewTask]
    /\ countFiles = 0
    /\ countBlocks = 0
    /\ queueSend = <<>>
    /\ queueReceived = <<>>
    /\ pc = [t \in Threads |-> "idle"]
    /\ sync = [t \in Threads |-> None]
    /\ todo = [t \in Threads |-> {}]
    /\ arg = [t \in Threads |-> NoArg]
    /\ wire = {}
    /\ files \in ClientDirs

Goto(t, to) == pc' = [pc EXCEPT ![t] = to]

\* The thread is done with its message or task and forgets about it.
Return(t) ==
    /\ Goto(t, "idle")
    /\ sync' = [sync EXCEPT ![t] = None]
    /\ todo' = [todo EXCEPT ![t] = {}]
    /\ arg' = [arg EXCEPT ![t] = NoArg]

\* The thread goes on with the same message or task.
Continue(t, to) ==
    /\ Goto(t, to)
    /\ UNCHANGED <<sync, todo, arg>>

-------------------------------------------------------------------------------
(* Main: the application starts a synchronisation *)

Synchronize ==
    /\ pc[Main] = "idle"
    /\ syncs < MaxSyncs
    /\ taskSync # None => task[taskSync].status = "failure"
    /\ syncs' = syncs + 1
    /\ taskSync' = syncs + 1
    /\ syncStatus' = "processing"
    /\ layoutServer' = NoLayout
    /\ layoutClient' = None
    /\ pending' = Append(pending, LayoutTask(syncs + 1))
    /\ queueSend' = Append(queueSend, LayoutRequest(syncs + 1))
    /\ UNCHANGED <<task, counts, queueReceived, threads, launcher>>

(* Main: Update() *)

SendQueuedMessages ==
    /\ pc[Main] = "idle"
    /\ queueSend # <<>>
    /\ queueSend' = <<>>
    /\ wire' = wire \cup Range(queueSend)
    /\ UNCHANGED <<client, pending, task, counts, queueReceived, threads, files>>

\* ProcessReceivedMessages() takes a message; pGetSyncTask() finds the sync
\* task and, without its mutex, checks its status.
ReceiveMessage ==
    /\ pc[Main] = "idle"
    /\ queueReceived # <<>>
    /\ queueReceived' = Tail(queueReceived)
    /\ LET m == Head(queueReceived)
       IN  IF taskSync # None /\ task[taskSync].status \in Accepts(m.req.kind)
           THEN /\ Goto(Main, "apply")
                /\ sync' = [sync EXCEPT ![Main] = taskSync]
                /\ arg' = [arg EXCEPT ![Main] = m]
                /\ UNCHANGED todo
           ELSE UNCHANGED threads
    /\ UNCHANGED <<client, pending, task, counts, queueSend, launcher>>

Applies(kind) == pc[Main] = "apply" /\ arg[Main].req.kind = kind

\* The launcher's layout goes into the layout object of the sync task.
ProcessResponseFileLayout ==
    LET s == sync[Main]
        dir == arg[Main].body
    IN
    /\ Applies("layout")
    /\ IF "client" \in task[s].want
       THEN /\ task' = [task EXCEPT ![s].layout =
                  [p \in DOMAIN dir |-> [data |-> dir[p], hashes |-> <<>>]]]
            /\ layoutClient' = s
            /\ Continue(Main, "layoutDone")
       ELSE Return(Main) /\ UNCHANGED <<task, layoutClient>>
    /\ UNCHANGED <<syncs, taskSync, syncStatus, layoutServer,
                   pending, counts, queues, launcher>>

\* Erases the hash task under the mutex, then stores the hashes in the layout.
ProcessResponseFileBlockHashes ==
    LET s == sync[Main]
        p == arg[Main].req.path
        hashes == arg[Main].body
        l == layoutClient
        erased == [task EXCEPT ![s].hashes = @ \ {p}]
    IN
    /\ Applies("hashes")
    /\ Free(s)
    /\ IF p \notin task[s].hashes
       THEN Return(Main) /\ UNCHANGED task
       ELSE IF /\ l # None
               /\ p \in DOMAIN task[l].layout
               /\ Len(hashes) <= Len(task[l].layout[p].hashes)
       THEN /\ task' = [erased EXCEPT ![l].layout[p].hashes =
                  [i \in DOMAIN @ |-> IF i \in DOMAIN hashes THEN hashes[i] ELSE @[i]]]
            /\ Continue(Main, "checkHashes")
       ELSE task' = erased /\ Continue(Main, "fail")
    /\ UNCHANGED <<client, pending, counts, queues, launcher>>

\* pCheckFinishedHashes(): the last hashes are in, writing can be prepared.
CheckFinishedHashes ==
    LET s == sync[Main] IN
    /\ pc[Main] = "checkHashes"
    /\ Free(s)
    /\ IF task[s].hashes = {}
       THEN /\ task' = [task EXCEPT ![s].status = "prepareTasksWriting"]
            /\ Continue(Main, "enqueue")
       ELSE Return(Main) /\ UNCHANGED task
    /\ UNCHANGED <<client, pending, counts, queues, launcher>>

EnqueueSyncTask ==
    /\ pc[Main] = "enqueue"
    /\ pending' = Append(pending, SyncTask(sync[Main]))
    /\ Return(Main)
    /\ UNCHANGED <<client, task, counts, queues, launcher>>

ProcessResponseDeleteFile ==
    LET s == sync[Main]
        p == arg[Main].req.path
    IN
    /\ Applies("delete")
    /\ Free(s)
    /\ IF p \in task[s].deletes
       THEN /\ task' = [task EXCEPT ![s].deletes = @ \ {p}]
            /\ Continue(Main, IF arg[Main].ok THEN "checkWrite" ELSE "fail")
       ELSE Return(Main) /\ UNCHANGED task
    /\ UNCHANGED <<client, pending, counts, queues, launcher>>

\* The write task of a path exists and has the status.
Writing(s, p, status) ==
    p \in DOMAIN task[s].writes /\ task[s].writes[p].status = status

ProcessResponseWriteFile ==
    LET s == sync[Main]
        p == arg[Main].req.path
        ok == arg[Main].ok
    IN
    /\ Applies("write")
    /\ Free(s)
    /\ IF Writing(s, p, "preparing")
       THEN /\ task' = [task EXCEPT ![s].writes[p].status =
                           IF ok THEN "processing" ELSE "failure"]
            /\ Continue(Main, IF ok THEN "sendLock" ELSE "fail")
       ELSE Return(Main) /\ UNCHANGED task
    /\ UNCHANGED <<client, pending, counts, queues, launcher>>

Without(f, x) == Restrict(f, DOMAIN f \ {x})

\* Variant: the counter is not lowered.
KeepCount(n) == n

Decrement(n) == IF n > 0 THEN n - 1 ELSE 0

ProcessFileDataReceived ==
    LET s == sync[Main]
        p == arg[Main].req.path
        i == arg[Main].req.index
    IN
    /\ Applies("data")
    /\ Free(s)
    /\ IF /\ Writing(s, p, "processing")
          /\ i \in DOMAIN task[s].writes[p].blocks
          /\ task[s].writes[p].blocks[i] = "dataSent"
       THEN /\ task' = [task EXCEPT ![s].writes[p].blocks = Without(@, i)]
            /\ countBlocks' = Decrement(countBlocks)
            /\ Continue(Main, IF arg[Main].ok THEN "sendLock" ELSE "fail")
       ELSE Return(Main) /\ UNCHANGED <<task, countBlocks>>
    /\ UNCHANGED <<client, pending, countFiles, queues, launcher>>

ProcessResponseFinishWriteFile ==
    LET s == sync[Main]
        p == arg[Main].req.path
    IN
    /\ Applies("finish")
    /\ Free(s)
    /\ IF Writing(s, p, "finishing")
       THEN /\ task' = [task EXCEPT ![s].writes = Without(@, p)]
            /\ countFiles' = Decrement(countFiles)
            /\ Continue(Main, IF arg[Main].ok THEN "checkWrite" ELSE "fail")
       ELSE Return(Main) /\ UNCHANGED <<task, countFiles>>
    /\ UNCHANGED <<client, pending, countBlocks, queues, launcher>>

\* Variant: files to delete are forgotten.
NothingLeftToWrite(tk) == DOMAIN tk.writes = {}

NothingLeft(tk) == tk.deletes = {} /\ DOMAIN tk.writes = {}

CheckFinishedWrite ==
    LET s == sync[Main] IN
    /\ pc[Main] = "checkWrite"
    /\ Free(s)
    /\ IF NothingLeft(task[s])
       THEN /\ task' = [task EXCEPT ![s].status = "success"]
            /\ Continue(Main, "succeed")
       ELSE Continue(Main, "sendLock") /\ UNCHANGED task
    /\ UNCHANGED <<client, pending, counts, queues, launcher>>

-------------------------------------------------------------------------------
(* Any thread: the end of a synchronisation.  Both functions act on the sync
   task present when they run. *)

\* Variant: the sync task is not let go.
SucceedKeepingTask(t) ==
    /\ pc[t] = "succeed"
    /\ IF taskSync = None
       THEN UNCHANGED <<syncStatus, task>>
       ELSE /\ task' = [task EXCEPT ![taskSync].status = "success"]
            /\ syncStatus' = "ready"
    /\ Return(t)
    /\ UNCHANGED <<syncs, taskSync, layoutServer, layoutClient,
                   pending, counts, queues, launcher>>

SucceedSynchronization(t) ==
    /\ pc[t] = "succeed"
    /\ IF taskSync = None
       THEN UNCHANGED <<taskSync, syncStatus, task>>
       ELSE /\ task' = [task EXCEPT ![taskSync].status = "success"]
            /\ syncStatus' = "ready"
            /\ taskSync' = None
    /\ Return(t)
    /\ UNCHANGED <<syncs, layoutServer, layoutClient,
                   pending, counts, queues, launcher>>

FailSynchronization(t) ==
    /\ pc[t] = "fail"
    /\ IF taskSync = None
       THEN Return(t) /\ UNCHANGED <<taskSync, syncStatus, task>>
       ELSE /\ Free(taskSync)
            /\ task' = [task EXCEPT ![taskSync].status = "failure"]
            /\ syncStatus' = "failed"
            /\ taskSync' = None
            /\ Continue(t, "clear")
    /\ UNCHANGED <<syncs, layoutServer, layoutClient,
                   pending, counts, queues, launcher>>

\* The second half of FailSynchronization(), under pMutexPendingTasks.
ClearPendingTasks(t) ==
    /\ pc[t] = "clear"
    /\ pending' = <<>>
    /\ Return(t)
    /\ UNCHANGED <<client, task, counts, queues, launcher>>

-------------------------------------------------------------------------------
(* Any thread: SendNextWriteRequests() *)

LockForSending(t) ==
    /\ pc[t] = "sendLock"
    /\ Free(sync[t])
    /\ Goto(t, "send")
    /\ todo' = [todo EXCEPT ![t] = DOMAIN task[sync[t]].writes]
    /\ UNCHANGED <<client, pending, task, counts, queues, sync, arg, launcher>>

Visit(t, p) ==
    /\ pc[t] = "send"
    /\ p \in todo[t]
    /\ todo' = [todo EXCEPT ![t] = @ \ {p}]
    /\ UNCHANGED <<client, queueReceived, sync, arg, launcher>>

\* A pending file starts if the limit allows.
RequestWriteFile(t, p) ==
    LET s == sync[t] IN
    /\ Visit(t, p)
    /\ Writing(s, p, "pending")
    /\ countFiles < MaxInProgressFiles
    /\ task' = [task EXCEPT ![s].writes[p].status = "preparing"]
    /\ countFiles' = countFiles + 1
    /\ queueSend' = Append(queueSend, PathRequest("write", s, p))
    /\ UNCHANGED <<pending, countBlocks, pc>>

\* Variant: blocks on the way count as written.
AllStarted(blocks) == \A i \in DOMAIN blocks : blocks[i] # "pending"

\* A block leaves the list when the launcher has acknowledged it.
AllWritten(blocks) == DOMAIN blocks = {}

\* All blocks are written: the launcher is to check the hash of the file.  It
\* is looked up in the server layout present now, which may be missing.
RequestFinishWriteFile(t, p) ==
    LET s == sync[t] IN
    /\ Visit(t, p)
    /\ Writing(s, p, "processing")
    /\ AllWritten(task[s].writes[p].blocks)
    /\ IF layoutServer # NoLayout
       THEN /\ task' = [task EXCEPT ![s].writes[p].status = "finishing"]
            /\ queueSend' = Append(queueSend, PathRequest("finish", s, p))
            /\ UNCHANGED pc
       ELSE /\ task' = [task EXCEPT ![s].writes[p].status = "failure"]
            /\ Goto(t, "fail")
            /\ UNCHANGED queueSend
    /\ UNCHANGED <<pending, counts>>

\* The sequences listing a set of block numbers in ascending order.
Ascending(S) ==
    {q \in [1 .. Cardinality(S) -> S] : \A i, j \in DOMAIN q : i < j => q[i] < q[j]}

\* Variant: the limit is off by one.
StartedOneMore(blocks) ==
    LET waiting == {i \in DOMAIN blocks : blocks[i] = "pending"}
        room == MaxInProgressBlocks + 1 - countBlocks
    IN  {S \in SUBSET waiting :
            /\ \A i \in S, j \in waiting \ S : i < j
            /\ Cardinality(S) <= room
            /\ S = waiting \/ Cardinality(S) = room}

\* Variant: blocks start in any order.
StartedAnywhere(blocks) ==
    LET waiting == {i \in DOMAIN blocks : blocks[i] = "pending"}
        room == MaxInProgressBlocks - countBlocks
    IN  {S \in SUBSET waiting :
            /\ Cardinality(S) <= room
            /\ S = waiting \/ Cardinality(S) = room}

\* The blocks the loop reads first among the pending ones, up to the limit.
Started(blocks) ==
    LET waiting == {i \in DOMAIN blocks : blocks[i] = "pending"}
        room == MaxInProgressBlocks - countBlocks
    IN  {S \in SUBSET waiting :
            /\ \A i \in S, j \in waiting \ S : i < j
            /\ Cardinality(S) <= room
            /\ S = waiting \/ Cardinality(S) = room}

\* A block with data is read by a task processor first; one without is sent at
\* once, as is a block whose data has been read.  The loop ends at the first
\* pending block that is above the limit.
SendFileData(t, p) ==
    LET s == sync[t]
        blocks == task[s].writes[p].blocks
        empty == ServerDir[p] = <<>>
    IN
    /\ Visit(t, p)
    /\ Writing(s, p, "processing")
    /\ ~ AllWritten(blocks)
    /\ \E S \in Started(blocks) :
       LET visited == {i \in DOMAIN blocks : \A j \in DOMAIN blocks \ S :
                          blocks[j] = "pending" => i < j}
           reads == IF empty THEN {} ELSE S
           sends == {i \in visited : blocks[i] = "dataReady"} \cup (S \ reads)
       IN
       /\ task' = [task EXCEPT ![s].writes[p].blocks =
             [i \in DOMAIN blocks |->
                 CASE i \in reads -> "readingData"
                   [] i \in sends -> "dataSent"
                   [] OTHER -> blocks[i]]]
       /\ countBlocks' = countBlocks + Cardinality(S)
       /\ \E r \in Ascending(reads) :
             pending' = pending \o [n \in DOMAIN r |-> BlockTask(s, p, r[n])]
       /\ \E q \in Ascending(sends) :
             queueSend' = queueSend \o [n \in DOMAIN q |-> DataRequest(s, p, q[n])]
    /\ UNCHANGED <<countFiles, pc>>

\* The other files are left alone.
SkipFile(t, p) ==
    /\ Visit(t, p)
    /\ ~ Writing(sync[t], p, "processing")
    /\ Writing(sync[t], p, "pending") => countFiles >= MaxInProgressFiles
    /\ UNCHANGED <<pending, task, counts, queueSend, pc>>

SendingDone(t) ==
    /\ pc[t] = "send"
    /\ todo[t] = {}
    /\ Return(t)
    /\ UNCHANGED <<client, pending, task, counts, queues, launcher>>

SendNextWriteRequests(t) ==
    \/ LockForSending(t)
    \/ \E p \in todo[t] :
          \/ RequestWriteFile(t, p)
          \/ RequestFinishWriteFile(t, p)
          \/ SendFileData(t, p)
          \/ SkipFile(t, p)
    \/ SendingDone(t)

-------------------------------------------------------------------------------
(* Any thread: one of the two layouts of the attempt is there.  The thread
   that finds both there queues the sync task. *)

\* Variant: the launcher's layout alone is enough.
ClientThere(left) == "client" \notin left

BothThere(left) == left = {}

FinishLayout(t) ==
    LET s == sync[t]
        left == task[s].want \ {IF t = Main THEN "client" ELSE "server"}
    IN
    /\ pc[t] = "layoutDone"
    /\ Free(s)
    /\ task' = [task EXCEPT ![s].want = left]
    /\ pending' = IF BothThere(left) THEN Append(pending, SyncTask(s)) ELSE pending
    /\ Return(t)
    /\ UNCHANGED <<client, counts, queues, launcher>>

-------------------------------------------------------------------------------
(* A task processor: RunTask() *)

\* NextPendingTask() takes the first task it may run.
TakeTask(p) ==
    /\ pc[p] = "idle"
    /\ \E i \in DOMAIN pending :
       LET e == pending[i] IN
       /\ Eligible(e)
       /\ \A j \in 1 .. (i - 1) : ~ Eligible(pending[j])
       /\ pending' = SubSeq(pending, 1, i - 1)
                       \o SubSeq(pending, i + 1, Len(pending))
       /\ Goto(p, e.kind)
       /\ sync' = [sync EXCEPT ![p] = e.sync]
       /\ arg' = [arg EXCEPT ![p] = e]
       /\ UNCHANGED todo
    /\ UNCHANGED <<client, task, counts, queues, launcher>>

\* ProcessFileLayoutServer() builds a layout for the sync task present now.
ProcessFileLayoutServer(p) ==
    /\ pc[p] = "fileLayout"
    /\ IF taskSync = None
       THEN Return(p)
       ELSE /\ Goto(p, "building")
            /\ sync' = [sync EXCEPT ![p] = taskSync]
            /\ UNCHANGED <<todo, arg>>
    /\ UNCHANGED <<client, pending, task, counts, queues, launcher>>

LayoutServerBuilt(p) ==
    /\ pc[p] = "building"
    /\ \/ layoutServer' = ServerDir /\ Continue(p, "layoutDone")
       \/ "build" \in Faults /\ Continue(p, "fail") /\ UNCHANGED layoutServer
    /\ UNCHANGED <<syncs, taskSync, syncStatus, layoutClient,
                   pending, task, counts, queues, launcher>>

\* The two tests of the status of a sync task in RunTask().
RunSyncTask(p) ==
    LET status == task[sync[p]].status IN
    /\ \/ pc[p] = "syncClient" /\ status = "pending"
          /\ Continue(p, "prepareHashing")
       \/ pc[p] = "syncClient" /\ status # "pending"
          /\ Continue(p, "secondTest")
       \/ pc[p] = "secondTest" /\ status = "prepareTasksWriting"
          /\ Continue(p, "prepareWriting")
       \/ pc[p] = "secondTest" /\ status # "prepareTasksWriting"
          /\ Return(p)
    /\ UNCHANGED <<client, pending, task, counts, queues, launcher>>

\* ProcessPrepareHashing() and ProcessPrepareWriting() begin alike: they set the
\* status and look up the layouts without the mutex of the sync task.
LookUpLayouts(p) ==
    /\ pc[p] \in {"prepareHashing", "prepareWriting"}
    /\ syncStatus' = "processing"
    /\ IF layoutServer = NoLayout \/ layoutClient = None
       THEN Continue(p, "fail")
       ELSE /\ Goto(p, IF pc[p] = "prepareHashing" THEN "hashLock" ELSE "deleteLock")
            /\ arg' = [arg EXCEPT ![p] = LayoutOf(layoutClient)]
            /\ UNCHANGED <<sync, todo>>
    /\ UNCHANGED <<syncs, taskSync, layoutServer, layoutClient,
                   pending, task, counts, queues, launcher>>

\* The launcher's layout found by LookUpLayouts.
FoundLayout(p) == task[arg[p].sync].layout

LockForHashing(p) ==
    /\ pc[p] = "hashLock"
    /\ Free(sync[p])
    /\ Goto(p, "hash")
    /\ todo' = [todo EXCEPT ![p] = HashPaths(FoundLayout(p))]
    /\ UNCHANGED <<client, pending, task, counts, queues, sync, arg, launcher>>

\* AddFileBlockHashTasks() cuts the launcher's file into blocks without hashes
\* and asks for them.
AddFileBlockHashTask(p) ==
    /\ pc[p] = "hash"
    /\ \E path \in todo[p] :
          /\ task' = [task EXCEPT
                ![arg[p].sync].layout[path].hashes = [i \in ServerBlocks(path) |-> Hole],
                ![sync[p]].hashes = @ \cup {path}]
          /\ queueSend' = Append(queueSend, PathRequest("hashes", sync[p], path))
          /\ todo' = [todo EXCEPT ![p] = @ \ {path}]
    /\ UNCHANGED <<client, pending, counts, queueReceived, pc, sync, arg, launcher>>

\* Only now the sync task accepts the hashes asked for.
HashingPrepared(p) ==
    LET s == sync[p] IN
    /\ pc[p] = "hash"
    /\ todo[p] = {}
    /\ task' = [task EXCEPT ![s].status =
          IF task[s].hashes = {} THEN "prepareTasksWriting" ELSE "processHashing"]
    /\ Continue(p, "secondTest")
    /\ UNCHANGED <<client, pending, counts, queues, launcher>>

LockForWriting(p) ==
    /\ pc[p] = "deleteLock"
    /\ Free(sync[p])
    /\ Goto(p, "delete")
    /\ todo' = [todo EXCEPT ![p] = DeletePaths(FoundLayout(p))]
    /\ UNCHANGED <<client, pending, task, counts, queues, sync, arg, launcher>>

AddFileDeleteTask(p) ==
    /\ pc[p] = "delete"
    /\ \E path \in todo[p] :
          /\ task' = [task EXCEPT ![sync[p]].deletes = @ \cup {path}]
          /\ queueSend' = Append(queueSend, PathRequest("delete", sync[p], path))
          /\ todo' = [todo EXCEPT ![p] = @ \ {path}]
    /\ UNCHANGED <<client, pending, counts, queueReceived, pc, sync, arg, launcher>>

\* AddFileWriteTasks() and the rest of ProcessPrepareWriting().  A write task
\* present for a path is replaced.
WritingPrepared(p) ==
    LET s == sync[p]
        new == WritePaths(FoundLayout(p))
        writes == [path \in new \cup DOMAIN task[s].writes |->
                      IF path \in new THEN WriteTask(FoundLayout(p), path)
                                      ELSE task[s].writes[path]]
    IN
    /\ pc[p] = "delete"
    /\ todo[p] = {}
    /\ task' = [task EXCEPT ![s].writes = writes, ![s].status = "processWriting"]
    /\ Continue(p, IF NothingLeft(task'[s]) THEN "succeed" ELSE "sendLock")
    /\ UNCHANGED <<client, pending, counts, queues, launcher>>

\* ProcessReadFileBlock() changes the status of the block without a lock, then
\* goes on with the sync task present at that time.
ReadFileBlock(p) ==
    LET s == sync[p]
        path == arg[p].path
        i == arg[p].index
        Set(status) == task' = [task EXCEPT ![s].writes[path].blocks[i] = status]
    IN
    /\ pc[p] = "fileWriteBlock"
    /\ IF /\ path \in DOMAIN task[s].writes
          /\ i \in DOMAIN task[s].writes[path].blocks
          /\ task[s].writes[path].blocks[i] = "readingData"
       THEN \/ Set("dataReady") /\ Continue(p, "blockRead")
            \/ "read" \in Faults /\ Set("failure") /\ Continue(p, "fail")
       ELSE Return(p) /\ UNCHANGED task
    /\ UNCHANGED <<client, pending, counts, queues, launcher>>

SendBlockRead(p) ==
    /\ pc[p] = "blockRead"
    /\ IF taskSync = None
       THEN Return(p)
       ELSE /\ Goto(p, "sendLock")
            /\ sync' = [sync EXCEPT ![p] = taskSync]
            /\ UNCHANGED <<todo, arg>>
    /\ UNCHANGED <<client, pending, task, counts, queues, launcher>>

-------------------------------------------------------------------------------
(* The launcher (external) answers a request.  It may refuse if Faults says so,
   and refuses to finish a file that has not the content it should have.  A
   request refused changes no file. *)

Written(path, i) ==
    LET old == IF path \in DOMAIN files THEN files[path] ELSE <<>>
        length == IF i > Len(old) THEN i ELSE Len(old)
    IN  IF ServerDir[path] = <<>> THEN old
        ELSE [j \in 1 .. length |-> CASE j = i -> ServerDir[path][i]
                                      [] j # i /\ j <= Len(old) -> old[j]
                                      [] OTHER -> Hole]

FilesAfter(m) ==
    CASE m.kind = "delete" -> Without(files, m.path)
      [] m.kind = "write" ->
            [q \in DOMAIN files |->
                IF q = m.path /\ Len(files[q]) # Len(ServerDir[q]) THEN <<>>
                                                                  ELSE files[q]]
      [] m.kind = "data" ->
            [q \in DOMAIN files \cup {m.path} |->
                IF q = m.path THEN Written(q, m.index) ELSE files[q]]
      [] OTHER -> files

Refused(m) ==
    m.kind = "finish" /\ (m.path \in DOMAIN files => files[m.path] # ServerDir[m.path])

Answer ==
    \E m \in wire, ok \in BOOLEAN :
        /\ ok => ~ Refused(m)
        /\ ~ ok => Refused(m) \/ "launcher" \in Faults
        /\ wire' = wire \ {m}
        /\ files' = IF ok THEN FilesAfter(m) ELSE files
        /\ queueReceived' = Append(queueReceived,
              [req |-> m, ok |-> ok,
               body |-> CASE m.kind = "layout" -> files
                          [] m.kind = "hashes" /\ m.path \in DOMAIN files /\ ok ->
                                files[m.path]
                          [] OTHER -> <<>>])
        /\ UNCHANGED <<client, pending, task, counts, queueSend, threads>>

-------------------------------------------------------------------------------
UpdateStep ==
    \/ SendQueuedMessages
    \/ ReceiveMessage
    \/ ProcessResponseFileLayout
    \/ ProcessResponseFileBlockHashes
    \/ CheckFinishedHashes
    \/ EnqueueSyncTask
    \/ ProcessResponseDeleteFile
    \/ ProcessResponseWriteFile
    \/ ProcessFileDataReceived
    \/ ProcessResponseFinishWriteFile
    \/ CheckFinishedWrite

RunTaskStep(p) ==
    \/ TakeTask(p)
    \/ ProcessFileLayoutServer(p)
    \/ LayoutServerBuilt(p)
    \/ RunSyncTask(p)
    \/ LookUpLayouts(p)
    \/ LockForHashing(p)
    \/ AddFileBlockHashTask(p)
    \/ HashingPrepared(p)
    \/ LockForWriting(p)
    \/ AddFileDeleteTask(p)
    \/ WritingPrepared(p)
    \/ ReadFileBlock(p)
    \/ SendBlockRead(p)

SharedStep(t) ==
    \/ FinishLayout(t)
    \/ SendNextWriteRequests(t)
    \/ SucceedSynchronization(t)
    \/ FailSynchronization(t)
    \/ ClearPendingTasks(t)

Next ==
    \/ Synchronize
    \/ UpdateStep
    \/ \E p \in Procs : RunTaskStep(p)
    \/ \E t \in Threads : SharedStep(t)
    \/ Answer

Spec == Init /\ [][Next]_vars

(* Update() is called again and again, the processors run, a mutex is handed
   to a thread waiting for it, and the launcher answers.  Whether and when to
   synchronise is up to the application. *)
FairSpec ==
    /\ Spec
    /\ WF_vars(UpdateStep \/ SharedStep(Main))
    /\ \A p \in Procs : WF_vars(RunTaskStep(p) \/ SharedStep(p))
    /\ WF_vars(Answer)
-------------------------------------------------------------------------------
(* Properties *)

TaskStatus == {"pending", "processHashing", "prepareTasksWriting",
               "processWriting", "success", "failure"}

FileStatus == {"pending", "preparing", "processing", "finishing", "failure"}

BlockStatus == {"pending", "readingData", "dataReady", "dataSent", "failure"}

IsWriteTask(w, p) ==
    /\ DOMAIN w = {"status", "blocks"}
    /\ w.status \in FileStatus
    /\ IsMap(w.blocks, ServerBlocks(p), BlockStatus)

IsSyncTask(tk) ==
    /\ DOMAIN tk = DOMAIN NewTask
    /\ tk.status \in TaskStatus
    /\ tk.want \subseteq {"server", "client"}
    /\ IsMap(tk.layout, Paths, [data : Seq(Blocks), hashes : Seq(Blocks)])
    /\ tk.hashes \subseteq Paths
    /\ tk.deletes \subseteq Paths
    /\ DOMAIN tk.writes \subseteq DOMAIN ServerDir
    /\ \A p \in DOMAIN tk.writes : IsWriteTask(tk.writes[p], p)

\* Requests and tasks about a block of a file.
AboutBlocks(Make(_, _, _)) ==
    UNION {{Make(s, p, i) : s \in Syncs, i \in ServerBlocks(p)} : p \in DOMAIN ServerDir}

Requests ==
    {LayoutRequest(s) : s \in Syncs}
      \cup {PathRequest(k, s, p) :
               k \in {"hashes", "delete", "write", "finish"}, s \in Syncs, p \in Paths}
      \cup AboutBlocks(DataRequest)

IsResponse(m) ==
    /\ m.req \in Requests
    /\ m.ok \in BOOLEAN
    /\ m.req.kind = "layout" => IsDir(m.body)
    /\ m.req.kind = "hashes" => m.body \in Seq(Blocks)

PendingTasks ==
    {LayoutTask(s) : s \in Syncs} \cup {SyncTask(s) : s \in Syncs}
      \cup AboutBlocks(BlockTask)

MainPC == {"idle", "apply", "checkHashes", "enqueue", "checkWrite"}

ProcPC == {"idle", "fileLayout", "building", "syncClient", "secondTest",
           "prepareHashing", "hashLock", "hash", "prepareWriting", "deleteLock",
           "delete", "fileWriteBlock", "blockRead"}

SharedPC == {"layoutDone", "sendLock", "send", "succeed", "fail", "clear"}

ClientTypeOK ==
    /\ syncs \in 0 .. MaxSyncs
    /\ taskSync \in 0 .. MaxSyncs
    /\ syncStatus \in {"pending", "processing", "ready", "failed"}
    /\ layoutServer \in {NoLayout, ServerDir}
    /\ layoutClient \in 0 .. MaxSyncs

TasksTypeOK == DOMAIN task = Syncs /\ \A s \in Syncs : IsSyncTask(task[s])

\* No more files and blocks are in progress than allowed.
LimitsKept ==
    /\ countFiles \in 0 .. MaxInProgressFiles
    /\ countBlocks \in 0 .. MaxInProgressBlocks

QueuesTypeOK ==
    /\ pending \in Seq(PendingTasks)
    /\ queueSend \in Seq(Requests)
    /\ wire \subseteq Requests
    /\ queueReceived \in Seq(Range(queueReceived))
    /\ \A m \in Range(queueReceived) : IsResponse(m)

ThreadsTypeOK ==
    /\ pc \in [Threads -> MainPC \cup ProcPC \cup SharedPC]
    /\ pc[Main] \in MainPC \cup SharedPC
    /\ \A p \in Procs : pc[p] \in ProcPC \cup SharedPC
    /\ sync \in [Threads -> 0 .. MaxSyncs]
    /\ \A t \in Threads : pc[t] # "idle" => sync[t] # None
    /\ todo \in [Threads -> SUBSET Paths]
    /\ \A p \in Procs : pc[p] = "hash" => todo[p] \subseteq DOMAIN ServerDir

\* The message, task or layout a thread works with fits what it is doing.
ArgsTypeOK ==
    /\ DOMAIN arg = Threads
    /\ pc[Main] = "apply" => IsResponse(arg[Main])
    /\ \A p \in Procs :
          /\ pc[p] \in {"fileLayout", "syncClient", "fileWriteBlock"} =>
                arg[p] \in PendingTasks /\ arg[p].kind = pc[p]
          /\ pc[p] \in {"hashLock", "hash", "deleteLock", "delete"} =>
                \E s \in Syncs : arg[p] = LayoutOf(s)

(* Types, and the limits of files and blocks in progress. *)
TypeOK ==
    /\ ClientTypeOK
    /\ TasksTypeOK
    /\ LimitsKept
    /\ QueuesTypeOK
    /\ ThreadsTypeOK
    /\ ArgsTypeOK
    /\ IsDir(files)

(* The places a task, a file or a block counts as being in progress. *)
BusyFilesOf(s) ==
    {p \in DOMAIN task[s].writes : task[s].writes[p].status # "pending"}

BusyFiles == UNION {{s} \X BusyFilesOf(s) : s \in Syncs}

BusyBlocksOf(s, p) ==
    LET blocks == task[s].writes[p].blocks
    IN  {i \in DOMAIN blocks : blocks[i] # "pending"}

BusyBlocks ==
    UNION {UNION {{<<s, p>>} \X BusyBlocksOf(s, p) : p \in DOMAIN task[s].writes} :
           s \in Syncs}

(* The counters never drift: they count the files and blocks in progress of all
   attempts, those of an aborted attempt included. *)
CountersExact ==
    /\ countFiles = Cardinality(BusyFiles)
    /\ countBlocks = Cardinality(BusyBlocks)

(* The status shown is "processing" exactly while there is a sync task: an
   aborted or finished attempt cannot bring it back. *)
StatusMatchesTask == syncStatus = "processing" <=> taskSync # None

(* "ready" is not said before the launcher has exactly the server's files. *)
ReadyMeansEqual == syncStatus = "ready" => files = ServerDir

\* No block is in progress behind one that is not.
InOrder(blocks) ==
    \A i, j \in DOMAIN blocks :
        i < j /\ blocks[i] = "pending" => blocks[j] = "pending"

(* Blocks of a file start in the order of the list.  The loop of
   SendNextWriteRequests() that ends at the first block above the limit would
   not send a block in progress behind it. *)
BlocksStartInOrder ==
    \A s \in Syncs : \A p \in DOMAIN task[s].writes :
        InOrder(task[s].writes[p].blocks)

Outstanding ==
    Range(queueSend) \cup wire \cup {m.req : m \in Range(queueReceived)}
      \cup (IF pc[Main] = "apply" THEN {arg[Main].req} ELSE {})

(* The stages of writing a file do not overlap: no block is under way before the
   launcher agreed to write the file, and no request to finish before every
   block was acknowledged. *)
StagesInOrder ==
    \A m, n \in {r \in Outstanding : r.kind \in {"write", "data", "finish"}} :
        m.sync = n.sync /\ m.path = n.path => m.kind = n.kind

(* A sync task that waits has somebody to wait for: the server layout is queued
   or being built, the launcher's is asked for, and once both are there the
   task is queued, or being prepared, exactly once. *)
SomebodyMovesOn ==
    LET s == taskSync
        At(where) == {p \in Procs : pc[p] \in where}
    IN
    taskSync # None /\ task[taskSync].status = "pending" =>
        /\ "server" \in task[s].want =>
              \/ \E e \in Range(pending) : e.kind = "fileLayout"
              \/ At({"fileLayout", "building", "layoutDone", "fail"}) # {}
        /\ "client" \in task[s].want =>
              \/ LayoutRequest(s) \in Outstanding
              \/ pc[Main] = "layoutDone"
        /\ task[s].want = {} =>
              Cardinality({i \in DOMAIN pending : pending[i] = SyncTask(s)})
                + Cardinality({p \in At({"syncClient", "prepareHashing", "hashLock",
                                        "hash", "fail"}) : sync[p] = s}) = 1

(* While the status is "processing" - "Client is synchronizing." - something is
   left to do: a thread is at work, a task can be taken, a message is on its way. *)
ProcessingMeansActive ==
    syncStatus = "processing" =>
        \/ \E t \in Threads : pc[t] # "idle"
        \/ \E e \in Range(pending) : Eligible(e)
        \/ Outstanding # {}

(* A synchronisation that has begun comes to an end. *)
SyncFinishes == syncStatus = "processing" ~> syncStatus \in {"ready", "failed"}
===============================================================================
