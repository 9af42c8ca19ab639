----------------------------- MODULE LauncherClient -----------------------------
(***************************************************************************)
(* The launcher's side: derlLauncherClient, its connection                 *)
(* derlLauncherClientConnection and its task processors                    *)
(* derlTaskProcessorLauncherClient.                                        *)
(*                                                                         *)
(* Main is the thread calling Update(), and, between two calls, ConnectTo() *)
(* and Disconnect(): the applications serialise the three.  Every member   *)
(* of Procs runs a task processor.  A step is a stretch of code between    *)
(* two points where another thread can get in.  How a processor sleeps and *)
(* is woken is the subject of TaskQueue; here it finds a task if there is  *)
(* one it may take.                                                        *)
(*                                                                         *)
(* The network is external.  Of the server, the subject of RemoteClient,    *)
(* only its requests are here, in any order they could come: the layout,   *)
(* the block hashes, then deletes and writes, and for a file to write its  *)
(* blocks and the end.  It gives an attempt up when an answer reports a    *)
(* failure.                                                                *)
(***************************************************************************)
EXTENDS Naturals, FiniteSets, SequencesExt

CONSTANTS
    Main,         \* the thread calling Update()
    Procs,        \* the task processor threads
    Paths,        \* file paths
    Data,         \* contents of a block
    Hole,         \* a block never written
    NoPath,       \* no path: requests that are not about a file
    Disks,        \* what may be below the data directory at the beginning
    ServerDirs,   \* the server's files, for every attempt to synchronise
    Faults,       \* what may happen: subset of AllFaults
    MaxAttempts,  \* bound: attempts to synchronise
    MaxConnects   \* bound: calls of ConnectTo()

\* Files are sequences of blocks, a directory a function from some paths to
\* files.  Equal size is equal length, equal hash equal content.
Blocks == Data \cup {Hole}

IsDir(d) == DOMAIN d \subseteq Paths /\ d \in [DOMAIN d -> Seq(Blocks)]

AllFaults == {"build", "disk", "server", "close", "address", "cut"}

Attempts == 1 .. MaxAttempts
None == 0

ASSUME ThreadsAssumption == Main \notin Procs
ASSUME DirsAssumption ==
    /\ \A d \in Disks : IsDir(d)
    /\ DOMAIN ServerDirs = Attempts
    /\ \A a \in Attempts : IsDir(ServerDirs[a])
ASSUME NamesAssumption == NoPath \notin Paths /\ Hole \notin Data
ASSUME FaultsAssumption == Faults \subseteq AllFaults
ASSUME BoundsAssumption == MaxAttempts \in Nat /\ MaxConnects \in Nat

Threads == Procs \cup {Main}

VARIABLES
    layout,          \* pFileLayout: an attempt owning the object, or None
    nextLayout,      \* pNextFileLayout
    dirty,           \* pDirtyFileLayout
    content,         \* the derlFileLayout objects
    pendingRequest,  \* pPendingRequestLayout
    pending,         \* pPendingTasks
    writeTasks,      \* pWriteFileTasks: path to the attempt it is written for
    fileWrite,       \* the derlTaskFileWrite objects
    queueSend,       \* pQueueSend
    queueReceived,   \* pQueueReceived
    conn,            \* connection state, "accepted" with pConnectionAccepted
    connects,        \* calls of ConnectTo()
    running,         \* pTaskProcessorsRunning
    exit,            \* pExit of the processors
    pc,              \* where every thread is
    job,             \* what a thread works with
    disk,            \* the files below the data directory
    srv              \* the server

layouts == <<layout, nextLayout, dirty, content>>
writing == <<writeTasks, fileWrite>>
queues == <<queueSend, queueReceived>>
connection == <<conn, connects>>
life == <<running, exit>>
threads == <<pc, job>>

vars == <<layouts, pendingRequest, pending, writing, queues, connection, life,
          threads, disk, srv>>

(* Requests, which are also the tasks they are turned into, and answers.  The
   attempt is not sent: it tells requests apart, and no guard of the code reads
   it. *)
Request(kind, a, p, i) == [kind |-> kind, at |-> a, path |-> p, index |-> i]
LayoutRequest(a) == Request("layout", a, NoPath, 0)
NoRequest == Request("none", None, NoPath, 0)

Answer(r, ok, body) == [req |-> r, ok |-> ok, body |-> body]

NoJob == [req |-> NoRequest, layout |-> None, ok |-> TRUE, body |-> <<>>, todo |-> {}]
JobOf(r) == [NoJob EXCEPT !.req = r]

Without(f, x) == Restrict(f, DOMAIN f \ {x})
With(f, x, v) == [y \in DOMAIN f \cup {x} |-> IF y = x THEN v ELSE f[y]]

NewServer(a) ==
    [attempt |-> a, state |-> "idle", layout |-> <<>>, hashes |-> <<>>,
     sent |-> {}, open |-> {}]

Init ==
    /\ layout = None
    /\ nextLayout = None
    /\ dirty = FALSE
    /\ content = [a \in Attempts |-> <<>>]
    /\ pendingRequest = FALSE
    /\ pending = <<>>
    /\ writeTasks = <<>>
    /\ fileWrite = [w \in Attempts \X Paths |-> [status |-> "none", truncate |-> FALSE]]
    /\ queueSend = <<>>
    /\ queueReceived = <<>>
    /\ conn = "disconnected"
    /\ connects = 0
    /\ running = FALSE
    /\ exit = FALSE
    /\ pc = [t \in Threads |-> IF t = Main THEN "layout" ELSE "off"]
    /\ job = [t \in Threads |-> NoJob]
    /\ disk \in Disks
    /\ srv = NewServer(0)

Goto(t, to) == pc' = [pc EXCEPT ![t] = to]

\* Main has nothing at hand after this step, or keeps what it has.
MainGoto(to) == Goto(Main, to) /\ UNCHANGED job

Continue(p, to) == Goto(p, to) /\ UNCHANGED job

Connected == conn \in {"connected", "accepted"}

\* An answer is queued while connected and forgotten otherwise.
Queued(answer) == IF Connected THEN Append(queueSend, answer) ELSE queueSend

-------------------------------------------------------------------------------
(* Between two calls of Update(): the application connects and disconnects *)

ConnectTo ==
    /\ pc[Main] = "layout"
    /\ conn = "disconnected"
    /\ connects < MaxConnects
    /\ connects' = connects + 1
    /\ running' = TRUE
    /\ LET started == [t \in Threads |-> IF pc[t] = "off" THEN "idle" ELSE pc[t]]
       IN  \/ /\ conn' = "connecting"
              /\ pc' = started
              /\ UNCHANGED exit
           \/ /\ "address" \in Faults
              /\ exit' = TRUE
              /\ pc' = [started EXCEPT ![Main] = "join"]
              /\ UNCHANGED conn
    /\ UNCHANGED <<layouts, pendingRequest, pending, writing, queues, job, disk, srv>>

\* The connection is closed by Disconnect(), by the server, or fails.  The queues
\* and what the server asked for stay.
Close ==
    /\ conn' = "disconnected"
    /\ srv' = NewServer(srv.attempt)
    /\ UNCHANGED <<layouts, pendingRequest, pending, writing, queues, connects, life,
                   threads, disk>>

Disconnect ==
    /\ "close" \in Faults
    /\ pc[Main] = "layout"
    /\ conn # "disconnected"
    /\ Close

-------------------------------------------------------------------------------
(* Update(): first the layout, then the messages to send *)

DroppedIfDirty == dirty

Dropped == dirty /\ layout # None

UpdateLayoutChanged ==
    LET new == IF Dropped THEN None ELSE nextLayout IN
    /\ pc[Main] = "layout"
    /\ nextLayout' = new
    /\ layout' = new
    /\ dirty' = (dirty /\ ~ Dropped /\ new = layout)
    /\ MainGoto(IF new # layout THEN "changed" ELSE "send")
    /\ UNCHANGED <<content, pendingRequest, pending, writing, queues, connection,
                   life, disk, srv>>

OnFileLayoutChanged ==
    /\ pc[Main] = "changed"
    /\ IF pendingRequest /\ layout # None
       THEN /\ pendingRequest' = FALSE
            /\ queueSend' = Queued(Answer(LayoutRequest(srv.attempt), TRUE,
                                          content[layout]))
       ELSE UNCHANGED <<pendingRequest, queueSend>>
    /\ pending' = IF pendingRequest /\ layout = None
                  THEN Append(pending, LayoutRequest(srv.attempt)) ELSE pending
    /\ MainGoto("send")
    /\ UNCHANGED <<layouts, writing, queueReceived, connection, life, disk, srv>>

\* What the server makes of an answer: it finds the request by what it is about.
AnswerReceived(m) ==
    LET matching == {r \in srv.open : /\ r.kind = m.req.kind
                                      /\ r.path = m.req.path
                                      /\ r.index = m.req.index}
    IN  IF matching = {} THEN srv
        ELSE [srv EXCEPT
                !.open = @ \ matching,
                !.state = IF m.ok \/ m.req.kind = "hashes" THEN @ ELSE "failed",
                !.layout = IF m.req.kind = "layout" THEN m.body ELSE @,
                !.hashes = IF m.req.kind = "hashes" THEN With(@, m.req.path, m.body)
                                                    ELSE @]

\* SendQueuedMessages() sends while there is something to send.  The library
\* throws if there is no connection, and nothing catches it.
SendQueuedMessages ==
    /\ pc[Main] = "send"
    /\ IF queueSend = <<>>
       THEN MainGoto("receive") /\ UNCHANGED <<queueSend, srv>>
       ELSE /\ queueSend' = Tail(queueSend)
            /\ IF Connected
               THEN srv' = AnswerReceived(Head(queueSend)) /\ UNCHANGED threads
               ELSE MainGoto("thrown") /\ UNCHANGED srv
    /\ UNCHANGED <<layouts, pendingRequest, pending, writing, queueReceived,
                   connection, life, disk>>

-------------------------------------------------------------------------------
(* Update(): ProcessReceivedMessages().  The queue grows in pConnection->Update()
   only, so that taking all messages at once is taking one after the other. *)

Receives(kind) ==
    /\ pc[Main] = "receive"
    /\ queueReceived # <<>>
    /\ Head(queueReceived).kind = kind
    /\ queueReceived' = Tail(queueReceived)

ProcessRequestLayout ==
    LET r == Head(queueReceived) IN
    /\ Receives("layout")
    /\ IF layout # None
       THEN /\ pendingRequest' = FALSE
            /\ queueSend' = Queued(Answer(r, TRUE, content[layout]))
            /\ UNCHANGED pending
       ELSE /\ pendingRequest' = TRUE
            /\ pending' = IF \E e \in Range(pending) : e.kind = "layout"
                          THEN pending ELSE Append(pending, r)
            /\ UNCHANGED queueSend
    /\ UNCHANGED <<layouts, writing, connection, life, threads, disk, srv>>

\* The file found in the layout is put back without blocks, then the task queued.
\* No code sets the flag that would have the hashes answered from the layout.
ProcessRequestFileBlockHashes ==
    LET r == Head(queueReceived) IN
    /\ Receives("hashes")
    /\ IF layout # None /\ r.path \in DOMAIN content[layout]
       THEN /\ Goto(Main, "recut")
            /\ job' = [job EXCEPT ![Main] =
                  [JobOf(r) EXCEPT !.layout = layout, !.body = content[layout][r.path]]]
            /\ UNCHANGED queueSend
       ELSE queueSend' = Queued(Answer(r, FALSE, <<>>)) /\ UNCHANGED threads
    /\ UNCHANGED <<layouts, pendingRequest, pending, writing, connection, life,
                   disk, srv>>

PutFileWithoutBlocks ==
    LET j == job[Main] IN
    /\ pc[Main] = "recut"
    /\ content' = [content EXCEPT ![j.layout] = With(@, j.req.path, j.body)]
    /\ MainGoto("push")
    /\ UNCHANGED <<layout, nextLayout, dirty, pendingRequest, pending, writing,
                   queues, connection, life, disk, srv>>

AddPendingTask ==
    /\ pc[Main] = "push"
    /\ pending' = Append(pending, job[Main].req)
    /\ Goto(Main, "receive")
    /\ job' = [job EXCEPT ![Main] = NoJob]
    /\ UNCHANGED <<layouts, pendingRequest, writing, queues, connection, life, disk, srv>>

ProcessRequestDeleteFile ==
    /\ Receives("delete")
    /\ pending' = Append(pending, Head(queueReceived))
    /\ UNCHANGED <<layouts, pendingRequest, writing, queueSend, connection, life,
                   threads, disk, srv>>

\* The size a file shall have.
SizeToWrite(r) == Len(ServerDirs[r.at][r.path])

TruncatesNever(r) == FALSE

Truncates(r) ==
    /\ r.path \in DOMAIN content[layout]
    /\ Len(content[layout][r.path]) # SizeToWrite(r)

ProcessRequestWriteFile ==
    LET r == Head(queueReceived)
        file == [status |-> "pending", truncate |-> Truncates(r)]
    IN
    /\ Receives("write")
    /\ IF layout = None
       THEN /\ dirty' = TRUE
            /\ queueSend' = Queued(Answer(r, FALSE, <<>>))
            /\ UNCHANGED <<writing, threads>>
       ELSE /\ fileWrite' = [fileWrite EXCEPT ![<<r.at, r.path>>] = file]
            /\ writeTasks' = With(writeTasks, r.path, r.at)
            /\ Goto(Main, "push")
            /\ job' = [job EXCEPT ![Main] = JobOf(r)]
            /\ UNCHANGED <<dirty, queueSend>>
    /\ UNCHANGED <<layout, nextLayout, content, pendingRequest, pending, connection,
                   life, disk, srv>>

BlockTaskOffByOne(r, a) == [r EXCEPT !.at = a, !.index = @ + 1]

\* A block refers to the file task it is for, the one written at present.
BlockTask(r, a) == [r EXCEPT !.at = a]

\* A block of a file not being written is ignored.
ProcessSendFileData ==
    LET r == Head(queueReceived)
        a == writeTasks[r.path]
        size == SizeToWrite([r EXCEPT !.at = a])
    IN
    /\ Receives("data")
    /\ IF r.path \notin DOMAIN writeTasks
       THEN UNCHANGED <<fileWrite, pending>>
       ELSE IF r.index > 1 /\ r.index > size
       THEN /\ fileWrite' = [fileWrite EXCEPT ![<<a, r.path>>].status = "failure"]
            /\ UNCHANGED pending
       ELSE pending' = Append(pending, BlockTask(r, a)) /\ UNCHANGED fileWrite
    /\ UNCHANGED <<layouts, pendingRequest, writeTasks, queueSend, connection, life,
                   threads, disk, srv>>

ProcessRequestFinishWriteFile ==
    LET r == Head(queueReceived)
        a == writeTasks[r.path]
    IN
    /\ Receives("finish")
    /\ IF r.path \in DOMAIN writeTasks /\ fileWrite[a, r.path].status = "processing"
       THEN /\ fileWrite' = [fileWrite EXCEPT ![<<a, r.path>>].status = "finishing"]
            /\ pending' = Append(pending, [r EXCEPT !.at = a])
            /\ writeTasks' = Without(writeTasks, r.path)
       ELSE UNCHANGED <<writing, pending>>
    /\ UNCHANGED <<layouts, pendingRequest, queueSend, connection, life, threads,
                   disk, srv>>

NothingReceived ==
    /\ pc[Main] = "receive"
    /\ queueReceived = <<>>
    /\ MainGoto("net")
    /\ UNCHANGED <<layouts, pendingRequest, pending, writing, queues, connection,
                   life, disk, srv>>

-------------------------------------------------------------------------------
(* Update(): pConnection->Update() runs the callbacks of the connection *)

ConnectionEstablished ==
    /\ pc[Main] = "net"
    /\ conn = "connecting"
    /\ conn' = "connected"
    /\ UNCHANGED <<layouts, pendingRequest, pending, writing, queues, connects, life,
                   threads, disk, srv>>

\* The server accepts the connect request.
MessageReceivedConnect ==
    /\ pc[Main] = "net"
    /\ conn = "connected"
    /\ conn' = "accepted"
    /\ UNCHANGED <<layouts, pendingRequest, pending, writing, queues, connects, life,
                   threads, disk, srv>>

ConnectionClosed ==
    /\ "close" \in Faults
    /\ pc[Main] = "net"
    /\ conn # "disconnected"
    /\ Close

(* What the server asks for, given what it knows: derlTaskProcessorRemoteClient and
   derlRemoteClientConnection *)

SyncedDir == ServerDirs[srv.attempt]

SameSize(p) == p \in DOMAIN srv.layout /\ Len(srv.layout[p]) = Len(SyncedDir[p])

WritePaths ==
    {p \in DOMAIN SyncedDir : p \in DOMAIN srv.layout => srv.layout[p] # SyncedDir[p]}

HashPaths == {p \in WritePaths : SameSize(p)}

DeletePaths == DOMAIN srv.layout \ DOMAIN SyncedDir

\* A file without content has one block.
BlocksOf(file) == 1 .. (IF file = <<>> THEN 1 ELSE Len(file))

WriteBlocks(p) ==
    {i \in BlocksOf(SyncedDir[p]) :
        p \in HashPaths /\ i \in DOMAIN srv.hashes[p] =>
            srv.hashes[p][i] # SyncedDir[p][i]}

Ask(kind, p, i) == Request(kind, srv.attempt, p, i)

Answered(r) == r \in srv.sent \ srv.open

HashRequests == {Ask("hashes", p, 0) : p \in HashPaths}

DataRequests(p) == {Ask("data", p, i) : i \in WriteBlocks(p)}

\* For a file: write, then its blocks, then finish.
FileRequests(p) ==
    {Ask("write", p, 0)}
      \cup (IF Answered(Ask("write", p, 0)) THEN DataRequests(p) ELSE {})
      \cup (IF /\ Answered(Ask("write", p, 0))
               /\ \A r \in DataRequests(p) : Answered(r)
            THEN {Ask("finish", p, 0)} ELSE {})

WantedRequests ==
    IF ~ Answered(LayoutRequest(srv.attempt)) THEN {}
    ELSE HashRequests
           \cup (IF \A r \in HashRequests : Answered(r)
                 THEN {Ask("delete", p, 0) : p \in DeletePaths}
                        \cup UNION {FileRequests(p) : p \in WritePaths}
                 ELSE {})

\* Nothing is left to ask for, and everything was answered.
Finished ==
    /\ Answered(LayoutRequest(srv.attempt))
    /\ WantedRequests \subseteq srv.sent
    /\ srv.open = {}

\* A new attempt begins when the last one is over.  The fault "server" is that
\* the server ends it for reasons of its own.
BeginAttempt ==
    /\ srv.attempt < MaxAttempts
    /\ \/ srv.state # "work"
       \/ Finished
       \/ "server" \in Faults
    /\ LET a == srv.attempt + 1
           r == LayoutRequest(a)
       IN  /\ srv' = [NewServer(a) EXCEPT !.state = "work", !.sent = {r}, !.open = {r}]
           /\ queueReceived' = Append(queueReceived, r)

SendRequest ==
    /\ srv.state = "work"
    /\ \E r \in WantedRequests \ srv.sent :
          /\ srv' = [srv EXCEPT !.sent = @ \cup {r}, !.open = @ \cup {r}]
          /\ queueReceived' = Append(queueReceived, r)

MessageReceived ==
    /\ pc[Main] = "net"
    /\ conn = "accepted"
    /\ BeginAttempt \/ SendRequest
    /\ UNCHANGED <<layouts, pendingRequest, pending, writing, queueSend, connection,
                   life, threads, disk>>

\* The end of Update(): the processors are stopped if there is no connection.
StopTaskProcessors ==
    /\ pc[Main] = "net"
    /\ IF running /\ conn = "disconnected"
       THEN exit' = TRUE /\ MainGoto("join")
       ELSE MainGoto("layout") /\ UNCHANGED exit
    /\ UNCHANGED <<layouts, pendingRequest, pending, writing, queues, connection,
                   running, disk, srv>>

\* The processors are destroyed: those started later have not to exit.
JoinTaskProcessors ==
    /\ pc[Main] = "join"
    /\ \A p \in Procs : pc[p] = "off"
    /\ running' = FALSE
    /\ exit' = FALSE
    /\ MainGoto("layout")
    /\ UNCHANGED <<layouts, pendingRequest, pending, writing, queues, connection,
                   disk, srv>>

-------------------------------------------------------------------------------
(* Task processors *)

EligibleOnce(r) ==
    \/ r.kind = "layout"
    \/ /\ layout # None
       /\ r.kind \in {"write", "finish"} => fileWrite[r.at, r.path].status = "pending"

\* All tasks but that to build the layout wait for one.
Eligible(r) ==
    \/ r.kind = "layout"
    \/ /\ layout # None
       /\ r.kind \in {"write", "finish"} =>
             fileWrite[r.at, r.path].status \in {"pending", "finishing"}

FirstEligible(i) ==
    /\ Eligible(pending[i])
    /\ \A j \in 1 .. i - 1 : ~ Eligible(pending[j])

ErasedWithNext(i) == SubSeq(pending, 1, i - 1) \o SubSeq(pending, i + 2, Len(pending))

Erased(i) == RemoveAt(pending, i)

TakeTask(p) ==
    /\ pc[p] = "idle"
    /\ ~ exit
    /\ \E i \in DOMAIN pending :
          LET r == pending[i] IN
          /\ FirstEligible(i)
          /\ pending' = Erased(i)
          /\ Goto(p, r.kind)
          /\ job' = [job EXCEPT ![p] = JobOf(r)]
    /\ UNCHANGED <<layouts, pendingRequest, writing, queues, connection, life,
                   disk, srv>>

ExitRun(p) ==
    /\ pc[p] = "idle"
    /\ exit
    /\ Continue(p, "off")
    /\ UNCHANGED <<layouts, pendingRequest, pending, writing, queues, connection,
                   life, disk, srv>>

\* The thread is done with its task after this step.
Return(p) ==
    /\ Goto(p, "idle")
    /\ job' = [job EXCEPT ![p] = NoJob]

\* The thread goes on and remembers how the task went.
Went(p, ok, to) ==
    /\ Goto(p, to)
    /\ job' = [job EXCEPT ![p].ok = ok]

FailedClean(p) == Went(p, FALSE, "answer")

\* The tasks that fail make the layout dirty before they are answered.
Failed(p) == Went(p, FALSE, "dirty")

Succeeded(p) == Went(p, TRUE, "answer")

\* A file operation may fail for reasons outside.
DiskFault == "disk" \in Faults

SetDirtyFileLayout(p) ==
    /\ pc[p] = "dirty"
    /\ dirty' = TRUE
    /\ Continue(p, "answer")
    /\ UNCHANGED <<layout, nextLayout, content, pendingRequest, pending, writing,
                   queues, connection, life, disk, srv>>

SendResponse(p) ==
    /\ pc[p] = "answer"
    /\ queueSend' = Queued(Answer(job[p].req, job[p].ok, job[p].body))
    /\ Return(p)
    /\ UNCHANGED <<layouts, pendingRequest, pending, writing, queueReceived,
                   connection, life, disk, srv>>

(* ProcessFileLayout() *)

ListFiles(p) ==
    LET a == job[p].req.at IN
    /\ pc[p] = "layout"
    /\ content' = [content EXCEPT ![a] = <<>>]
    /\ Goto(p, "hashing")
    /\ job' = [job EXCEPT ![p].todo = DOMAIN disk]
    /\ UNCHANGED <<layout, nextLayout, dirty, pendingRequest, pending, writing,
                   queues, connection, life, disk, srv>>

\* A file that has gone or cannot be read ends the task.
AddFileToLayout(p) ==
    LET a == job[p].req.at IN
    /\ pc[p] = "hashing"
    /\ \E path \in job[p].todo :
          \/ /\ path \in DOMAIN disk
             /\ content' = [content EXCEPT ![a] = With(@, path, disk[path])]
             /\ job' = [job EXCEPT ![p].todo = @ \ {path}]
             /\ UNCHANGED pc
          \/ /\ path \notin DOMAIN disk \/ "build" \in Faults
             /\ Went(p, FALSE, "publish")
             /\ UNCHANGED content
    /\ UNCHANGED <<layout, nextLayout, dirty, pendingRequest, pending, writing,
                   queues, connection, life, disk, srv>>

\* Between two directories a processor that has to exit leaves out the rest.
CutShort == exit /\ "cut" \in Faults

LayoutBuilt(p) ==
    /\ pc[p] = "hashing"
    /\ job[p].todo = {} \/ CutShort
    /\ Went(p, TRUE, "publish")
    /\ UNCHANGED <<layouts, pendingRequest, pending, writing, queues, connection,
                   life, disk, srv>>

PublishedUnlessExit(j) == IF j.ok /\ ~ exit THEN j.req.at ELSE None

Published(j) == IF j.ok THEN j.req.at ELSE None

SetFileLayout(p) ==
    /\ pc[p] = "publish"
    /\ nextLayout' = Published(job[p])
    /\ Return(p)
    /\ UNCHANGED <<layout, dirty, content, pendingRequest, pending, writing, queues,
                   connection, life, disk, srv>>

(* ProcessFileBlockHashes() *)

CalcFileBlockHashes(p) ==
    LET path == job[p].req.path IN
    /\ pc[p] = "hashes"
    /\ \/ /\ layout = None \/ path \notin DOMAIN disk \/ DiskFault
          /\ Went(p, FALSE, "answer")
       \/ /\ layout # None /\ path \in DOMAIN disk
          /\ Goto(p, "store")
          /\ job' = [job EXCEPT ![p].layout = layout, ![p].body = disk[path]]
    /\ UNCHANGED <<layouts, pendingRequest, pending, writing, queues, connection,
                   life, disk, srv>>

\* The hashes go into a copy of the file in the layout, if it is still there.
StoreFileBlockHashes(p) ==
    LET j == job[p] IN
    /\ pc[p] = "store"
    /\ IF j.req.path \in DOMAIN content[j.layout]
       THEN Succeeded(p)
       ELSE /\ Goto(p, "answer")
            /\ job' = [job EXCEPT ![p].ok = FALSE, ![p].body = <<>>]
    /\ UNCHANGED <<layouts, pendingRequest, pending, writing, queues, connection,
                   life, disk, srv>>

(* ProcessDeleteFile() *)

DeleteFile(p) ==
    LET path == job[p].req.path IN
    /\ pc[p] = "delete"
    /\ IF layout = None
       THEN Failed(p) /\ UNCHANGED disk
       ELSE /\ Goto(p, "forget")
            /\ \/ /\ disk' = Without(disk, path)
                  /\ job' = [job EXCEPT ![p].layout = layout]
               \/ /\ DiskFault
                  /\ job' = [job EXCEPT ![p].layout = layout, ![p].ok = FALSE]
                  /\ UNCHANGED disk
    /\ UNCHANGED <<layouts, pendingRequest, pending, writing, queues, connection,
                   life, srv>>

\* The layout is the one present when the task began.
RemoveFileIfPresent(p) ==
    LET j == job[p] IN
    /\ pc[p] = "forget"
    /\ content' = [content EXCEPT ![j.layout] = Without(@, j.req.path)]
    /\ Continue(p, IF j.ok THEN "answer" ELSE "dirty")
    /\ UNCHANGED <<layout, nextLayout, dirty, pendingRequest, pending, writing,
                   queues, connection, life, disk, srv>>

(* ProcessWriteFile(), ProcessWriteFileBlock(), ProcessFinishWriteFile() *)

SetStatus(r, status) ==
    fileWrite' = [fileWrite EXCEPT ![<<r.at, r.path>>].status = status]

TruncatedFile(path) == With(disk, path, <<>>)

WriteFile(p) ==
    LET r == job[p].req
        truncate == fileWrite[r.at, r.path].truncate
    IN
    /\ pc[p] = "write"
    /\ \/ /\ disk' = IF truncate THEN TruncatedFile(r.path) ELSE disk
          /\ SetStatus(r, "processing")
          /\ Succeeded(p)
       \/ /\ truncate /\ DiskFault
          /\ SetStatus(r, "failure")
          /\ Failed(p)
          /\ UNCHANGED disk
    /\ UNCHANGED <<layouts, pendingRequest, pending, writeTasks, queues, connection,
                   life, srv>>

OpensInPlaceNever(path) == FALSE

OpensInPlace(path) == path \in DOMAIN disk

\* OpenFile() tests whether the file exists, then opens it in place if so, or
\* creates it, which empties a file created in the meantime.
LookForFile(p) ==
    /\ pc[p] = "data"
    /\ Continue(p, IF OpensInPlace(job[p].req.path) THEN "open" ELSE "create")
    /\ UNCHANGED <<layouts, pendingRequest, pending, writing, queues, connection,
                   life, disk, srv>>

OpenFile(p) ==
    LET path == job[p].req.path IN
    /\ pc[p] \in {"open", "create"}
    /\ \/ /\ pc[p] = "create" \/ path \in DOMAIN disk
          /\ disk' = IF pc[p] = "create" THEN With(disk, path, <<>>) ELSE disk
          /\ Continue(p, "put")
       \/ /\ DiskFault \/ (pc[p] = "open" /\ path \notin DOMAIN disk)
          /\ Failed(p)
          /\ UNCHANGED disk
    /\ UNCHANGED <<layouts, pendingRequest, pending, writing, queues, connection,
                   life, srv>>

\* The file with block i set, a gap before it filled with holes.
Put(file, i, block) ==
    LET length == IF i > Len(file) THEN i ELSE Len(file)
    IN  [k \in 1 .. length |-> CASE k = i -> block
                                 [] k # i /\ k \in DOMAIN file -> file[k]
                                 [] OTHER -> Hole]

\* What writing the block the request is about makes of the file.  A block of a
\* file without content writes nothing.
Written(r, file) ==
    LET new == ServerDirs[r.at][r.path]
    IN  IF r.index \in DOMAIN new THEN Put(file, r.index, new[r.index]) ELSE file

\* A write that fails may have left anything in the block.
WriteBlock(p) ==
    LET r == job[p].req
        old == disk[r.path]
    IN
    /\ pc[p] = "put"
    /\ IF r.path \notin DOMAIN disk
       THEN Succeeded(p) /\ UNCHANGED disk
       ELSE \/ disk' = With(disk, r.path, Written(r, old)) /\ Succeeded(p)
            \/ /\ DiskFault
               /\ disk' \in {disk, With(disk, r.path, Put(old, r.index, Hole))}
               /\ Failed(p)
    /\ UNCHANGED <<layouts, pendingRequest, pending, writing, queues, connection,
                   life, srv>>

\* CalcFileHash() reads as much of the file as it shall have.
Validates(r) ==
    LET new == ServerDirs[r.at][r.path]
    IN  \/ new = <<>>
        \/ /\ r.path \in DOMAIN disk
           /\ Len(disk[r.path]) >= Len(new)
           /\ SubSeq(disk[r.path], 1, Len(new)) = new

FinishWriteFile(p) ==
    LET r == job[p].req IN
    /\ pc[p] = "finish"
    /\ \/ Validates(r) /\ SetStatus(r, "success") /\ Went(p, TRUE, "add")
       \/ ~ Validates(r) /\ SetStatus(r, "validationFailed") /\ Failed(p)
       \/ DiskFault /\ SetStatus(r, "failure") /\ Failed(p)
    /\ UNCHANGED <<layouts, pendingRequest, pending, writeTasks, queues, connection,
                   life, disk, srv>>

AddFile(p) ==
    LET r == job[p].req IN
    /\ pc[p] = "add"
    /\ IF layout = None
       THEN SetStatus(r, "failure") /\ Failed(p) /\ UNCHANGED content
       ELSE /\ content' = [content EXCEPT ![layout] =
                  With(@, r.path, ServerDirs[r.at][r.path])]
            /\ Succeeded(p)
            /\ UNCHANGED fileWrite
    /\ UNCHANGED <<layout, nextLayout, dirty, pendingRequest, pending, writeTasks,
                   queues, connection, life, disk, srv>>

-------------------------------------------------------------------------------
UpdateStep ==
    \/ UpdateLayoutChanged
    \/ OnFileLayoutChanged
    \/ SendQueuedMessages
    \/ ProcessRequestLayout
    \/ ProcessRequestFileBlockHashes
    \/ PutFileWithoutBlocks
    \/ AddPendingTask
    \/ ProcessRequestDeleteFile
    \/ ProcessRequestWriteFile
    \/ ProcessSendFileData
    \/ ProcessRequestFinishWriteFile
    \/ NothingReceived
    \/ StopTaskProcessors
    \/ JoinTaskProcessors

NetworkStep ==
    \/ ConnectionEstablished
    \/ MessageReceivedConnect
    \/ MessageReceived

RunTaskStep(p) ==
    \/ ListFiles(p)
    \/ AddFileToLayout(p)
    \/ LayoutBuilt(p)
    \/ SetFileLayout(p)
    \/ CalcFileBlockHashes(p)
    \/ StoreFileBlockHashes(p)
    \/ DeleteFile(p)
    \/ RemoveFileIfPresent(p)
    \/ WriteFile(p)
    \/ LookForFile(p)
    \/ OpenFile(p)
    \/ WriteBlock(p)
    \/ FinishWriteFile(p)
    \/ AddFile(p)
    \/ SetDirtyFileLayout(p)
    \/ SendResponse(p)

ProcStep(p) == TakeTask(p) \/ ExitRun(p) \/ RunTaskStep(p)

Next ==
    \/ ConnectTo
    \/ Disconnect
    \/ ConnectionClosed
    \/ UpdateStep
    \/ NetworkStep
    \/ \E p \in Procs : ProcStep(p)

Spec == Init /\ [][Next]_vars

(* Update() is called again and again, the processors run, the network connects
   and the server asks.  Whether to connect, and whether the connection lasts,
   is not assured. *)
FairSpec ==
    /\ Spec
    /\ WF_vars(UpdateStep)
    /\ WF_vars(NetworkStep)
    /\ \A p \in Procs : WF_vars(ProcStep(p))
-------------------------------------------------------------------------------
(* Properties *)

Kinds == {"hashes", "delete", "write", "data", "finish"}

Indices ==
    {0} \cup UNION {BlocksOf(file) : file \in UNION {Range(ServerDirs[a]) : a \in Attempts}}

Requests ==
    {LayoutRequest(a) : a \in Attempts}
      \cup {Request(k, a, p, i) : k \in Kinds, a \in Attempts, p \in Paths, i \in Indices}

IsAnswer(m) ==
    /\ m.req \in Requests
    /\ m.ok \in BOOLEAN
    /\ IF m.req.kind = "layout" THEN IsDir(m.body) ELSE m.body \in Seq(Blocks)

MainPC == {"layout", "changed", "send", "receive", "recut", "push", "net", "join",
           "thrown"}

ProcPC == {"off", "idle", "layout", "hashing", "publish", "hashes", "store",
           "delete", "forget", "write", "data", "open", "create", "put", "finish",
           "add", "dirty", "answer"}

TypeOK ==
    /\ layout \in 0 .. MaxAttempts
    /\ nextLayout \in 0 .. MaxAttempts
    /\ dirty \in BOOLEAN
    /\ \A a \in Attempts : IsDir(content[a])
    /\ pendingRequest \in BOOLEAN
    /\ Range(pending) \subseteq Requests
    /\ writeTasks \in [DOMAIN writeTasks -> Attempts]
    /\ DOMAIN writeTasks \subseteq Paths
    /\ fileWrite \in [Attempts \X Paths ->
          [status : {"none", "pending", "processing", "finishing", "success",
                     "failure", "validationFailed"},
           truncate : BOOLEAN]]
    /\ \A i \in DOMAIN queueSend : IsAnswer(queueSend[i])
    /\ Range(queueReceived) \subseteq Requests
    /\ conn \in {"disconnected", "connecting", "connected", "accepted"}
    /\ connects \in 0 .. MaxConnects
    /\ running \in BOOLEAN
    /\ exit \in BOOLEAN
    /\ pc[Main] \in MainPC
    /\ \A p \in Procs : pc[p] \in ProcPC
    /\ \A t \in Threads : job[t].req \in Requests \cup {NoRequest}
    /\ IsDir(disk)
    /\ srv.attempt \in 0 .. MaxAttempts
    /\ srv.open \subseteq srv.sent /\ srv.sent \subseteq Requests

Busy(p) == pc[p] \notin {"off", "idle"}

(* Where a request can be: waiting to be looked at, in the hands of Main, a task
   waiting or running, an answer waiting to be sent. *)
Places(r) ==
    Cardinality({i \in DOMAIN queueReceived : queueReceived[i] = r})
      + Cardinality({i \in DOMAIN pending : pending[i] = r})
      + Cardinality({t \in Threads : job[t].req = r})
      + Cardinality({i \in DOMAIN queueSend : queueSend[i].req = r})

(* No request of the server gets lost on its way through three threads and three
   queues, and none is answered twice: while the server waits for an answer,
   there is exactly one thing that will become it. *)
RequestInOnePlace ==
    \A r \in srv.open : r.kind # "layout" => Places(r) = 1

(* A request for the layout that cannot be answered yet will be: the layout is
   queued to be built, being built, or built and waiting for Update(). *)
LayoutRequestServed ==
    pendingRequest =>
        \/ \E e \in Range(pending) : e.kind = "layout"
        \/ \E p \in Procs : Busy(p) /\ job[p].req.kind = "layout"
        \/ nextLayout # None

(* Nobody works on the file at this path, and no write of it is unfinished. *)
Settled(p) ==
    /\ p \notin DOMAIN writeTasks
    /\ \A e \in Range(pending) : e.path # p
    /\ \A t \in Procs : job[t].req.path # p

SameAt(d, e, p) ==
    /\ p \in DOMAIN d <=> p \in DOMAIN e
    /\ p \in DOMAIN d => d[p] = e[p]

SameDir(d, e) == \A p \in Paths : SameAt(d, e, p)

(* The layout kept between synchronisations tells the truth about every file no
   task is about, unless it is marked dirty: a new attempt is answered from it
   without looking at the disk. *)
LayoutTrue ==
    layout # None /\ ~ dirty =>
        \A p \in Paths : Settled(p) => SameAt(content[layout], disk, p)

(* An answer that reports success is true when it is sent: the layout and the
   block hashes are those of the disk, a deleted file is gone, a file about to be
   written is not longer than it shall be, a finished file is the server's. *)
AnswersTrue ==
    \A i \in DOMAIN queueSend :
        LET m == queueSend[i]
            r == m.req
        IN
        m.ok => CASE r.kind = "layout" -> m.body = disk
                  [] r.kind = "hashes" -> r.path \in DOMAIN disk /\ m.body = disk[r.path]
                  [] r.kind = "delete" -> r.path \notin DOMAIN disk
                  [] r.kind = "write" ->
                        r.path \in DOMAIN disk => Len(disk[r.path]) <= SizeToWrite(r)
                  [] r.kind = "finish" ->
                        /\ r.path \in DOMAIN disk
                        /\ disk[r.path] = ServerDirs[r.at][r.path]
                  [] OTHER -> TRUE

(* A block holds its file task by reference: until it is answered somebody else
   has to keep the file task alive. *)
KeptAlive(a, p) ==
    \/ p \in DOMAIN writeTasks /\ writeTasks[p] = a
    \/ \E e \in Range(pending) \cup {job[t].req : t \in Procs} :
          e.kind \in {"write", "finish"} /\ e.at = a /\ e.path = p

ParentAlive ==
    \A e \in Range(pending) \cup {job[t].req : t \in Procs} :
        e.kind = "data" => KeptAlive(e.at, e.path)

(* Update() sends over a connection only: without, the library throws out of it. *)
UpdateNeverThrows == pc[Main] # "thrown"

(* The end of an attempt, seen from the server: with every request answered and no
   answer reporting a failure, the data directory is the server's. *)
SynchronizedTruly ==
    srv.state = "work" /\ Finished => SameDir(disk, SyncedDir)

(* Without a fault of the environment no answer reports a failure: an attempt never
   fails because of how Update() and the processor interleave. *)
NothingFails == srv.state # "failed"

(* Every request is answered, or the attempt fails by another answer. *)
RequestsAnswered ==
    \A r \in Requests : r \in srv.open ~> r \notin srv.open \/ srv.state # "work"
===============================================================================
