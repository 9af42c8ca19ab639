------------------------------ MODULE SessionProofs -----------------------------
(***************************************************************************)
(* Theorems about Session: the server and the launcher, each proved about  *)
(* against a model of the other, run against each other.                   *)
(***************************************************************************)
EXTENDS Session, RemoteClientProofs

\* The launcher's model with what is proved about it.
LP == INSTANCE LauncherClientProofs WITH
    Main <- LauncherMain,
    Procs <- LauncherProcs,
    Disks <- ClientDirs,
    ServerDirs <- [s \in Syncs |-> ServerDir],
    Faults <- LauncherFaults,
    MaxAttempts <- MaxSyncs,
    MaxConnects <- 1,
    pending <- lPending,
    queueSend <- lQueueSend,
    queueReceived <- lQueueReceived,
    pc <- lPc

-------------------------------------------------------------------------------
(* The assumptions of the launcher's model *)

LEMMA SameDirs == \A d : LP!IsDir(d) <=> IsDir(d)
BY DEF IsDir, IsMap, LP!IsDir, Blocks, LP!Blocks

LEMMA LauncherAssumptions ==
    /\ LauncherMain \notin LauncherProcs
    /\ \A d \in ClientDirs : LP!IsDir(d)
    /\ DOMAIN [s \in Syncs |-> ServerDir] = LP!Attempts
    /\ \A a \in LP!Attempts : LP!IsDir([s \in Syncs |-> ServerDir][a])
    /\ NoPath \notin Paths /\ Hole \notin Data
    /\ LauncherFaults \subseteq LP!AllFaults
    /\ MaxSyncs \in Nat /\ 1 \in Nat
<1>1. Syncs = LP!Attempts
  BY DEF Syncs, LP!Attempts
<1> QED
  BY <1>1, SameDirs, DirsAssumption, LimitsAssumption, LauncherThreadsAssumption,
     LauncherNamesAssumption, LauncherFaultsAssumption
     DEF LP!AllFaults

\* A step of the launcher keeps the types of the launcher, and serves the layout.
LEMMA LauncherKeepsTypes ==
    ASSUME LP!Typed, LP!Next \/ UNCHANGED LP!vars
    PROVE  LP!Typed'
BY LP!NextTyped, LauncherAssumptions

LEMMA LauncherServes ==
    ASSUME LP!Typed, LP!ServedInv, LP!Next \/ UNCHANGED LP!vars,
           \A p, q \in LauncherProcs : p = q, "build" \notin LauncherFaults
    PROVE  LP!ServedInv'
BY LP!NextServes, LauncherAssumptions

LEMMA LauncherBegins ==
    ASSUME LP!Init
    PROVE  LP!Typed /\ LP!ServedInv
BY LP!InitTyped, LP!InitServed, LauncherAssumptions

\* The two instances of the launcher's model are one.
LEMMA OneLauncher ==
    /\ Launcher!Init => LP!Init
    /\ Launcher!ConnectTo => LP!ConnectTo
    /\ Launcher!ConnectionEstablished => LP!ConnectionEstablished
    /\ Launcher!MessageReceivedConnect => LP!MessageReceivedConnect
    /\ \A p : Launcher!ProcStep(p) => LP!ProcStep(p)
    /\ Launcher!UpdateLayoutChanged => LP!UpdateLayoutChanged
    /\ Launcher!OnFileLayoutChanged => LP!OnFileLayoutChanged
    /\ Launcher!SendQueuedMessages => LP!SendQueuedMessages
    /\ Launcher!ProcessRequestLayout => LP!ProcessRequestLayout
    /\ Launcher!ProcessRequestFileBlockHashes => LP!ProcessRequestFileBlockHashes
    /\ Launcher!PutFileWithoutBlocks => LP!PutFileWithoutBlocks
    /\ Launcher!AddPendingTask => LP!AddPendingTask
    /\ Launcher!ProcessRequestDeleteFile => LP!ProcessRequestDeleteFile
    /\ Launcher!ProcessRequestWriteFile => LP!ProcessRequestWriteFile
    /\ Launcher!ProcessSendFileData => LP!ProcessSendFileData
    /\ Launcher!ProcessRequestFinishWriteFile => LP!ProcessRequestFinishWriteFile
    /\ Launcher!NothingReceived => LP!NothingReceived
    /\ Launcher!StopTaskProcessors => LP!StopTaskProcessors
<1> USE DEF Launcher!Dropped, LP!Dropped, Launcher!None, LP!None, Launcher!MainGoto,
       LP!MainGoto, Launcher!Goto, LP!Goto, Launcher!writing, LP!writing, Launcher!queues,
       LP!queues, Launcher!connection, LP!connection, Launcher!life, LP!life,
       Launcher!Queued, LP!Queued, Launcher!Connected, LP!Connected, Launcher!Answer,
       LP!Answer, Launcher!LayoutRequest, LP!LayoutRequest, Launcher!Request, LP!Request,
       Launcher!layouts, LP!layouts, Launcher!AnswerReceived, LP!AnswerReceived,
       Launcher!With, LP!With, Launcher!threads, LP!threads, Launcher!Receives, LP!Receives,
       Launcher!Range, LP!Range, Launcher!JobOf, LP!JobOf, Launcher!NoJob, LP!NoJob,
       Launcher!NoRequest, LP!NoRequest, Launcher!Truncates, LP!Truncates,
       Launcher!SizeToWrite, LP!SizeToWrite, Launcher!BlockTask, LP!BlockTask,
       Launcher!Without, LP!Without, Launcher!Restrict, LP!Restrict, Launcher!Attempts,
       LP!Attempts, Launcher!Threads, LP!Threads, Launcher!NewServer, LP!NewServer,
       Launcher!FirstEligible, LP!FirstEligible, Launcher!Eligible, LP!Eligible,
       Launcher!Erased, LP!Erased, Launcher!RemoveAt, LP!RemoveAt, Launcher!Continue,
       LP!Continue, Launcher!Went, LP!Went, Launcher!CutShort, LP!CutShort,
       Launcher!Published, LP!Published, Launcher!Return, LP!Return, Launcher!DiskFault,
       LP!DiskFault, Launcher!Succeeded, LP!Succeeded, Launcher!Failed, LP!Failed,
       Launcher!TruncatedFile, LP!TruncatedFile, Launcher!SetStatus, LP!SetStatus,
       Launcher!OpensInPlace, LP!OpensInPlace, Launcher!Written, LP!Written, Launcher!Put,
       LP!Put, Launcher!Validates, LP!Validates
<1>1. Launcher!Init => LP!Init
  BY DEF Launcher!Init, LP!Init
<1>2. Launcher!ConnectTo => LP!ConnectTo
  BY DEF Launcher!ConnectTo, LP!ConnectTo
<1>3. Launcher!ConnectionEstablished => LP!ConnectionEstablished
  BY DEF Launcher!ConnectionEstablished, LP!ConnectionEstablished
<1>4. Launcher!MessageReceivedConnect => LP!MessageReceivedConnect
  BY DEF Launcher!MessageReceivedConnect, LP!MessageReceivedConnect
<1>5. Launcher!UpdateLayoutChanged => LP!UpdateLayoutChanged
  BY DEF Launcher!UpdateLayoutChanged, LP!UpdateLayoutChanged
<1>6. Launcher!OnFileLayoutChanged => LP!OnFileLayoutChanged
  BY DEF Launcher!OnFileLayoutChanged, LP!OnFileLayoutChanged
<1>7. Launcher!SendQueuedMessages => LP!SendQueuedMessages
  BY DEF Launcher!SendQueuedMessages, LP!SendQueuedMessages
<1>8. Launcher!ProcessRequestLayout => LP!ProcessRequestLayout
  BY DEF Launcher!ProcessRequestLayout, LP!ProcessRequestLayout
<1>9. Launcher!ProcessRequestFileBlockHashes => LP!ProcessRequestFileBlockHashes
  BY DEF Launcher!ProcessRequestFileBlockHashes, LP!ProcessRequestFileBlockHashes
<1>10. Launcher!PutFileWithoutBlocks => LP!PutFileWithoutBlocks
  BY DEF Launcher!PutFileWithoutBlocks, LP!PutFileWithoutBlocks
<1>11. Launcher!AddPendingTask => LP!AddPendingTask
  BY DEF Launcher!AddPendingTask, LP!AddPendingTask
<1>12. Launcher!ProcessRequestDeleteFile => LP!ProcessRequestDeleteFile
  BY DEF Launcher!ProcessRequestDeleteFile, LP!ProcessRequestDeleteFile
<1>13. Launcher!ProcessRequestWriteFile => LP!ProcessRequestWriteFile
  BY DEF Launcher!ProcessRequestWriteFile, LP!ProcessRequestWriteFile
<1>14. Launcher!ProcessSendFileData => LP!ProcessSendFileData
  BY DEF Launcher!ProcessSendFileData, LP!ProcessSendFileData
<1>15. Launcher!ProcessRequestFinishWriteFile => LP!ProcessRequestFinishWriteFile
  BY DEF Launcher!ProcessRequestFinishWriteFile, LP!ProcessRequestFinishWriteFile
<1>16. Launcher!NothingReceived => LP!NothingReceived
  BY DEF Launcher!NothingReceived, LP!NothingReceived
<1>17. Launcher!StopTaskProcessors => LP!StopTaskProcessors
  BY DEF Launcher!StopTaskProcessors, LP!StopTaskProcessors
<1>18. ASSUME NEW p
      PROVE  Launcher!ProcStep(p) => LP!ProcStep(p)
  <2>1. Launcher!TakeTask(p) => LP!TakeTask(p)
    BY DEF Launcher!TakeTask, LP!TakeTask
  <2>2. Launcher!ExitRun(p) => LP!ExitRun(p)
    BY DEF Launcher!ExitRun, LP!ExitRun
  <2>3. Launcher!ListFiles(p) => LP!ListFiles(p)
    BY DEF Launcher!ListFiles, LP!ListFiles
  <2>4. Launcher!AddFileToLayout(p) => LP!AddFileToLayout(p)
    BY DEF Launcher!AddFileToLayout, LP!AddFileToLayout
  <2>5. Launcher!LayoutBuilt(p) => LP!LayoutBuilt(p)
    BY DEF Launcher!LayoutBuilt, LP!LayoutBuilt
  <2>6. Launcher!SetFileLayout(p) => LP!SetFileLayout(p)
    BY DEF Launcher!SetFileLayout, LP!SetFileLayout
  <2>7. Launcher!CalcFileBlockHashes(p) => LP!CalcFileBlockHashes(p)
    BY DEF Launcher!CalcFileBlockHashes, LP!CalcFileBlockHashes
  <2>8. Launcher!StoreFileBlockHashes(p) => LP!StoreFileBlockHashes(p)
    BY DEF Launcher!StoreFileBlockHashes, LP!StoreFileBlockHashes
  <2>9. Launcher!DeleteFile(p) => LP!DeleteFile(p)
    BY DEF Launcher!DeleteFile, LP!DeleteFile
  <2>10. Launcher!RemoveFileIfPresent(p) => LP!RemoveFileIfPresent(p)
    BY DEF Launcher!RemoveFileIfPresent, LP!RemoveFileIfPresent
  <2>11. Launcher!WriteFile(p) => LP!WriteFile(p)
    BY DEF Launcher!WriteFile, LP!WriteFile
  <2>12. Launcher!LookForFile(p) => LP!LookForFile(p)
    BY DEF Launcher!LookForFile, LP!LookForFile
  <2>13. Launcher!OpenFile(p) => LP!OpenFile(p)
    BY DEF Launcher!OpenFile, LP!OpenFile
  <2>14. Launcher!WriteBlock(p) => LP!WriteBlock(p)
    BY DEF Launcher!WriteBlock, LP!WriteBlock
  <2>15. Launcher!FinishWriteFile(p) => LP!FinishWriteFile(p)
    BY DEF Launcher!FinishWriteFile, LP!FinishWriteFile
  <2>16. Launcher!AddFile(p) => LP!AddFile(p)
    BY DEF Launcher!AddFile, LP!AddFile
  <2>17. Launcher!SetDirtyFileLayout(p) => LP!SetDirtyFileLayout(p)
    BY DEF Launcher!SetDirtyFileLayout, LP!SetDirtyFileLayout
  <2>18. Launcher!SendResponse(p) => LP!SendResponse(p)
    BY DEF Launcher!SendResponse, LP!SendResponse
  <2> QED
    BY <2>1, <2>2, <2>3, <2>4, <2>5, <2>6, <2>7, <2>8, <2>9, <2>10, <2>11, <2>12, <2>13,
       <2>14, <2>15, <2>16, <2>17, <2>18
       DEF Launcher!ProcStep, LP!ProcStep, Launcher!RunTaskStep, LP!RunTaskStep
<1> QED
  BY Zenon, <1>1, <1>2, <1>3, <1>4, <1>5, <1>6, <1>7, <1>8, <1>9, <1>10, <1>11, <1>12,
     <1>13, <1>14, <1>15, <1>16, <1>17, <1>18

-------------------------------------------------------------------------------
(* What the server asks for *)

\* The server has the files it asks the launcher to write.
ServerAsks ==
    {r \in Requests : r.kind \in {"write", "finish"} => r.path \in DOMAIN ServerDir}

LEMMA AsksOfServer ==
    ASSUME NEW s \in Syncs
    PROVE  /\ LayoutRequest(s) \in ServerAsks
           /\ \A k \in {"hashes", "delete"}, p \in Paths : PathRequest(k, s, p) \in ServerAsks
           /\ \A k \in {"write", "finish"}, p \in DOMAIN ServerDir :
                 PathRequest(k, s, p) \in ServerAsks
           /\ \A p \in DOMAIN ServerDir : \A i \in ServerBlocks(p) :
                 DataRequest(s, p, i) \in ServerAsks
BY QueueMembers, ServerDirProperties DEF ServerAsks, LayoutRequest, PathRequest, DataRequest

\* What is asked for joins the queue at its end.
Asks(u) == u \in Seq(ServerAsks) /\ queueSend' = queueSend \o u

LEMMA AsksNothing ==
    ASSUME TypeOK, UNCHANGED queueSend
    PROVE  \E u : Asks(u)
<1>1. queueSend \in Seq(Requests) /\ <<>> \in Seq(ServerAsks)
  BY EmptySeq DEF TypeOK, QueuesTypeOK
<1>2. Asks(<<>>)
  BY <1>1, ConcatEmptySeq DEF Asks
<1> QED
  BY <1>2

LEMMA AsksOne ==
    ASSUME TypeOK, NEW r \in ServerAsks, queueSend' = Append(queueSend, r)
    PROVE  \E u : Asks(u)
<1>1. queueSend \in Seq(Requests) /\ r \in Requests
  BY DEF TypeOK, QueuesTypeOK, ServerAsks
<1>2. Append(queueSend, r) = queueSend \o <<r>>
  BY <1>1, AppendIsConcat
<1>3. <<r>> \in Seq(ServerAsks)
  OBVIOUS
<1> QED
  BY <1>2, <1>3 DEF Asks

LEMMA SynchronizeAsks ==
    ASSUME TypeOK, Synchronize
    PROVE  \E u : Asks(u) /\ u # <<>> /\ Head(u).kind = "layout"
<1>1. syncs + 1 \in Syncs
  BY LimitsAssumption DEF Synchronize, TypeOK, ClientTypeOK, Syncs
<1> DEFINE r == LayoutRequest(syncs + 1)
           u == <<r>>
<1>2. r \in ServerAsks /\ r.kind = "layout"
  BY <1>1, AsksOfServer DEF LayoutRequest
<1>3. queueSend' = Append(queueSend, r) /\ queueSend \in Seq(Requests) /\ r \in Requests
  BY <1>2 DEF Synchronize, TypeOK, QueuesTypeOK, ServerAsks
<1> HIDE DEF r
<1>4. Append(queueSend, r) = queueSend \o u
  BY <1>3, AppendIsConcat
<1>5. u \in Seq(ServerAsks) /\ u # <<>> /\ Head(u) = r
  BY <1>2
<1> QED
  BY <1>2, <1>3, <1>4, <1>5 DEF Asks

LEMMA SendFileDataAsksOwn ==
    ASSUME TypeOK, NEW t \in Threads, NEW p, SendFileData(t, p)
    PROVE  \E u : Asks(u)
<1> DEFINE s == sync[t]
           blocks == task[s].writes[p].blocks
           empty == ServerDir[p] = <<>>
           visited(S) == {i \in DOMAIN blocks : \A j \in DOMAIN blocks \ S :
                            blocks[j] = "pending" => i < j}
           reads(S) == IF empty THEN {} ELSE S
           sends(S) == {i \in visited(S) : blocks[i] = "dataReady"} \cup (S \ reads(S))
<1>1. pc[t] # "idle" /\ p \in DOMAIN task[s].writes
  BY Zenon DEF SendFileData, Visit, Writing
<1>2. s \in Syncs /\ IsSyncTask(task[s])
  BY <1>1, SyncOfBusyThread
<1>3. p \in DOMAIN ServerDir /\ DOMAIN blocks \subseteq ServerBlocks(p)
  BY <1>1, <1>2 DEF IsSyncTask, IsWriteTask, IsMap
<1>4. PICK S \in Started(blocks) :
         \E q \in Ascending(sends(S)) :
            queueSend' = queueSend \o [n \in DOMAIN q |-> DataRequest(s, p, q[n])]
  BY Zenon DEF SendFileData
<1>5. sends(S) \in SUBSET ServerBlocks(p)
  BY <1>3 DEF Started
<1> HIDE DEF s, blocks, sends
<1>6. IsFiniteSet(sends(S))
  BY <1>3, <1>5, ServerDirProperties, FS_Subset
<1>7. PICK q \in Ascending(sends(S)) :
         queueSend' = queueSend \o [n \in DOMAIN q |-> DataRequest(s, p, q[n])]
  BY <1>4
<1> DEFINE u == [n \in DOMAIN q |-> DataRequest(s, p, q[n])]
<1>8. /\ Cardinality(sends(S)) \in Nat
      /\ DOMAIN q = 1 .. Cardinality(sends(S))
      /\ \A n \in DOMAIN q : q[n] \in sends(S)
  BY <1>6, AscendingProperties
<1>9. u \in [1 .. Cardinality(sends(S)) -> ServerAsks]
  BY <1>2, <1>3, <1>5, <1>8, AsksOfServer
<1>10. u \in Seq(ServerAsks)
  BY <1>8, <1>9, SeqDef
<1> QED
  BY <1>7, <1>10 DEF Asks

LEMMA SharedStepAsks ==
    ASSUME TypeOK, NEW t \in Threads, SharedStep(t)
    PROVE  \E u : Asks(u)
<1>1. ASSUME NEW p \in todo[t], SendFileData(t, p)
      PROVE  \E u : Asks(u)
  BY <1>1, SendFileDataAsksOwn
<1>2. ASSUME NEW p \in todo[t], RequestWriteFile(t, p) \/ RequestFinishWriteFile(t, p)
      PROVE  \E u : Asks(u)
  <2>1. pc[t] # "idle" /\ p \in DOMAIN task[sync[t]].writes
    BY <1>2, Zenon DEF RequestWriteFile, RequestFinishWriteFile, Visit, Writing
  <2>2. sync[t] \in Syncs /\ p \in DOMAIN ServerDir
    BY <2>1, SyncOfBusyThread DEF IsSyncTask
  <2>3. \/ UNCHANGED queueSend
        \/ \E k \in {"write", "finish"} :
              queueSend' = Append(queueSend, PathRequest(k, sync[t], p))
    BY <1>2, Zenon DEF RequestWriteFile, RequestFinishWriteFile
  <2> QED
    BY <2>2, <2>3, AsksOfServer, AsksNothing, AsksOne
<1>3. CASE UNCHANGED queueSend
  BY <1>3, AsksNothing
<1> QED
  BY <1>1, <1>2, <1>3
     DEF SharedStep, FinishLayout, SendNextWriteRequests, LockForSending, SkipFile,
         SendingDone, SucceedSynchronization, FailSynchronization, ClearPendingTasks,
         queues

LEMMA RunTaskStepAsks ==
    ASSUME TypeOK, NEW p \in Procs, RunTaskStep(p)
    PROVE  \E u : Asks(u)
<1>1. CASE AddFileBlockHashTask(p) \/ AddFileDeleteTask(p)
  <2>1. PICK path \in todo[p], k \in {"hashes", "delete"} :
           queueSend' = Append(queueSend, PathRequest(k, sync[p], path))
    BY <1>1, Zenon DEF AddFileBlockHashTask, AddFileDeleteTask
  <2>2. p \in Threads /\ pc[p] # "idle"
    BY <1>1 DEF AddFileBlockHashTask, AddFileDeleteTask, Threads
  <2>3. sync[p] \in Syncs /\ path \in Paths
    BY <2>2, SyncOfBusyThread DEF TypeOK, ThreadsTypeOK
  <2> QED
    BY <2>1, <2>3, AsksOfServer, AsksOne
<1>2. CASE UNCHANGED queueSend
  BY <1>2, AsksNothing
<1> QED
  BY <1>1, <1>2
     DEF RunTaskStep, TakeTask, ProcessFileLayoutServer, LayoutServerBuilt, RunSyncTask,
         LookUpLayouts, LockForHashing, HashingPrepared, LockForWriting, WritingPrepared,
         ReadFileBlock, SendBlockRead, queues

-------------------------------------------------------------------------------
(* What is on the network *)

\* A request is read as one the server has the file for.
LEMMA RequestsAreRead ==
    ASSUME NEW m \in ServerAsks
    PROVE  /\ RequestRead(m) \in LP!ServerRequests
           /\ RequestRead(m).kind = m.kind
           /\ m.kind = "layout" => RequestRead(m).at \in Syncs
<1>1. /\ \A a \in LP!Attempts : LP!LayoutRequest(a) \in LP!ServerRequests
      /\ \A k \in {"hashes", "delete"}, a \in LP!Attempts, p \in Paths :
            LP!Request(k, a, p, 0) \in LP!ServerRequests
      /\ \A k \in {"write", "finish"}, a \in LP!Attempts, i \in LP!Indices :
            \A p \in DOMAIN [s \in Syncs |-> ServerDir][a] :
                LP!Request(k, a, p, i) \in LP!ServerRequests
      /\ \A a \in LP!Attempts : \A p \in DOMAIN [s \in Syncs |-> ServerDir][a] :
            \A i \in LP!BlocksOf([s \in Syncs |-> ServerDir][a][p]) :
                LP!Request("data", a, p, i) \in LP!ServerRequests
  BY LP!RequestsOfServer, LauncherAssumptions
<1>2. /\ Syncs = LP!Attempts /\ 0 \in LP!Indices
      /\ \A p : ServerBlocks(p) = LP!BlocksOf(ServerDir[p])
  BY DEF Syncs, LP!Attempts, LP!Indices, ServerBlocks, BlockCount, LP!BlocksOf
<1>3. \A k, a, p, i : Launcher!Request(k, a, p, i) = LP!Request(k, a, p, i)
  BY DEF Launcher!Request, LP!Request
<1>4. CASE \E s \in Syncs : m = LayoutRequest(s)
  <2>1. PICK s \in Syncs : m = LayoutRequest(s)
    BY <1>4
  <2>2. RequestRead(m) = LP!LayoutRequest(s)
    BY <1>3, <2>1 DEF RequestRead, LayoutRequest, LP!LayoutRequest
  <2> QED
    BY <1>1, <1>2, <2>1, <2>2 DEF LayoutRequest, LP!LayoutRequest, LP!Request
<1>5. CASE \E k \in {"hashes", "delete", "write", "finish"}, s \in Syncs, p \in Paths :
              m = PathRequest(k, s, p)
  <2>1. PICK k \in {"hashes", "delete", "write", "finish"}, s \in Syncs, p \in Paths :
           m = PathRequest(k, s, p)
    BY <1>5
  <2>2. RequestRead(m) = LP!Request(k, s, p, 0) /\ m.kind = k /\ m.path = p
    BY <1>3, <2>1 DEF RequestRead, PathRequest
  <2>3. k \in {"write", "finish"} => p \in DOMAIN ServerDir
    BY <2>2 DEF ServerAsks
  <2> QED
    BY <1>1, <1>2, <2>2, <2>3 DEF LP!Request
<1>6. CASE m \in AboutBlocks(DataRequest)
  <2>a. PICK p \in DOMAIN ServerDir : \E s \in Syncs, i \in ServerBlocks(p) :
           m = DataRequest(s, p, i)
    BY <1>6 DEF AboutBlocks
  <2>1. PICK s \in Syncs, i \in ServerBlocks(p) : m = DataRequest(s, p, i)
    BY <2>a
  <2>2. RequestRead(m) = LP!Request("data", s, p, i) /\ m.kind = "data"
    BY <1>3, <2>1 DEF RequestRead, DataRequest
  <2> QED
    BY <1>1, <1>2, <2>2 DEF LP!Request
<1> QED
  BY <1>4, <1>5, <1>6 DEF ServerAsks, Requests

\* An answer is read as one to a request of the server.
LEMMA ResponsesAreRead ==
    ASSUME NEW m, LP!AnswersServer(m)
    PROVE  IsResponse(ResponseRead(m))
<1> DEFINE r == m.req
           a == RequestAnswered(r)
<1>1. /\ r \in LP!Requests /\ m.ok \in BOOLEAN /\ LP!HasFile(r)
      /\ r.kind = "layout" => LP!IsDir(m.body)
      /\ r.kind # "layout" => m.body \in Seq(LP!Blocks)
  BY DEF LP!AnswersServer, LP!IsAnswer
<1>2. /\ r.at \in Syncs
      /\ r.kind \in {"layout", "hashes", "delete", "write", "data", "finish"}
      /\ r.kind # "layout" => r.path \in Paths
  BY <1>1
     DEF LP!Requests, LP!LayoutRequest, LP!Request, LP!Kinds, LP!Attempts, Syncs
<1>3. r.kind = "data" => r.path \in DOMAIN ServerDir /\ r.index \in ServerBlocks(r.path)
  BY <1>1, <1>2 DEF LP!HasFile, LP!BlocksOf, ServerBlocks, BlockCount
<1>4. a \in Requests /\ a.kind = r.kind
  <2>1. CASE r.kind = "layout"
    BY <1>2, <2>1, QueueMembers DEF RequestAnswered, LayoutRequest
  <2>2. CASE r.kind = "data"
    BY <1>2, <1>3, <2>2, QueueMembers DEF RequestAnswered, DataRequest
  <2>3. CASE r.kind \in {"hashes", "delete", "write", "finish"}
    BY <1>2, <2>3, QueueMembers DEF RequestAnswered, PathRequest
  <2> QED
    BY <1>2, <2>1, <2>2, <2>3
<1>5. r.kind = "layout" => IsDir(m.body)
  BY <1>1, SameDirs
<1>6. r.kind = "hashes" => m.body \in Seq(Blocks)
  BY <1>1 DEF Blocks, LP!Blocks
<1>7. /\ ResponseRead(m).req = a /\ ResponseRead(m).ok = m.ok
      /\ ResponseRead(m).body = m.body
  BY DEF ResponseRead
<1> HIDE DEF r, a
<1> QED
  BY <1>1, <1>4, <1>5, <1>6, <1>7 DEF IsResponse

\* The launcher's model notes down a request that the network brings.
LEMMA RequestReceived ==
    ASSUME LP!Typed, NEW r \in LP!ServerRequests,
           lQueueReceived' = Append(lQueueReceived, r), NoteRequest(r),
           UNCHANGED launcherRest,
           r.kind = "layout" => r.at \in Syncs,
           srv.attempt = None => r.kind = "layout"
    PROVE  /\ LP!Typed'
           /\ r.kind # "layout" => srv'.attempt = srv.attempt
           /\ r.kind = "layout" => srv'.attempt # None
<1>1. /\ LP!LayoutsTyped' /\ LP!FlagsTyped' /\ LP!WritesTyped' /\ LP!ThreadsTyped'
  BY LP!PartsKept, LauncherAssumptions
     DEF LP!Typed, launcherRest, LP!layouts, LP!connection, LP!life, LP!writing, LP!threads
<1>2. lQueueReceived' \in Seq(LP!ServerRequests)
  BY AppendProperties DEF LP!Typed, LP!QueuesTyped
<1>3. LP!QueuesTyped'
  BY <1>2 DEF LP!Typed, LP!QueuesTyped, launcherRest
<1>4. CASE r.kind = "layout"
  <2>1. /\ DOMAIN srv' = DOMAIN LP!NewServer(0)
        /\ srv'.attempt = r.at /\ srv'.sent = {r} /\ srv'.open = {r} /\ srv'.layout = <<>>
    BY <1>4 DEF NoteRequest, Launcher!NewServer, LP!NewServer
  <2>2. LP!IsDir(<<>>)
    BY DEF LP!IsDir
  <2>3. r.at \in 0 .. MaxSyncs /\ r.at # None
    BY <1>4, LimitsAssumption DEF Syncs, None
  <2>4. LP!ServerTyped'
    BY <2>1, <2>2, <2>3 DEF LP!ServerTyped, LP!None, None
  <2> QED
    BY <1>1, <1>3, <1>4, <2>1, <2>3, <2>4 DEF LP!Typed
<1>5. CASE r.kind # "layout"
  <2>1. DOMAIN srv = {"attempt", "state", "layout", "hashes", "sent", "open"}
    BY DEF LP!Typed, LP!ServerTyped, LP!NewServer
  <2>2. srv' = [srv EXCEPT !.sent = @ \cup {r}, !.open = @ \cup {r}]
    BY <1>5 DEF NoteRequest
  <2>3. /\ DOMAIN srv' = DOMAIN srv
        /\ srv'.attempt = srv.attempt /\ srv'.layout = srv.layout
        /\ srv'.sent = srv.sent \cup {r} /\ srv'.open = srv.open \cup {r}
    BY <2>1, <2>2
  <2>4. srv.attempt # None
    BY <1>5
  <2>5. LP!ServerTyped'
    BY <2>3, <2>4 DEF LP!Typed, LP!ServerTyped, LP!None, None
  <2> QED
    BY <1>1, <1>3, <1>5, <2>3, <2>5 DEF LP!Typed
<1> QED
  BY <1>4, <1>5

\* A step that leaves the layout, the tasks and the processors alone.
LEMMA StaysServed ==
    ASSUME LP!ServedInv, UNCHANGED launcherRest
    PROVE  LP!ServedInv'
BY DEF LP!ServedInv, LP!AnsweredWhenPresent, LP!ListedFilesThere, LP!LayoutRequestServed,
       LP!Busy, launcherRest

-------------------------------------------------------------------------------
(* The two sides together *)

NetworkTyped ==
    /\ queueSend \in Seq(ServerAsks)
    /\ toLauncher \in Seq(ServerAsks)
    /\ toServer \in Seq(Range(toServer))
    /\ \A m \in Range(toServer) : IsResponse(m)

\* Before the first attempt the server does nothing.
NothingBegun ==
    syncs = 0 =>
        /\ taskSync = None /\ pending = <<>> /\ queueSend = <<>> /\ toLauncher = <<>>
        /\ \A t \in Threads : pc[t] = "idle"

\* The first request the launcher gets is the one for its layout.
LayoutFirst ==
    srv.attempt = None =>
        \/ syncs = 0
        \/ toLauncher # <<>> /\ Head(toLauncher).kind = "layout"
        \/ toLauncher = <<>> /\ queueSend # <<>> /\ Head(queueSend).kind = "layout"

SessionTyped ==
    /\ TypeOK
    /\ LP!Typed
    /\ NetworkTyped
    /\ NothingBegun
    /\ LayoutFirst

LEMMA InitSessionTyped == SessionInit => SessionTyped /\ LP!ServedInv
<1> SUFFICES ASSUME SessionInit
             PROVE  SessionTyped /\ LP!ServedInv
  OBVIOUS
<1>1. TypeOK
  BY InitTypeOK DEF SessionInit
<1>2. LP!Typed /\ LP!ServedInv
  BY OneLauncher, LauncherBegins DEF SessionInit
<1>3. NetworkTyped
  BY EmptySeq DEF SessionInit, Init, NetworkTyped, Range
<1>4. NothingBegun
  BY DEF SessionInit, Init, NothingBegun, Threads
<1>5. LayoutFirst
  BY DEF SessionInit, Init, LayoutFirst
<1> QED
  BY <1>1, <1>2, <1>3, <1>4, <1>5 DEF SessionTyped

LEMMA LauncherAlone ==
    ASSUME LP!Typed, UNCHANGED launcherVars
    PROVE  LP!Typed'
BY LauncherKeepsTypes
   DEF launcherVars, launcherRest, LP!vars, LP!layouts, LP!writing, LP!queues,
       LP!connection, LP!life, LP!threads

\* A step of the server that leaves the network alone.
LEMMA ServerAsksTyped ==
    ASSUME SessionTyped, TypeOK', UNCHANGED <<network, launcherVars>>,
           NEW u, Asks(u),
           syncs' = syncs \/ (u # <<>> /\ Head(u).kind = "layout" /\ syncs' = syncs + 1),
           syncs = 0 /\ syncs' = 0 => NothingBegun'
    PROVE  SessionTyped'
<1>1. LP!Typed'
  BY LauncherAlone DEF SessionTyped
<1>2. /\ u \in Seq(ServerAsks) /\ queueSend \in Seq(ServerAsks)
      /\ queueSend' = queueSend \o u
      /\ syncs \in Nat /\ UNCHANGED <<toLauncher, toServer, srv>>
  BY LimitsAssumption
     DEF Asks, SessionTyped, NetworkTyped, TypeOK, ClientTypeOK, network, launcherVars
<1>3. queueSend' \in Seq(ServerAsks)
  BY <1>2, ConcatProperties
<1>4. NetworkTyped'
  BY <1>2, <1>3 DEF SessionTyped, NetworkTyped
<1>5. NothingBegun'
  BY <1>2 DEF NothingBegun
<1>6. LayoutFirst'
  <2>0. CASE syncs' = 0
    BY <2>0 DEF LayoutFirst
  <2> SUFFICES ASSUME srv'.attempt = None, syncs' # 0
               PROVE  \/ toLauncher' # <<>> /\ Head(toLauncher').kind = "layout"
                      \/ /\ toLauncher' = <<>> /\ queueSend' # <<>>
                         /\ Head(queueSend').kind = "layout"
    BY <2>0 DEF LayoutFirst
  <2>1. CASE toLauncher # <<>>
    BY <1>2, <2>1 DEF SessionTyped, LayoutFirst, NothingBegun
  <2>2. CASE toLauncher = <<>> /\ queueSend # <<>>
    <3>1. queueSend' # <<>> /\ Head(queueSend') = Head(queueSend)
      BY <1>2, <2>2, ConcatProperties
    <3> QED
      BY <1>2, <2>2, <3>1 DEF SessionTyped, LayoutFirst, NothingBegun
  <2>3. CASE toLauncher = <<>> /\ queueSend = <<>>
    <3>1. u # <<>> /\ Head(u).kind = "layout"
      BY <1>2, <2>3 DEF SessionTyped, LayoutFirst
    <3>2. queueSend' = u
      BY <1>2, <2>3, ConcatEmptySeq
    <3> QED
      BY <1>2, <2>3, <3>1, <3>2
  <2> QED
    BY <2>1, <2>2, <2>3
<1> QED
  BY <1>1, <1>4, <1>5, <1>6 DEF SessionTyped

LEMMA SynchronizeKeeps ==
    ASSUME SessionTyped, SynchronizeClient
    PROVE  SessionTyped'
<1>1. PICK u : Asks(u) /\ u # <<>> /\ Head(u).kind = "layout"
  BY SynchronizeAsks DEF SessionTyped, SynchronizeClient
<1>2. TypeOK'
  BY SynchronizeTypeOK DEF SessionTyped, SynchronizeClient
<1>3. syncs' = syncs + 1 /\ syncs \in Nat
  BY LimitsAssumption
     DEF SessionTyped, TypeOK, ClientTypeOK, SynchronizeClient, Synchronize
<1> QED
  BY <1>1, <1>2, <1>3, ServerAsksTyped DEF SynchronizeClient

\* A thread that works does so for an attempt that has begun.
LEMMA WorksAfterBeginning ==
    ASSUME SessionTyped
    PROVE  /\ \A t \in Threads : pc[t] # "idle" => syncs # 0
           /\ \A p \in Procs : TakeTask(p) => syncs # 0
<1>1. \A t \in Threads : pc[t] # "idle" => syncs # 0
  BY DEF SessionTyped, NothingBegun
<1>2. ASSUME NEW p \in Procs, TakeTask(p)
      PROVE  syncs # 0
  <2>1. pending # <<>>
    BY <1>2 DEF TakeTask
  <2> QED
    BY <2>1 DEF SessionTyped, NothingBegun
<1> QED
  BY <1>1, <1>2

LEMMA SharedStepKeeps ==
    ASSUME SessionTyped, NEW t \in Threads, SharedStep(t), UNCHANGED <<network, launcherVars>>
    PROVE  SessionTyped'
<1>1. PICK u : Asks(u)
  BY SharedStepAsks DEF SessionTyped
<1>2. TypeOK'
  BY SharedTypeOK DEF SessionTyped
<1>3. pc[t] # "idle"
  BY DEF SharedStep, FinishLayout, SendNextWriteRequests, LockForSending, SkipFile,
         SendingDone, SucceedSynchronization, FailSynchronization, ClearPendingTasks,
         RequestWriteFile, RequestFinishWriteFile, SendFileData, Visit
<1>4. syncs' = syncs
  BY DEF SharedStep, FinishLayout, SendNextWriteRequests, LockForSending, SkipFile,
         SendingDone, SucceedSynchronization, FailSynchronization, ClearPendingTasks,
         RequestWriteFile, RequestFinishWriteFile, SendFileData, Visit, client
<1> QED
  BY <1>1, <1>2, <1>3, <1>4, WorksAfterBeginning, ServerAsksTyped

LEMMA RunTaskStepKeeps ==
    ASSUME SessionTyped, NEW p \in Procs, RunTaskStep(p), UNCHANGED <<network, launcherVars>>
    PROVE  SessionTyped'
<1>1. PICK u : Asks(u)
  BY RunTaskStepAsks DEF SessionTyped
<1>2. TypeOK'
  BY RunTaskTypeOK DEF SessionTyped
<1>3. TakeTask(p) \/ pc[p] # "idle"
  BY DEF RunTaskStep, ProcessFileLayoutServer, LayoutServerBuilt, RunSyncTask,
         LookUpLayouts, LockForHashing, AddFileBlockHashTask, HashingPrepared,
         LockForWriting, AddFileDeleteTask, WritingPrepared, ReadFileBlock, SendBlockRead
<1>4. syncs' = syncs
  BY DEF RunTaskStep, TakeTask, ProcessFileLayoutServer, LayoutServerBuilt, RunSyncTask,
         LookUpLayouts, LockForHashing, AddFileBlockHashTask, HashingPrepared,
         LockForWriting, AddFileDeleteTask, WritingPrepared, ReadFileBlock, SendBlockRead,
         client
<1>5. p \in Threads
  BY DEF Threads
<1> QED
  BY <1>1, <1>2, <1>3, <1>4, <1>5, WorksAfterBeginning, ServerAsksTyped

LEMMA SendRequestsKeeps ==
    ASSUME SessionTyped, SendRequests
    PROVE  SessionTyped'
<1>1. TypeOK' /\ LP!Typed'
  BY UpdateTypeOK, LauncherAlone DEF SessionTyped, SendRequests, UpdateStep
<1>2. /\ queueSend \in Seq(ServerAsks) /\ queueSend # <<>> /\ queueSend' = <<>>
      /\ toLauncher \in Seq(ServerAsks) /\ toLauncher' = toLauncher \o queueSend
      /\ UNCHANGED <<syncs, srv, toServer>>
  BY DEF SessionTyped, NetworkTyped, SendRequests, SendQueuedMessages, client, launcherVars
<1>3. toLauncher' \in Seq(ServerAsks) /\ queueSend' \in Seq(ServerAsks)
  BY <1>2, ConcatProperties, EmptySeq
<1>4. NetworkTyped'
  BY <1>2, <1>3 DEF SessionTyped, NetworkTyped
<1>5. syncs' # 0
  BY <1>2 DEF SessionTyped, NothingBegun
<1>6. NothingBegun'
  BY <1>5 DEF NothingBegun
<1>7. ASSUME srv.attempt = None
      PROVE  toLauncher' # <<>> /\ Head(toLauncher').kind = "layout"
  <2>1. CASE toLauncher # <<>>
    <3>1. toLauncher' # <<>> /\ Head(toLauncher') = Head(toLauncher)
      BY <1>2, <2>1, ConcatProperties
    <3> QED
      BY <1>2, <1>5, <1>7, <2>1, <3>1 DEF SessionTyped, LayoutFirst
  <2>2. CASE toLauncher = <<>>
    <3>1. toLauncher' = queueSend
      BY <1>2, <2>2, ConcatEmptySeq
    <3> QED
      BY <1>2, <1>5, <1>7, <2>2, <3>1 DEF SessionTyped, LayoutFirst
  <2> QED
    BY <2>1, <2>2
<1>8. LayoutFirst'
  BY <1>2, <1>7 DEF LayoutFirst
<1> QED
  BY <1>1, <1>4, <1>6, <1>8 DEF SessionTyped

LEMMA ReceiveAnswerKeeps ==
    ASSUME SessionTyped, ReceiveAnswer
    PROVE  SessionTyped'
<1> DEFINE m == Head(toServer)
<1>1. /\ toServer' = Tail(toServer) /\ queueReceived' = Append(queueReceived, m)
      /\ toServer # <<>>
      /\ UNCHANGED <<client, pending, task, counts, queueSend, threads, launcher,
                     toLauncher, launcherVars>>
  BY DEF ReceiveAnswer
<1>2. /\ m \in Range(toServer) /\ toServer' \in Seq(Range(toServer'))
      /\ Range(toServer') \subseteq Range(toServer)
  BY <1>1, TailTyped DEF SessionTyped, NetworkTyped
<1>3. IsResponse(m)
  BY <1>2 DEF SessionTyped, NetworkTyped
<1>4. NetworkTyped'
  BY <1>1, <1>2 DEF SessionTyped, NetworkTyped
<1> HIDE DEF m
<1>5. /\ queueReceived' \in Seq(Range(queueReceived'))
      /\ Range(queueReceived') = Range(queueReceived) \cup {m}
  BY <1>1, AppendTyped DEF SessionTyped, TypeOK, QueuesTypeOK
<1>6. QueuesTypeOK'
  BY <1>1, <1>3, <1>5 DEF SessionTyped, TypeOK, QueuesTypeOK, launcher
<1>7. TypeOK'
  BY <1>1, <1>6, PartsUnchanged DEF SessionTyped, TypeOK, launcher
<1>8. LP!Typed'
  BY <1>1, LauncherAlone DEF SessionTyped
<1>9. NothingBegun' /\ LayoutFirst'
  BY <1>1 DEF SessionTyped, NothingBegun, LayoutFirst, client, threads, launcherVars
<1> QED
  BY <1>4, <1>7, <1>8, <1>9 DEF SessionTyped

\* A message is handled by the thread that calls Update().
HandleMessage ==
    \/ ReceiveMessage
    \/ ProcessResponseFileLayout
    \/ ProcessResponseFileBlockHashes
    \/ CheckFinishedHashes
    \/ EnqueueSyncTask
    \/ ProcessResponseDeleteFile
    \/ ProcessResponseWriteFile
    \/ ProcessFileDataReceived
    \/ ProcessResponseFinishWriteFile
    \/ CheckFinishedWrite

LEMMA HandlingKeeps ==
    ASSUME SessionTyped, HandleMessage, UNCHANGED <<network, launcherVars>>
    PROVE  SessionTyped'
<1>1. TypeOK'
  BY UpdateTypeOK DEF SessionTyped, HandleMessage, UpdateStep
<1>2. syncs' = syncs /\ UNCHANGED queueSend
  BY DEF HandleMessage, ReceiveMessage, ProcessResponseFileLayout,
         ProcessResponseFileBlockHashes, CheckFinishedHashes, EnqueueSyncTask,
         ProcessResponseDeleteFile, ProcessResponseWriteFile, ProcessFileDataReceived,
         ProcessResponseFinishWriteFile, CheckFinishedWrite, client, queues
<1>3. PICK u : Asks(u)
  BY <1>2, AsksNothing DEF SessionTyped
<1>4. Main \in Threads
  BY DEF Threads
<1>5. CASE ReceiveMessage
  <2>1. taskSync = None => UNCHANGED threads
    BY <1>5 DEF ReceiveMessage
  <2>2. UNCHANGED <<client, pending, queueSend, toLauncher>>
    BY <1>5 DEF ReceiveMessage, network
  <2>3. syncs = 0 => NothingBegun'
    BY <2>1, <2>2 DEF SessionTyped, NothingBegun, client, threads
  <2> QED
    BY <1>1, <1>2, <1>3, <2>3, ServerAsksTyped
<1>6. CASE ~ ReceiveMessage
  <2>1. pc[Main] # "idle"
    BY <1>6
       DEF HandleMessage, ProcessResponseFileLayout, ProcessResponseFileBlockHashes,
           CheckFinishedHashes, EnqueueSyncTask, ProcessResponseDeleteFile,
           ProcessResponseWriteFile, ProcessFileDataReceived,
           ProcessResponseFinishWriteFile, CheckFinishedWrite, Applies
  <2> QED
    BY <1>1, <1>2, <1>3, <1>4, <2>1, WorksAfterBeginning, ServerAsksTyped
<1> QED
  BY <1>5, <1>6

LEMMA ServerUpdateKeeps ==
    ASSUME SessionTyped, ServerUpdateStep
    PROVE  SessionTyped'
<1>1. Main \in Threads
  BY DEF Threads
<1> QED
  BY <1>1, SendRequestsKeeps, ReceiveAnswerKeeps, HandlingKeeps, SharedStepKeeps
     DEF ServerUpdateStep, HandleMessage

-------------------------------------------------------------------------------
(* The steps of the launcher *)

LEMMA LauncherUpdates ==
    ASSUME LauncherUpdateStep
    PROVE  LP!UpdateStep
BY OneLauncher DEF LauncherUpdateStep, SendAnswers, LP!UpdateStep

\* None but a request for the layout begins an attempt.
LEMMA SameAttempt ==
    ASSUME LP!Typed,
           \/ LP!ConnectTo
           \/ LP!ConnectionEstablished
           \/ LP!MessageReceivedConnect
           \/ LP!UpdateStep
           \/ \E p \in LauncherProcs : LP!ProcStep(p)
    PROVE  srv'.attempt = srv.attempt
<1>1. ASSUME NEW m, srv' = LP!AnswerReceived(m)
      PROVE  srv'.attempt = srv.attempt
  BY <1>1, LP!AnswerEffect, LauncherAssumptions DEF LP!Typed
<1>2. CASE UNCHANGED srv
  BY <1>2
<1>3. ASSUME NEW p, LP!ProcStep(p)
      PROVE  UNCHANGED srv
  BY <1>3
     DEF LP!ProcStep, LP!RunTaskStep, LP!TakeTask, LP!ExitRun, LP!ListFiles,
         LP!AddFileToLayout, LP!LayoutBuilt, LP!SetFileLayout, LP!CalcFileBlockHashes,
         LP!StoreFileBlockHashes, LP!DeleteFile, LP!RemoveFileIfPresent, LP!WriteFile,
         LP!LookForFile, LP!OpenFile, LP!WriteBlock, LP!FinishWriteFile, LP!AddFile,
         LP!SetDirtyFileLayout, LP!SendResponse
<1>4. CASE LP!UpdateStep
  <2>1. UNCHANGED srv \/ \E m : srv' = LP!AnswerReceived(m)
    BY <1>4
       DEF LP!UpdateStep, LP!UpdateLayoutChanged, LP!OnFileLayoutChanged,
           LP!SendQueuedMessages, LP!ProcessRequestLayout,
           LP!ProcessRequestFileBlockHashes, LP!PutFileWithoutBlocks, LP!AddPendingTask,
           LP!ProcessRequestDeleteFile, LP!ProcessRequestWriteFile, LP!ProcessSendFileData,
           LP!ProcessRequestFinishWriteFile, LP!NothingReceived, LP!StopTaskProcessors,
           LP!JoinTaskProcessors
  <2> QED
    BY <1>1, <1>2, <2>1
<1>5. CASE LP!ConnectTo \/ LP!ConnectionEstablished \/ LP!MessageReceivedConnect
  BY <1>5 DEF LP!ConnectTo, LP!ConnectionEstablished, LP!MessageReceivedConnect
<1> QED
  BY <1>2, <1>3, <1>4, <1>5

\* What the launcher does changes of the server's model only what it knows of the
\* launcher.
LEMMA LauncherKeeps ==
    ASSUME SessionTyped,
           \/ LP!ConnectTo
           \/ LP!ConnectionEstablished
           \/ LP!MessageReceivedConnect
           \/ LP!UpdateStep
           \/ \E p \in LauncherProcs : LP!ProcStep(p),
           UNCHANGED <<client, pending, task, counts, queues, threads, toLauncher>>,
           wire' \subseteq wire, files' = files \/ files' = disk',
           NetworkTyped'
    PROVE  SessionTyped'
<1>1. LP!Typed'
  BY LauncherKeepsTypes DEF SessionTyped, LP!Next, LP!NetworkStep
<1>2. srv'.attempt = srv.attempt
  BY SameAttempt DEF SessionTyped
<1>3. IsDir(files)'
  <2>1. IsDir(disk')
    BY <1>1, SameDirs DEF LP!Typed, LP!LayoutsTyped, LP!IsDir
  <2> QED
    BY <2>1 DEF SessionTyped, TypeOK, IsDir
<1>4. QueuesTypeOK'
  BY DEF SessionTyped, TypeOK, QueuesTypeOK, queues
<1>5. TypeOK'
  BY <1>3, <1>4, PartsUnchanged DEF SessionTyped, TypeOK
<1>6. NothingBegun' /\ LayoutFirst'
  BY <1>2 DEF SessionTyped, NothingBegun, LayoutFirst, client, threads, queues
<1> QED
  BY <1>1, <1>5, <1>6 DEF SessionTyped

LEMMA SendAnswersKeeps ==
    ASSUME SessionTyped, SendAnswers
    PROVE  SessionTyped'
<1>1. /\ LP!UpdateStep
      /\ UNCHANGED <<client, pending, task, counts, queues, threads, toLauncher, wire, files,
                     queueSend>>
  BY OneLauncher DEF SendAnswers, LP!UpdateStep, vars, launcher, queues
<1>2. NetworkTyped'
  <2>1. CASE UNCHANGED toServer
    BY <1>1, <2>1 DEF SessionTyped, NetworkTyped
  <2>2. CASE lQueueSend # <<>> /\ toServer' = Append(toServer, ResponseRead(Head(lQueueSend)))
    <3> DEFINE m == Head(lQueueSend)
               r == ResponseRead(m)
    <3>1. /\ lQueueSend \in Seq(LP!Range(lQueueSend))
          /\ \A n \in LP!Range(lQueueSend) : LP!AnswersServer(n)
      BY DEF SessionTyped, LP!Typed, LP!QueuesTyped
    <3>2. m \in LP!Range(lQueueSend)
      BY <2>2, <3>1, HeadTailProperties
    <3>3. IsResponse(r)
      BY <3>1, <3>2, ResponsesAreRead
    <3> HIDE DEF r
    <3>4. /\ toServer' \in Seq(Range(toServer'))
          /\ Range(toServer') = Range(toServer) \cup {r}
      BY <2>2, AppendTyped DEF SessionTyped, NetworkTyped, r
    <3> QED
      BY <1>1, <3>3, <3>4 DEF SessionTyped, NetworkTyped
  <2> QED
    BY <2>1, <2>2 DEF SendAnswers
<1> QED
  BY <1>1, <1>2, LauncherKeeps

LEMMA NotedKeeps ==
    ASSUME SessionTyped, NoteAnswers, UNCHANGED network,
           LP!UpdateStep \/ \E p \in LauncherProcs : LP!ProcStep(p)
    PROVE  SessionTyped'
<1>1. /\ UNCHANGED <<client, pending, task, counts, queues, threads, toLauncher>>
      /\ wire' \subseteq wire /\ (files' = files \/ files' = disk')
  BY DEF NoteAnswers, network
<1>2. NetworkTyped'
  BY DEF SessionTyped, NetworkTyped, NoteAnswers, network, queues
<1> QED
  BY <1>1, <1>2, LauncherKeeps

LEMMA ConnectingKeeps ==
    ASSUME SessionTyped, UNCHANGED <<vars, network>>,
           \/ LP!ConnectTo
           \/ LP!ConnectionEstablished
           \/ LP!MessageReceivedConnect
    PROVE  SessionTyped'
<1>1. UNCHANGED <<client, pending, task, counts, queues, threads, toLauncher, wire, files>>
  BY DEF vars, network, launcher
<1>2. NetworkTyped'
  BY DEF SessionTyped, NetworkTyped, network, vars, queues
<1> QED
  BY <1>1, <1>2, LauncherKeeps

LEMMA ReceiveRequestKeeps ==
    ASSUME SessionTyped, ReceiveRequest
    PROVE  SessionTyped' /\ UNCHANGED launcherRest
<1> DEFINE m == Head(toLauncher)
           r == RequestRead(m)
<1>1. /\ toLauncher # <<>> /\ toLauncher' = Tail(toLauncher)
      /\ lQueueReceived' = Append(lQueueReceived, r) /\ NoteRequest(r)
      /\ UNCHANGED <<vars, toServer, launcherRest>>
  BY DEF ReceiveRequest
<1>2. /\ toLauncher \in Seq(ServerAsks) /\ m \in ServerAsks
      /\ toLauncher' \in Seq(ServerAsks)
  BY <1>1, HeadTailProperties DEF SessionTyped, NetworkTyped
<1>3. /\ r \in LP!ServerRequests /\ r.kind = m.kind
      /\ r.kind = "layout" => r.at \in Syncs
  BY <1>2, RequestsAreRead
<1>4. srv.attempt = None => r.kind = "layout"
  BY <1>1, <1>3 DEF SessionTyped, LayoutFirst, NothingBegun
<1> HIDE DEF r
<1>5. /\ LP!Typed'
      /\ r.kind # "layout" => srv'.attempt = srv.attempt
      /\ r.kind = "layout" => srv'.attempt # None
  BY <1>1, <1>3, <1>4, RequestReceived DEF SessionTyped
<1>6. TypeOK'
  BY <1>1, PartsUnchanged DEF SessionTyped, TypeOK, vars, launcher
<1>7. NetworkTyped'
  BY <1>1, <1>2 DEF SessionTyped, NetworkTyped, vars, queues
<1>8. NothingBegun'
  BY <1>1 DEF SessionTyped, NothingBegun, vars, client, queues, threads
<1>9. LayoutFirst'
  BY <1>4, <1>5 DEF LayoutFirst
<1> QED
  BY <1>1, <1>5, <1>6, <1>7, <1>8, <1>9 DEF SessionTyped

-------------------------------------------------------------------------------
(* All steps *)

\* The launcher moves as its own model says, or only gets a request.
LauncherMoves == LP!Next \/ UNCHANGED launcherRest

LEMMA SessionNextKeeps ==
    ASSUME SessionTyped, [SessionNext]_sessionVars
    PROVE  SessionTyped' /\ LauncherMoves
<1>1. CASE SynchronizeClient
  BY <1>1, SynchronizeKeeps DEF SynchronizeClient, LauncherMoves, launcherVars
<1>2. CASE ServerUpdateStep
  BY <1>2, ServerUpdateKeeps
     DEF ServerUpdateStep, SendRequests, ReceiveAnswer, LauncherMoves, launcherVars
<1>3. ASSUME NEW p \in Procs, ServerProcStep(p)
      PROVE  SessionTyped' /\ LauncherMoves
  <2>1. p \in Threads
    BY DEF Threads
  <2> QED
    BY <1>3, <2>1, RunTaskStepKeeps, SharedStepKeeps
       DEF ServerProcStep, LauncherMoves, launcherVars
<1>4. CASE Launcher!ConnectTo /\ UNCHANGED <<vars, network>>
  BY <1>4, OneLauncher, ConnectingKeeps DEF LauncherMoves, LP!Next
<1>5. CASE LauncherUpdateStep
  BY <1>5, LauncherUpdates, SendAnswersKeeps, NotedKeeps
     DEF LauncherUpdateStep, LauncherMoves, LP!Next
<1>6. CASE LauncherNetworkStep
  <2>1. CASE ReceiveRequest
    BY <2>1, ReceiveRequestKeeps DEF LauncherMoves
  <2>2. CASE /\ LP!ConnectionEstablished \/ LP!MessageReceivedConnect
             /\ UNCHANGED <<vars, network>>
    BY <2>2, ConnectingKeeps DEF LauncherMoves, LP!Next, LP!NetworkStep
  <2> QED
    BY <1>6, <2>1, <2>2, OneLauncher DEF LauncherNetworkStep
<1>7. ASSUME NEW p \in LauncherProcs, LauncherProcStep(p)
      PROVE  SessionTyped' /\ LauncherMoves
  BY <1>7, OneLauncher, NotedKeeps DEF LauncherProcStep, LauncherMoves, LP!Next
<1>8. CASE UNCHANGED sessionVars
  <2>1. UNCHANGED <<vars, network, launcherVars, launcherRest>>
    BY <1>8 DEF sessionVars, launcherVars
  <2>2. TypeOK' /\ LP!Typed'
    BY <2>1, LauncherAlone, PartsUnchanged DEF SessionTyped, TypeOK, vars, launcher
  <2>3. NetworkTyped' /\ NothingBegun' /\ LayoutFirst'
    BY <2>1
       DEF SessionTyped, NetworkTyped, NothingBegun, LayoutFirst, vars, client, queues,
           threads, network, launcherVars
  <2> QED
    BY <2>1, <2>2, <2>3 DEF SessionTyped, LauncherMoves
<1> QED
  BY <1>1, <1>2, <1>3, <1>4, <1>5, <1>6, <1>7, <1>8 DEF SessionNext

LEMMA SessionNextServes ==
    ASSUME SessionTyped, LP!ServedInv, [SessionNext]_sessionVars,
           \A p, q \in LauncherProcs : p = q, "build" \notin LauncherFaults
    PROVE  LP!ServedInv'
BY SessionNextKeeps, LauncherServes, StaysServed DEF SessionTyped, LauncherMoves

(* Both sides keep the types their models give them while they run against each other: the
   launcher's promises of form, every answer is to a request and of its kind, and the
   server's, the layout is asked for first and only files the server has are written, hold
   without being assumed. *)
THEOREM SessionTypeCorrect == SessionSpec => [](TypeOK /\ LP!Typed)
<1>1. SessionInit => SessionTyped
  BY InitSessionTyped
<1>2. SessionTyped /\ [SessionNext]_sessionVars => SessionTyped'
  BY SessionNextKeeps
<1>3. SessionTyped => TypeOK /\ LP!Typed
  BY DEF SessionTyped
<1> QED
  BY <1>1, <1>2, <1>3, PTL DEF SessionSpec

(* Whatever the server asks in whatever attempts, and whatever fails on its side or on the
   launcher's disk, a request for the layout that the launcher could not answer at once is
   answered when the layout is there, and until then the task to build it is queued or
   runs, or its result waits for Update().  The launcher starts one processor; a file that
   cannot be read ends the task without a layout. *)
THEOREM SessionServes ==
    ASSUME \A p, q \in LauncherProcs : p = q, "build" \notin LauncherFaults
    PROVE  SessionSpec => []LayoutRequestServed
<1> DEFINE Inv == SessionTyped /\ LP!ServedInv
<1>1. SessionInit => Inv
  BY InitSessionTyped
<1>2. Inv /\ [SessionNext]_sessionVars => Inv'
  BY SessionNextKeeps, SessionNextServes
<1>3. Inv => LayoutRequestServed
  BY DEF LP!ServedInv, LP!LayoutRequestServed, LayoutRequestServed,
         Launcher!LayoutRequestServed, LP!Busy, Launcher!Busy, LP!None, Launcher!None,
         LP!Range, Launcher!Range
<1> QED
  BY <1>1, <1>2, <1>3, PTL DEF SessionSpec
===============================================================================
