-------------------------------- MODULE Session --------------------------------
(***************************************************************************)
(* One server and one launcher over one connection: RemoteClient and       *)
(* LauncherClient composed.                                                *)
(*                                                                         *)
(* Each of the two models knows the other side as an environment that      *)
(* keeps a few promises: RemoteClient has the launcher answer every        *)
(* request, LauncherClient has the server ask in a certain order.  Here    *)
(* the two run against each other.  The variables by which a model knows   *)
(* the other side, wire and files, and srv, stay as auxiliary variables:   *)
(* they are written as each model says and read by no step of the other.   *)
(*                                                                         *)
(* The network is external: it keeps the order of reliable messages and    *)
(* loses none while the connection lasts.                                  *)
(***************************************************************************)
EXTENDS RemoteClient

CONSTANTS
    LauncherMain,   \* the launcher's thread calling Update()
    LauncherProcs,  \* the launcher's task processor threads
    NoPath,         \* no path: requests that are not about a file
    LauncherFaults  \* what may fail there: subset of {"build", "disk"}

ASSUME LauncherThreadsAssumption == LauncherMain \notin LauncherProcs
ASSUME LauncherNamesAssumption == NoPath \notin Paths /\ Hole \notin Data
ASSUME LauncherFaultsAssumption == LauncherFaults \subseteq {"build", "disk"}

VARIABLES
    toLauncher,     \* requests on the network
    toServer,       \* answers on the network
    \* LauncherClient's variables, with an l in front where RemoteClient has
    \* one of the same name
    layout, nextLayout, dirty, content, pendingRequest, lPending, writeTasks,
    fileWrite, lQueueSend, lQueueReceived, conn, connects, running, exit,
    lPc, job, disk, srv

Launcher == INSTANCE LauncherClient WITH
    Main <- LauncherMain,
    Procs <- LauncherProcs,
    Disks <- ClientDirs,
    ServerDirs <- [s \in Syncs |-> ServerDir],
    Faults <- LauncherFaults,
    MaxAttempts <- MaxSyncs,
    MaxConnects <- 1,
    pending <- lPending,
    queueSend <- lQueueSend,
    queueReceived <- lQueueReceived,
    pc <- lPc

network == <<toLauncher, toServer>>

\* All but what receiving a request writes.
launcherRest ==
    <<layout, nextLayout, dirty, content, pendingRequest, lPending, writeTasks,
      fileWrite, lQueueSend, conn, connects, running, exit, lPc, job, disk>>

launcherVars == <<launcherRest, lQueueReceived, srv>>

\* The variables of RemoteClient are the server's.
sessionVars == <<vars, network, launcherVars>>

-------------------------------------------------------------------------------
(* Messages as the two sides note them down *)

\* A request of the server as the launcher reads it.
RequestRead(m) ==
    Launcher!Request(m.kind, m.sync,
                     IF "path" \in DOMAIN m THEN m.path ELSE NoPath,
                     IF "index" \in DOMAIN m THEN m.index ELSE 0)

\* The request an answer of the launcher is about, in the server's words.
RequestAnswered(r) ==
    CASE r.kind = "layout" -> LayoutRequest(r.at)
      [] r.kind = "data" -> DataRequest(r.at, r.path, r.index)
      [] OTHER -> PathRequest(r.kind, r.at, r.path)

ResponseRead(answer) ==
    [req |-> RequestAnswered(answer.req), ok |-> answer.ok, body |-> answer.body]

SessionInit ==
    /\ Init
    /\ Launcher!Init
    /\ disk = files
    /\ toLauncher = <<>>
    /\ toServer = <<>>

-------------------------------------------------------------------------------
(* The server *)

\* A client is there to be synchronised once the server has taken its connection.
SynchronizeClient ==
    /\ conn \in {"connected", "accepted"}
    /\ Synchronize
    /\ UNCHANGED <<network, launcherVars>>

SendRequests ==
    /\ SendQueuedMessages
    /\ toLauncher' = toLauncher \o queueSend
    /\ UNCHANGED <<toServer, launcherVars>>

\* pServer->Update() of the server hands an answer to the connection.
ReceiveAnswer ==
    /\ pc[Main] = "idle"
    /\ toServer # <<>>
    /\ queueReceived' = Append(queueReceived, Head(toServer))
    /\ toServer' = Tail(toServer)
    /\ UNCHANGED <<client, pending, task, counts, queueSend, threads, launcher,
                   toLauncher, launcherVars>>

ServerUpdateStep ==
    \/ SendRequests
    \/ ReceiveAnswer
    \/ /\ \/ ReceiveMessage
          \/ ProcessResponseFileLayout
          \/ ProcessResponseFileBlockHashes
          \/ CheckFinishedHashes
          \/ EnqueueSyncTask
          \/ ProcessResponseDeleteFile
          \/ ProcessResponseWriteFile
          \/ ProcessFileDataReceived
          \/ ProcessResponseFinishWriteFile
          \/ CheckFinishedWrite
          \/ SharedStep(Main)
       /\ UNCHANGED <<network, launcherVars>>

ServerProcStep(p) ==
    /\ RunTaskStep(p) \/ SharedStep(p)
    /\ UNCHANGED <<network, launcherVars>>

-------------------------------------------------------------------------------
(* The launcher *)

\* The auxiliary variables of the server: a request is answered when its answer
\* is queued, and the files are looked at at that moment.
NoteAnswers ==
    /\ wire' = IF Len(lQueueSend') > Len(lQueueSend)
               THEN wire \ {RequestAnswered(lQueueSend'[Len(lQueueSend')].req)}
               ELSE wire
    /\ files' = IF Len(lQueueSend') > Len(lQueueSend) THEN disk' ELSE files
    /\ UNCHANGED <<client, pending, task, counts, queues, threads>>

SendAnswers ==
    /\ Launcher!SendQueuedMessages
    /\ toServer' = IF Launcher!Connected /\ lQueueSend # <<>>
                   THEN Append(toServer, ResponseRead(Head(lQueueSend)))
                   ELSE toServer
    /\ UNCHANGED <<vars, toLauncher>>

\* What the launcher's model notes of a request is what it says of those it expects.
NoteRequest(r) ==
    srv' = IF r.kind = "layout"
           THEN [Launcher!NewServer(r.at) EXCEPT !.state = "work", !.sent = {r}, !.open = {r}]
           ELSE [srv EXCEPT !.sent = @ \cup {r}, !.open = @ \cup {r}]

\* pConnection->Update() of the launcher hands a request to MessageReceived().
ReceiveRequest ==
    /\ lPc[LauncherMain] = "net"
    /\ conn = "accepted"
    /\ toLauncher # <<>>
    /\ LET r == RequestRead(Head(toLauncher))
       IN  /\ lQueueReceived' = Append(lQueueReceived, r)
           /\ NoteRequest(r)
    /\ toLauncher' = Tail(toLauncher)
    /\ UNCHANGED <<vars, toServer, launcherRest>>

LauncherUpdateStep ==
    \/ SendAnswers
    \/ /\ \/ Launcher!UpdateLayoutChanged
          \/ Launcher!OnFileLayoutChanged
          \/ Launcher!ProcessRequestLayout
          \/ Launcher!ProcessRequestFileBlockHashes
          \/ Launcher!PutFileWithoutBlocks
          \/ Launcher!AddPendingTask
          \/ Launcher!ProcessRequestDeleteFile
          \/ Launcher!ProcessRequestWriteFile
          \/ Launcher!ProcessSendFileData
          \/ Launcher!ProcessRequestFinishWriteFile
          \/ Launcher!NothingReceived
          \/ Launcher!StopTaskProcessors
       /\ NoteAnswers
       /\ UNCHANGED network

LauncherNetworkStep ==
    \/ Launcher!ConnectionEstablished /\ UNCHANGED <<vars, network>>
    \/ Launcher!MessageReceivedConnect /\ UNCHANGED <<vars, network>>
    \/ ReceiveRequest

LauncherProcStep(p) ==
    /\ Launcher!ProcStep(p)
    /\ NoteAnswers
    /\ UNCHANGED network

-------------------------------------------------------------------------------
SessionNext ==
    \/ SynchronizeClient
    \/ ServerUpdateStep
    \/ \E p \in Procs : ServerProcStep(p)
    \/ Launcher!ConnectTo /\ UNCHANGED <<vars, network>>
    \/ LauncherUpdateStep
    \/ LauncherNetworkStep
    \/ \E p \in LauncherProcs : LauncherProcStep(p)

SessionSpec == SessionInit /\ [][SessionNext]_sessionVars

(* Both applications call Update() again and again, all processors run, and the
   network delivers.  That the launcher connects and that the server synchronises
   is not assured. *)
FairSessionSpec ==
    /\ SessionSpec
    /\ WF_sessionVars(ServerUpdateStep)
    /\ \A p \in Procs : WF_sessionVars(ServerProcStep(p))
    /\ WF_sessionVars(LauncherUpdateStep)
    /\ SF_sessionVars(LauncherNetworkStep)
    /\ \A p \in LauncherProcs : WF_sessionVars(LauncherProcStep(p))
-------------------------------------------------------------------------------
(* Properties *)

(* What the server shows as "ready" is so on the launcher's disk. *)
SynchronizedEndToEnd == syncStatus = "ready" => disk = ServerDir

Promised == INSTANCE SyncLifecycle WITH status <- syncStatus, files <- disk

(* The two sides together do what a synchronisation promises.  Over failures of
   both, and attempts begun while requests and answers of the last are on their
   way, the status goes through its states in order, "ready" is said of equal
   directories only, and no late request changes a file afterwards. *)
Lifecycle == Promised!Spec

(* Over the same, a request for the layout that cannot be answered yet stays in
   somebody's hands. *)
LayoutRequestServed == Launcher!LayoutRequestServed

(* Without failures, the layout the launcher publishes to its update is true of its
   disk, the changes under way set aside, whatever order two attempts touch it in. *)
LayoutTrue == Launcher!LayoutTrue

\* For the server an answer has arrived as soon as the launcher has queued it.
AsSeenByServer == INSTANCE RemoteClient WITH
    queueReceived <- queueReceived \o toServer
                       \o [i \in DOMAIN lQueueSend |-> ResponseRead(lQueueSend[i])]

(* The launcher keeps every promise RemoteClient makes about it: each request is
   answered once, with success only if the files are as if it had been carried
   out at once when it was answered, and never refused without a fault. *)
LauncherKeepsPromises == AsSeenByServer!Spec

(* The server keeps every promise LauncherClient makes about it: it asks for
   hashes after the layout, for deletes and writes after the hashes, for a block
   after the file, for the end after the last block, and nothing it does not need. *)
ServerKeepsPromises == Launcher!Spec

\* The launcher has sent the hashes of a file, the sync task still waits for them.
HashesLost ==
    /\ taskSync # None
    /\ \E p \in task[taskSync].hashes :
          PathRequest("hashes", taskSync, p) \notin Range(queueSend) \cup wire

(* A synchronisation between the two comes to its end.  The one way to hang is that
   block hashes arrive before the sync task accepts them, see HashingPrepared. *)
SessionFinishes == <>[]HashesLost \/ SyncFinishes
===============================================================================
