------------------------------- MODULE Connection -------------------------------
(***************************************************************************)
(* How the server takes launchers in and lets them go: derlServer with its *)
(* derlServerServer, the handshake of derlRemoteClientConnection and the   *)
(* part of derlRemoteClient::Update() that follows a connection.           *)
(*                                                                         *)
(* The updater thread calls derlServer::Update().  The application acts on *)
(* this thread between two calls and in its own derlRemoteClient::Update() *)
(* after the one of the base class, as src/testing does, or on a thread of *)
(* its own.  A client has one task processor; what it does is the subject  *)
(* of RemoteClient, and here no more than that it queues messages and ends *)
(* a synchronisation.  derlGlobal::mutexNetwork is held by the updater at   *)
(* "net", by nobody else longer than a step.                               *)
(*                                                                         *)
(* The network library is external: connections come and close.            *)
(***************************************************************************)
EXTENDS Naturals, SequencesExt, Functions

CONSTANTS
    Conns,        \* connections
    NoConn,       \* no connection
    Happens,      \* what happens: subset of AllHappenings
    MaxMessages   \* bound: messages queued for a launcher

(* "remote": the launcher closes a connection, or it fails.  The application calls
   "stop": StopListening() between two updates; "between", "late", "thread":
   Disconnect() between two updates, in its own Update(), or on another thread. *)
AllHappenings == {"remote", "stop", "between", "late", "thread"}

ASSUME NoConnAssumption == NoConn \notin Conns
ASSUME HappensAssumption == Happens \subseteq AllHappenings
ASSUME MessagesAssumption == MaxMessages \in Nat

VARIABLES
    listening,          \* the server before, while and after it listens, once
    waiting,            \* the call of WaitAllClientsDisconnected(), and how it ended
    conn,               \* connection state
    client,             \* the derlRemoteClient of a connection
    clients,            \* pClients
    queued,             \* length of pQueueSend
    total,              \* messages ever queued
    notifyEstablished,  \* pNotifyConnectionEstablished
    notifyClosed,       \* pNotifyConnectionClosed
    running,            \* pTaskProcessorsRunning
    exit,               \* pExit of the processor
    proc,               \* the thread of the processor
    syncStatus,         \* pSynchronizeStatus
    pc,                 \* where the updater is
    cur,                \* the client its loop is at
    todo,               \* the clients its loop has still to visit
    closed,             \* the clients its loop has found disconnected
    told,               \* history: the callbacks of the application
    late                \* history: connections closed after their client was updated

network == <<listening, waiting, conn, client, clients>>
messages == <<queued, total>>
notify == <<notifyEstablished, notifyClosed>>
processor == <<running, exit, proc>>
loop == <<cur, todo, closed>>
history == <<told, late>>

vars == <<network, messages, notify, processor, syncStatus, pc, loop, history>>

Init ==
    /\ listening = "not yet"
    /\ waiting = "no"
    /\ conn = [c \in Conns |-> "none"]
    /\ client = [c \in Conns |-> "none"]
    /\ clients = <<>>
    /\ queued = [c \in Conns |-> 0]
    /\ total = [c \in Conns |-> 0]
    /\ notifyEstablished = [c \in Conns |-> FALSE]
    /\ notifyClosed = [c \in Conns |-> FALSE]
    /\ running = [c \in Conns |-> FALSE]
    /\ exit = [c \in Conns |-> FALSE]
    /\ proc = [c \in Conns |-> "off"]
    /\ syncStatus = [c \in Conns |-> "pending"]
    /\ pc = "idle"
    /\ cur = NoConn
    /\ todo = <<>>
    /\ closed = {}
    /\ told = [c \in Conns |-> <<>>]
    /\ late = {}

\* The mutex of the network is free.
NetworkFree == pc # "net"

\* Variant: a close is noted only if the processor runs.
NotedIfRunning(S) ==
    [c \in Conns |-> notifyClosed[c] \/ (c \in S /\ client[c] = "present" /\ running[c])]

\* ConnectionClosed() of each connection in S: it tells the client, if there is one.
Noted(S) == [c \in Conns |-> notifyClosed[c] \/ (c \in S /\ client[c] = "present")]

\* The connections in S, connected before, are closed.
Close(S) ==
    /\ conn' = [c \in Conns |-> IF c \in S THEN "closed" ELSE conn[c]]
    /\ notifyClosed' = Noted(S)
    /\ UNCHANGED notifyEstablished

CanQueue(c) == total[c] < MaxMessages

Queue(c) ==
    /\ queued' = [queued EXCEPT ![c] = @ + 1]
    /\ total' = [total EXCEPT ![c] = @ + 1]

-------------------------------------------------------------------------------
(* The application *)

ListenOn ==
    /\ pc = "idle"
    /\ listening = "not yet"
    /\ listening' = "yes"
    /\ UNCHANGED <<waiting, conn, client, clients, messages, notify, processor,
                   syncStatus, pc, loop, history>>

Open == {c \in Conns : conn[c] = "connected"}

StopListening ==
    /\ "stop" \in Happens
    /\ pc = "idle"
    /\ listening = "yes"
    /\ listening' = "stopped"
    /\ Close(Open)
    /\ UNCHANGED <<waiting, client, clients, messages, processor, syncStatus, pc, loop,
                   history>>

(* Called after StopListening(), to destroy the server next.  An application that
   catches the exception the wait was left by may wait again. *)
WaitAllClientsDisconnected ==
    /\ pc = "idle"
    /\ listening = "stopped"
    /\ waiting \in {"no", "thrown"}
    /\ waiting' = "waits"
    /\ UNCHANGED <<listening, conn, client, clients, messages, notify, processor,
                   syncStatus, pc, loop, history>>

Disconnect(c) ==
    /\ client[c] = "present"
    /\ conn[c] = "connected"
    /\ NetworkFree
    /\ Close({c})
    /\ late' = IF pc = "after" /\ cur = c THEN late \cup {c} ELSE late
    /\ UNCHANGED <<listening, waiting, client, clients, messages, processor, syncStatus,
                   pc, loop, told>>

\* Where the application may call Disconnect().
AppDisconnects ==
    \E c \in Conns :
        /\ Disconnect(c)
        /\ \/ "between" \in Happens /\ pc = "idle" /\ waiting # "waits"
           \/ "late" \in Happens /\ pc = "after" /\ cur = c
           \/ "thread" \in Happens

\* Synchronize(), called where the test server does.  SendRequestLayout() asks for
\* the layout if there is a connection.
Synchronize ==
    /\ pc = "after"
    /\ client[cur] = "present"
    /\ syncStatus[cur] # "processing"
    /\ CanQueue(cur)
    /\ syncStatus' = [syncStatus EXCEPT ![cur] = "processing"]
    /\ IF conn[cur] = "connected" THEN Queue(cur) ELSE UNCHANGED messages
    /\ UNCHANGED <<network, notify, processor, pc, loop, history>>

-------------------------------------------------------------------------------
(* The task processor of a client, and the launcher's answers *)

\* The processor sends requests without a look at the connection.
ProcessorSends(c) ==
    /\ proc[c] = "on"
    /\ syncStatus[c] = "processing"
    /\ NetworkFree
    /\ CanQueue(c)
    /\ Queue(c)
    /\ UNCHANGED <<network, notify, processor, syncStatus, pc, loop, history>>

\* The end comes on this thread or with a message received, see RemoteClient.
SynchronizeEnds(c) ==
    /\ proc[c] = "on" \/ (pc = "receive" /\ cur = c)
    /\ syncStatus[c] = "processing"
    /\ \E status \in {"ready", "failed"} : syncStatus' = [syncStatus EXCEPT ![c] = status]
    /\ UNCHANGED <<network, messages, notify, processor, pc, loop, history>>

ProcessorExits(c) ==
    /\ proc[c] = "on"
    /\ exit[c]
    /\ proc' = [proc EXCEPT ![c] = "off"]
    /\ UNCHANGED <<network, messages, notify, running, exit, syncStatus, pc, loop,
                   history>>

-------------------------------------------------------------------------------
(* derlServer::Update(): pServer->Update(), under the mutex of the network *)

\* The application calls it again and again, or WaitAllClientsDisconnected() while
\* there are clients.
BeginUpdate ==
    /\ pc = "idle"
    /\ listening # "not yet"
    /\ waiting = "waits" => clients # <<>>
    /\ pc' = "net"
    /\ UNCHANGED <<network, messages, notify, processor, syncStatus, loop, history>>

CreateConnection ==
    /\ pc = "net"
    /\ listening = "yes"
    /\ \E c \in Conns :
          /\ conn[c] = "none"
          /\ conn' = [conn EXCEPT ![c] = "connected"]
    /\ UNCHANGED <<listening, waiting, client, clients, messages, notify, processor,
                   syncStatus, pc, loop, history>>

\* A launcher is taken: its client enters the list, under the mutex of the server.
CreateClient(c) ==
    /\ client' = [client EXCEPT ![c] = "present"]
    /\ clients' = Append(clients, c)
    /\ notifyEstablished' = [notifyEstablished EXCEPT ![c] = TRUE]
    /\ UNCHANGED <<conn, notifyClosed>>

\* The first message has to be a connect request of a launcher.
pMessageReceivedConnect ==
    /\ pc = "net"
    /\ listening = "yes"
    /\ \E c \in Open :
          /\ client[c] = "none"
          /\ \/ CreateClient(c)
             \/ Close({c}) /\ UNCHANGED <<client, clients>>
    /\ UNCHANGED <<listening, waiting, messages, processor, syncStatus, pc, loop,
                   history>>

\* A connection fails or is closed by the launcher: in pServer->Update(), or in
\* pConnection->Update() of its client.
RemoteCloses(c) ==
    /\ "remote" \in Happens
    /\ conn[c] = "connected"
    /\ \/ pc = "net" /\ listening = "yes"
       \/ pc = "update" /\ cur = c
    /\ Close({c})
    /\ UNCHANGED <<listening, waiting, client, clients, messages, processor, syncStatus,
                   pc, loop, history>>

BeginLoop ==
    /\ pc = "net"
    /\ pc' = "loop"
    /\ todo' = clients
    /\ closed' = {}
    /\ UNCHANGED <<network, messages, notify, processor, syncStatus, cur, history>>

-------------------------------------------------------------------------------
(* derlServer::Update(): derlRemoteClient::Update() of every client *)

NextClient ==
    /\ pc = "loop"
    /\ todo # <<>>
    /\ cur' = Head(todo)
    /\ todo' = Tail(todo)
    /\ pc' = "send"
    /\ UNCHANGED <<network, messages, notify, processor, syncStatus, closed, history>>

\* Variant: a message is taken from the queue when it has been sent.
KeptMessage(n) == n

PoppedMessage(n) == n - 1

LeavesWait == IF waiting = "waits" THEN "thrown" ELSE waiting

\* Without a connection the library throws, out of derlServer::Update() and out of
\* WaitAllClientsDisconnected() if this has called it.  The application, if it
\* catches the exception, goes on with the next update.
SendQueuedMessages ==
    /\ pc = "send"
    /\ IF queued[cur] > 0 /\ conn[cur] # "connected"
       THEN /\ queued' = [queued EXCEPT ![cur] = PoppedMessage(@)]
            /\ waiting' = LeavesWait
            /\ pc' = "idle"
            /\ cur' = NoConn
            /\ todo' = <<>>
            /\ closed' = {}
       ELSE /\ queued' = [queued EXCEPT ![cur] = 0]
            /\ pc' = "receive"
            /\ UNCHANGED <<waiting, loop>>
    /\ UNCHANGED <<listening, conn, client, clients, total, notify, processor, syncStatus,
                   history>>

\* ProcessReceivedMessages(), or a message to keep the connection alive.
ProcessReceivedMessages ==
    /\ pc = "receive"
    /\ \/ CanQueue(cur) /\ Queue(cur)
       \/ UNCHANGED messages
    /\ pc' = "update"
    /\ UNCHANGED <<network, notify, processor, syncStatus, loop, history>>

\* pConnection->Update() ends; RemoteCloses() is what may happen in it.
ConnectionUpdated ==
    /\ pc = "update"
    /\ pc' = "established"
    /\ UNCHANGED <<network, messages, notify, processor, syncStatus, loop, history>>

Tell(c, what) == told' = [told EXCEPT ![c] = Append(@, what)]

\* StartTaskProcessors() starts a thread unless there is one.
OnConnectionEstablished ==
    /\ pc = "established"
    /\ IF notifyEstablished[cur]
       THEN /\ notifyEstablished' = [notifyEstablished EXCEPT ![cur] = FALSE]
            /\ Tell(cur, "established")
            /\ running' = [running EXCEPT ![cur] = TRUE]
            /\ exit' = [exit EXCEPT ![cur] = FALSE]
            /\ proc' = [proc EXCEPT ![cur] = "on"]
       ELSE UNCHANGED <<notifyEstablished, told, processor>>
    /\ pc' = "stop"
    /\ UNCHANGED <<network, messages, notifyClosed, syncStatus, loop, late>>

StopIfDisconnected ==
    /\ pc = "stop"
    /\ IF running[cur] /\ conn[cur] = "closed"
       THEN exit' = [exit EXCEPT ![cur] = TRUE] /\ pc' = "join"
       ELSE UNCHANGED exit /\ pc' = "closed"
    /\ UNCHANGED <<network, messages, notify, running, proc, syncStatus, loop, history>>

\* StopTaskProcessors() joins the thread.
JoinTaskProcessors ==
    /\ pc \in {"join", "joinAgain"}
    /\ proc[cur] = "off"
    /\ IF pc = "join"
       THEN running' = [running EXCEPT ![cur] = FALSE] /\ pc' = "closed"
       ELSE UNCHANGED running /\ pc' = "loop"
    /\ UNCHANGED <<network, messages, notify, exit, proc, syncStatus, loop, history>>

\* Variant: the flag stays set.
KeptFlag(c) == notifyClosed

ClearedFlag(c) == [notifyClosed EXCEPT ![c] = FALSE]

OnConnectionClosed ==
    /\ pc = "closed"
    /\ IF notifyClosed[cur]
       THEN notifyClosed' = ClearedFlag(cur) /\ Tell(cur, "closed")
       ELSE UNCHANGED <<notifyClosed, told>>
    /\ pc' = "after"
    /\ UNCHANGED <<network, messages, notifyEstablished, processor, syncStatus, loop,
                   late>>

\* Variant: derlServer::Update() leaves the processors to the client.
StopsNothing(c) == pc' = "loop" /\ UNCHANGED exit

StopsProcessors(c) == exit' = [exit EXCEPT ![c] = TRUE] /\ pc' = "joinAgain"

\* The client's Update() has returned: derlServer::Update() looks at the connection
\* again, and stops the processors again.
FindDisconnected ==
    /\ pc = "after"
    /\ IF conn[cur] = "closed"
       THEN closed' = closed \cup {cur} /\ StopsProcessors(cur)
       ELSE pc' = "loop" /\ UNCHANGED <<closed, exit>>
    /\ UNCHANGED <<network, messages, notify, running, proc, syncStatus, cur, todo,
                   history>>

\* Variant: the first of the clients is erased.
FirstErased(list, i) == Tail(list)

Erased(list, i) == RemoveAt(list, i)

\* The clients found disconnected are erased one after the other.
EraseClosed ==
    /\ pc = "loop"
    /\ todo = <<>>
    /\ \E i \in DOMAIN clients :
          /\ clients[i] \in closed
          /\ \A j \in 1 .. i - 1 : clients[j] \notin closed
          /\ clients' = Erased(clients, i)
          /\ client' = [client EXCEPT ![clients[i]] = "removed"]
          /\ closed' = closed \ {clients[i]}
    /\ UNCHANGED <<listening, waiting, conn, messages, notify, processor, syncStatus, pc,
                   cur, todo, history>>

EndUpdate ==
    /\ pc = "loop"
    /\ todo = <<>>
    /\ closed = {}
    /\ pc' = "idle"
    /\ cur' = NoConn
    /\ UNCHANGED <<network, messages, notify, processor, syncStatus, todo, closed, history>>

\* The loop of WaitAllClientsDisconnected() ends.
AllClientsDisconnected ==
    /\ pc = "idle"
    /\ waiting = "waits"
    /\ clients = <<>>
    /\ waiting' = "returned"
    /\ UNCHANGED <<listening, conn, client, clients, messages, notify, processor,
                   syncStatus, pc, loop, history>>

-------------------------------------------------------------------------------
UpdateStep ==
    \/ BeginUpdate
    \/ BeginLoop
    \/ NextClient
    \/ SendQueuedMessages
    \/ ProcessReceivedMessages
    \/ ConnectionUpdated
    \/ OnConnectionEstablished
    \/ StopIfDisconnected
    \/ JoinTaskProcessors
    \/ OnConnectionClosed
    \/ FindDisconnected
    \/ EraseClosed
    \/ EndUpdate
    \/ AllClientsDisconnected

NetworkStep ==
    \/ CreateConnection
    \/ pMessageReceivedConnect
    \/ \E c \in Conns : RemoteCloses(c)

AppStep ==
    \/ ListenOn
    \/ StopListening
    \/ WaitAllClientsDisconnected
    \/ AppDisconnects
    \/ Synchronize

ProcStep(c) ==
    \/ ProcessorSends(c)
    \/ SynchronizeEnds(c)
    \/ ProcessorExits(c)

Next ==
    \/ UpdateStep
    \/ NetworkStep
    \/ AppStep
    \/ \E c \in Conns : ProcStep(c)

Spec == Init /\ [][Next]_vars

(* Update() is called again and again, by the application or by the loop it waits in, and
   a processor exits when told to. *)
FairSpec ==
    /\ Spec
    /\ WF_vars(UpdateStep)
    /\ \A c \in Conns : WF_vars(ProcessorExits(c))
-------------------------------------------------------------------------------
(* Properties *)

(* Types, and the list of clients: one for each present, none twice, and nobody once
   WaitAllClientsDisconnected() has returned. *)
TypeOK ==
    /\ listening \in {"not yet", "yes", "stopped"}
    /\ waiting \in {"no", "waits", "returned", "thrown"}
    /\ waiting # "no" => listening = "stopped"
    /\ waiting = "returned" => clients = <<>>
    /\ conn \in [Conns -> {"none", "connected", "closed"}]
    /\ client \in [Conns -> {"none", "present", "removed"}]
    /\ IsInjective(clients)
    /\ Range(clients) = {c \in Conns : client[c] = "present"}
    /\ queued \in [Conns -> 0 .. MaxMessages]
    /\ total \in [Conns -> 0 .. MaxMessages]
    /\ notifyEstablished \in [Conns -> BOOLEAN]
    /\ notifyClosed \in [Conns -> BOOLEAN]
    /\ running \in [Conns -> BOOLEAN]
    /\ exit \in [Conns -> BOOLEAN]
    /\ proc \in [Conns -> {"off", "on"}]
    /\ syncStatus \in [Conns -> {"pending", "processing", "ready", "failed"}]
    /\ pc \in {"idle", "net", "loop", "send", "receive", "update",
               "established", "stop", "join", "closed", "after", "joinAgain"}
    /\ cur \in Conns \cup {NoConn}
    /\ cur = NoConn => pc \in {"idle", "net", "loop"}
    /\ Range(todo) \cup closed \subseteq Range(clients)
    /\ late \subseteq Conns

(* A client leaves the list after its processor has ended, whoever closed the
   connection and whenever: the thread works on the client by reference. *)
ThreadsGone == \A c \in Conns : client[c] = "removed" => proc[c] = "off"

(* The application hears of a connection in order and once: established, then
   closed; and nothing of one that ended before it was taken. *)
CallbacksInOrder ==
    \A c \in Conns :
        /\ IsPrefix(told[c], <<"established", "closed">>)
        /\ told[c] # <<>> => client[c] # "none"

Told(c) == "closed" \in Range(told[c])

(* Only a Disconnect() between a client's Update() and the look of derlServer at the
   connection lets the client disappear unheard: not one at any other time, whichever
   side closes, and no exception an update is left by. *)
ToldUnlessLate ==
    \A c \in Conns : client[c] = "removed" => Told(c) \/ c \in late

(* "Connection closed either by calling Disconnect() or by server": a client is not
   removed without this callback. *)
ClosedIsTold == \A c \in Conns : client[c] = "removed" => Told(c)

(* An update sends over open connections only: otherwise the library throws and the
   clients behind in the list are left out. *)
UpdateNeverThrows ==
    pc = "send" /\ queued[cur] > 0 => conn[cur] = "connected"

(* A synchronisation is decided before its client goes. *)
SyncDecided == \A c \in Conns : client[c] = "removed" => syncStatus[c] # "processing"

(* A client whose connection is closed is removed in the end, though an update that
   throws leaves out the rest of its work. *)
ClosedIsRemoved ==
    \A c \in Conns :
        conn[c] = "closed" /\ client[c] = "present" ~> client[c] = "removed"

(* WaitAllClientsDisconnected() does not wait for ever: it returns, or an exception of
   Update() leaves it.  Each exception takes a message, and none are queued without
   end: an application that catches it and waits again sees the wait return. *)
WaitReturns == <>[](waiting # "waits")

(* "Waits for all clients to have disconnected calling Update() until this happens." *)
WaitLeavesNobody == waiting \in {"returned", "thrown"} => clients = <<>>
===============================================================================
