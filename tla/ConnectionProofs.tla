---------------------------- MODULE ConnectionProofs ----------------------------
(***************************************************************************)
(* Theorems about Connection, for every set of connections and whatever    *)
(* may happen to them.                                                     *)
(***************************************************************************)
EXTENDS Connection, SequenceFacts

(* The types of what the theorem is about. *)
ThreadTypes ==
    /\ client \in [Conns -> {"none", "present", "removed"}]
    /\ notifyEstablished \in [Conns -> BOOLEAN]
    /\ proc \in [Conns -> {"off", "on"}]

(* Nobody is found disconnected before the loop begins. *)
NoneClosedYet == pc \in {"idle", "net"} => closed = {}

(* A thread is started for a client in the list only. *)
StartedForPresent == \A c \in Conns : notifyEstablished[c] => client[c] = "present"

(* In the rest of its update a client has its thread started already. *)
StartedBefore ==
    \A c \in Conns :
        cur = c /\ pc \in {"stop", "join", "closed", "after", "joinAgain"}
            => ~ notifyEstablished[c]

(* A client found disconnected has no thread, and gets none, but for the one that is
   being joined. *)
ClosedStopped ==
    \A c \in Conns : c \in closed =>
        /\ ~ notifyEstablished[c]
        /\ proc[c] = "off" \/ (pc = "joinAgain" /\ cur = c)

ThreadInv ==
    /\ ThreadTypes
    /\ NoneClosedYet
    /\ StartedForPresent
    /\ StartedBefore
    /\ ClosedStopped
    /\ ThreadsGone

LEMMA ThreadInvInit == Init => ThreadInv
<1> SUFFICES ASSUME Init
             PROVE  ThreadInv
  OBVIOUS
<1>1. notifyEstablished \in [Conns -> BOOLEAN] /\ \A c \in Conns : ~ notifyEstablished[c]
  BY Zenon DEF Init
<1>2. /\ client \in [Conns -> {"none", "present", "removed"}]
      /\ proc \in [Conns -> {"off", "on"}]
      /\ \A c \in Conns : client[c] = "none"
      /\ pc = "idle" /\ closed = {}
  BY DEF Init
<1> QED
  BY <1>1, <1>2 DEF ThreadInv, ThreadTypes, NoneClosedYet, StartedForPresent,
         StartedBefore, ClosedStopped, ThreadsGone

LEMMA ThreadInvStep == ThreadInv /\ [Next]_vars => ThreadInv'
<1> SUFFICES ASSUME ThreadInv, [Next]_vars
             PROVE  ThreadInv'
  OBVIOUS
<1> USE DEF ThreadInv, ThreadTypes, NoneClosedYet, StartedForPresent, StartedBefore,
            ClosedStopped, ThreadsGone, network, messages, notify, processor, loop, history
<1>1. CASE ListenOn \/ WaitAllClientsDisconnected
  BY <1>1 DEF ListenOn, WaitAllClientsDisconnected
<1>2. CASE StopListening
  BY <1>2 DEF StopListening, Close
<1>3. CASE AppDisconnects
  BY <1>3 DEF AppDisconnects, Disconnect, Close
<1>4. CASE Synchronize
  BY <1>4 DEF Synchronize
<1>5. CASE \E c \in Conns : ProcessorSends(c) \/ SynchronizeEnds(c)
  BY <1>5 DEF ProcessorSends, SynchronizeEnds
<1>6. CASE \E c \in Conns : ProcessorExits(c)
  BY <1>6 DEF ProcessorExits
<1>7. CASE BeginUpdate
  BY <1>7 DEF BeginUpdate
<1>8. CASE CreateConnection
  BY <1>8 DEF CreateConnection
<1>9. CASE pMessageReceivedConnect
  BY <1>9 DEF pMessageReceivedConnect, CreateClient, Close, Open
<1>10. CASE \E c \in Conns : RemoteCloses(c)
  BY <1>10 DEF RemoteCloses, Close
<1>11. CASE BeginLoop
  BY <1>11 DEF BeginLoop
<1>12. CASE NextClient
  BY <1>12 DEF NextClient
<1>13. CASE SendQueuedMessages
  BY <1>13 DEF SendQueuedMessages
<1>14. CASE ProcessReceivedMessages \/ ConnectionUpdated
  BY <1>14 DEF ProcessReceivedMessages, ConnectionUpdated
<1>15. CASE OnConnectionEstablished
  BY <1>15 DEF OnConnectionEstablished
<1>16. CASE StopIfDisconnected
  BY <1>16 DEF StopIfDisconnected
<1>17. CASE JoinTaskProcessors
  BY <1>17 DEF JoinTaskProcessors
<1>18. CASE OnConnectionClosed
  BY <1>18 DEF OnConnectionClosed
<1>19. CASE FindDisconnected
  BY <1>19 DEF FindDisconnected, StopsProcessors
<1>20. CASE EraseClosed
  BY <1>20 DEF EraseClosed
<1>21. CASE EndUpdate \/ AllClientsDisconnected
  BY <1>21 DEF EndUpdate, AllClientsDisconnected
<1>22. CASE UNCHANGED vars
  BY <1>22 DEF vars
<1> QED
  BY <1>1, <1>2, <1>3, <1>4, <1>5, <1>6, <1>7, <1>8, <1>9, <1>10, <1>11, <1>12, <1>13,
     <1>14, <1>15, <1>16, <1>17, <1>18, <1>19, <1>20, <1>21, <1>22
     DEF Next, UpdateStep, NetworkStep, AppStep, ProcStep

(* A client leaves the server's list only after its task processor has ended, for any
   number of launchers: the thread works on the client by reference. *)
THEOREM ClientOutlivesThread == Spec => []ThreadsGone
<1>1. ThreadInv => ThreadsGone
  BY DEF ThreadInv
<1> QED
  BY <1>1, ThreadInvInit, ThreadInvStep, PTL DEF Spec
-------------------------------------------------------------------------------
(* What the application has heard, as far as it can come. *)
Words == {<<>>, <<"established">>, <<"established", "closed">>}

HeardAll(c) == told[c] = <<"established", "closed">>

(* The types of what the theorem is about. *)
ToldTypes ==
    /\ told \in [Conns -> Words]
    /\ conn \in [Conns -> {"none", "connected", "closed"}]
    /\ notifyClosed \in [Conns -> BOOLEAN]

(* Nothing is said of a client before it is taken and its thread is started. *)
SilentBefore ==
    \A c \in Conns :
        /\ client[c] = "none" \/ notifyEstablished[c] => told[c] = <<>>
        /\ client[c] = "present" => notifyEstablished[c] \/ told[c] # <<>>

(* A close still to be told has not been told, and the connection has been, or will be
   first; neither comes before the close. *)
ClosedOnce ==
    \A c \in Conns :
        /\ notifyClosed[c] =>
               /\ client[c] # "none" /\ ~ HeardAll(c)
               /\ notifyEstablished[c] \/ told[c] # <<>>
        /\ notifyClosed[c] \/ HeardAll(c) => conn[c] = "closed"

ToldInv == ToldTypes /\ SilentBefore /\ ClosedOnce

(* What is told next continues the words told before. *)
LEMMA AppendToOne ==
    ASSUME NEW a, NEW b
    PROVE  Append(<<a>>, b) = <<a, b>>
<1>1. <<a>> \in Seq({a, b}) /\ <<a, b>> \in Seq({a, b})
  OBVIOUS
<1>2. /\ Append(<<a>>, b) \in Seq({a, b})
      /\ Len(Append(<<a>>, b)) = 2
      /\ Append(<<a>>, b)[1] = a
      /\ Append(<<a>>, b)[2] = b
  BY <1>1, AppendProperties
<1>3. \A i \in 1 .. 2 : Append(<<a>>, b)[i] = <<a, b>>[i]
  BY <1>2
<1> QED
  BY <1>1, <1>2, <1>3, SeqEqual

LEMMA Continued ==
    /\ Append(<<>>, "established") = <<"established">>
    /\ Append(<<"established">>, "closed") = <<"established", "closed">>
<1>1. Append(<<>>, "established") = <<"established">>
  OBVIOUS
<1> QED
  BY <1>1, AppendToOne

(* The three words differ, and each is a beginning of the last. *)
LEMMA Beginnings ==
    /\ <<>> # <<"established">>
    /\ <<>> # <<"established", "closed">>
    /\ <<"established">> # <<"established", "closed">>
    /\ \A w \in Words : IsPrefix(w, <<"established", "closed">>)
  BY DEF Words, IsPrefix

LEMMA ToldInvInit == Init => ToldInv
<1> SUFFICES ASSUME Init
             PROVE  ToldInv
  OBVIOUS
<1>1. notifyClosed \in [Conns -> BOOLEAN] /\ \A c \in Conns : ~ notifyClosed[c]
  BY Zenon DEF Init
<1>2. /\ told \in [Conns -> Words]
      /\ conn \in [Conns -> {"none", "connected", "closed"}]
      /\ \A c \in Conns : told[c] = <<>> /\ client[c] = "none"
  BY DEF Init, Words
<1> QED
  BY <1>1, <1>2, Beginnings DEF ToldInv, ToldTypes, SilentBefore, ClosedOnce, HeardAll

LEMMA ToldInvStep == ToldInv /\ ThreadInv /\ [Next]_vars => ToldInv'
<1> SUFFICES ASSUME ToldInv, ThreadInv, [Next]_vars
             PROVE  ToldInv'
  OBVIOUS
<1> USE Beginnings DEF ToldInv, ToldTypes, SilentBefore, ClosedOnce, HeardAll,
            network, messages, notify, processor, loop, history
<1>t. ThreadTypes /\ StartedBefore /\ StartedForPresent
  BY DEF ThreadInv
<1>1. CASE ListenOn \/ WaitAllClientsDisconnected
  BY <1>1 DEF ListenOn, WaitAllClientsDisconnected
<1>2. CASE StopListening
  BY <1>2, <1>t DEF StopListening, Close, Noted, Open, ThreadTypes
<1>3. CASE AppDisconnects
  BY <1>3, <1>t DEF AppDisconnects, Disconnect, Close, Noted, ThreadTypes
<1>4. CASE Synchronize
  BY <1>4 DEF Synchronize
<1>5. CASE \E c \in Conns : ProcStep(c)
  BY <1>5 DEF ProcStep, ProcessorSends, SynchronizeEnds, ProcessorExits
<1>6. CASE BeginUpdate \/ BeginLoop \/ NextClient \/ EndUpdate \/ AllClientsDisconnected
  BY <1>6 DEF BeginUpdate, BeginLoop, NextClient, EndUpdate, AllClientsDisconnected
<1>7. CASE SendQueuedMessages \/ ProcessReceivedMessages \/ ConnectionUpdated
  BY <1>7 DEF SendQueuedMessages, ProcessReceivedMessages, ConnectionUpdated
<1>8. CASE CreateConnection
  BY <1>8 DEF CreateConnection
<1>9. CASE pMessageReceivedConnect
  BY <1>9, <1>t DEF pMessageReceivedConnect, CreateClient, Close, Noted, Open, ThreadTypes
<1>10. CASE \E c \in Conns : RemoteCloses(c)
  BY <1>10, <1>t DEF RemoteCloses, Close, Noted, ThreadTypes
<1>11. CASE OnConnectionEstablished
  <2>1. CASE cur \in Conns /\ notifyEstablished[cur]
    <3>1. told' = [told EXCEPT ![cur] = <<"established">>]
      BY <1>11, <2>1, Continued DEF OnConnectionEstablished, Tell
    <3>2. /\ notifyEstablished' = [notifyEstablished EXCEPT ![cur] = FALSE]
          /\ UNCHANGED <<client, conn, notifyClosed>>
      BY <1>11, <2>1 DEF OnConnectionEstablished
    <3>3. told[cur] = <<>> /\ client[cur] = "present"
      BY <1>t, <2>1 DEF StartedForPresent
    <3>4. ToldTypes'
      BY <3>1, <3>2 DEF Words
    <3>5. SilentBefore'
      BY <1>t, <3>1, <3>2, <3>3 DEF ThreadTypes
    <3>6. ClosedOnce'
      BY <1>t, <3>1, <3>2, <3>3 DEF ThreadTypes
    <3> QED
      BY <3>4, <3>5, <3>6
  <2>2. CASE ~ (cur \in Conns /\ notifyEstablished[cur])
    <3>1. told' = told /\ notifyEstablished' = notifyEstablished
      BY <1>11, <1>t, <2>2 DEF OnConnectionEstablished, Tell, ThreadTypes
    <3> QED
      BY <1>11, <3>1 DEF OnConnectionEstablished
  <2> QED
    BY <2>1, <2>2
<1>12. CASE StopIfDisconnected \/ JoinTaskProcessors \/ FindDisconnected
  BY <1>12 DEF StopIfDisconnected, JoinTaskProcessors, FindDisconnected, StopsProcessors
<1>13. CASE OnConnectionClosed
  <2>1. CASE cur \in Conns /\ notifyClosed[cur]
    <3>1. told[cur] = <<"established">>
      BY <1>13, <1>t, <2>1 DEF OnConnectionClosed, Words, StartedBefore
    <3>2. told' = [told EXCEPT ![cur] = <<"established", "closed">>]
      BY <1>13, <2>1, <3>1, Continued DEF OnConnectionClosed, Tell
    <3> QED
      BY <1>13, <1>t, <2>1, <3>1, <3>2
         DEF OnConnectionClosed, ClearedFlag, Words, StartedBefore
  <2>2. CASE ~ (cur \in Conns /\ notifyClosed[cur])
    <3>1. told' = told /\ notifyClosed' = notifyClosed
      BY <1>13, <2>2 DEF OnConnectionClosed, ClearedFlag, Tell
    <3> QED
      BY <1>13, <3>1 DEF OnConnectionClosed
  <2> QED
    BY <2>1, <2>2
<1>14. CASE EraseClosed
  BY <1>14, <1>t DEF EraseClosed, ThreadTypes
<1>15. CASE UNCHANGED vars
  BY <1>15 DEF vars
<1> QED
  BY <1>1, <1>2, <1>3, <1>4, <1>5, <1>6, <1>7, <1>8, <1>9, <1>10, <1>11, <1>12, <1>13,
     <1>14, <1>15
     DEF Next, UpdateStep, NetworkStep, AppStep

(* The application of the server hears of each connection at most once that it is
   established and then that it is closed, in this order, and of no connection that
   ended before it was taken. *)
THEOREM HeardInOrder == Spec => []CallbacksInOrder
<1>1. ToldInv => CallbacksInOrder
  BY Beginnings DEF ToldInv, ToldTypes, SilentBefore, CallbacksInOrder
<1> QED
  BY <1>1, ThreadInvInit, ThreadInvStep, ToldInvInit, ToldInvStep, PTL DEF Spec
-------------------------------------------------------------------------------
(* The list of clients and the place of the updater *)

Places == {"idle", "net", "loop", "send", "receive", "update",
           "established", "stop", "join", "closed", "after", "joinAgain"}

(* The updater is in the update of a client. *)
Visiting == pc \notin {"idle", "net", "loop"}

FlagTypes ==
    /\ listening \in {"not yet", "yes", "stopped"}
    /\ waiting \in {"no", "waits", "returned", "thrown"}
    /\ waiting # "no" => listening = "stopped"
    /\ conn \in [Conns -> {"none", "connected", "closed"}]
    /\ client \in [Conns -> {"none", "present", "removed"}]
    /\ notifyEstablished \in [Conns -> BOOLEAN]
    /\ notifyClosed \in [Conns -> BOOLEAN]
    /\ running \in [Conns -> BOOLEAN]
    /\ exit \in [Conns -> BOOLEAN]
    /\ proc \in [Conns -> {"off", "on"}]
    /\ syncStatus \in [Conns -> {"pending", "processing", "ready", "failed"}]
    /\ late \subseteq Conns

(* No message is sent that was not queued. *)
Counts ==
    /\ queued \in [Conns -> 0 .. MaxMessages]
    /\ total \in [Conns -> 0 .. MaxMessages]
    /\ \A c \in Conns : queued[c] <= total[c]

(* The updater visits clients of the list only, and finds only those disconnected. *)
Lists ==
    /\ clients \in Seq(Conns) /\ IsInjective(clients)
    /\ Range(clients) = {c \in Conns : client[c] = "present"}
    /\ todo \in Seq(Conns)
    /\ Range(todo) \cup closed \subseteq Range(clients)
    /\ pc \in Places
    /\ cur \in Conns \cup {NoConn}
    /\ Visiting => cur \in Range(clients)

(* Nobody comes after the wait has returned. *)
NobodyComes == waiting = "returned" => clients = <<>>

TypeInv == FlagTypes /\ Counts /\ Lists /\ NobodyComes

LEMMA TypeInvImplies == TypeInv => TypeOK
<1> SUFFICES ASSUME TypeInv
             PROVE  TypeOK
  OBVIOUS
<1>1. cur = NoConn => pc \in {"idle", "net", "loop"}
  BY NoConnAssumption DEF TypeInv, Lists, Visiting
<1> QED
  BY <1>1 DEF TypeInv, FlagTypes, Counts, Lists, NobodyComes, Places, TypeOK

LEMMA TypeInvInit == Init => TypeInv
<1> SUFFICES ASSUME Init
             PROVE  TypeInv
  OBVIOUS
<1>1. /\ notifyEstablished \in [Conns -> BOOLEAN] /\ notifyClosed \in [Conns -> BOOLEAN]
      /\ running \in [Conns -> BOOLEAN] /\ exit \in [Conns -> BOOLEAN]
  BY Zenon DEF Init
<1>2. FlagTypes
  BY <1>1 DEF Init, FlagTypes
<1>3. Counts
  <2>1. 0 \in 0 .. MaxMessages /\ 0 <= 0
    BY MessagesAssumption
  <2> QED
    BY <2>1 DEF Init, Counts
<1>4. Lists
  <2>1. <<>> \in Seq(Conns) /\ Range(<<>>) = {} /\ IsInjective(<<>>)
    BY DEF Range, IsInjective
  <2>2. {c \in Conns : client[c] = "present"} = {}
    BY DEF Init
  <2> QED
    BY <2>1, <2>2 DEF Init, Lists, Visiting, Places
<1> QED
  BY <1>2, <1>3, <1>4 DEF TypeInv, NobodyComes, Init

(* Steps that leave the list alone. *)
LEMMA ListsKept ==
    ASSUME Lists, UNCHANGED <<clients, client, todo, closed, cur>>, pc' \in Places,
           Visiting' => Visiting
    PROVE  Lists'
BY DEF Lists

LEMMA FlagTypesStep == TypeInv /\ [Next]_vars => FlagTypes'
<1> SUFFICES ASSUME TypeInv, [Next]_vars
             PROVE  FlagTypes'
  OBVIOUS
<1> USE DEF FlagTypes, network, messages, notify, processor, loop, history
<1>t. FlagTypes
  BY DEF TypeInv
<1>n. ASSUME NEW S, Close(S)
      PROVE  /\ conn' \in [Conns -> {"none", "connected", "closed"}]
             /\ notifyClosed' \in [Conns -> BOOLEAN] /\ notifyEstablished' = notifyEstablished
  <2>1. notifyClosed' \in [Conns -> BOOLEAN]
    BY <1>n, Zenon DEF Close, Noted
  <2> QED
    BY <1>n, <1>t, <2>1 DEF Close
<1>1. CASE AppStep
  <2>1. CASE ListenOn \/ WaitAllClientsDisconnected \/ Synchronize
    BY <1>t, <2>1 DEF ListenOn, WaitAllClientsDisconnected, Synchronize
  <2>2. CASE StopListening
    BY <1>n, <1>t, <2>2 DEF StopListening
  <2>3. CASE AppDisconnects
    <3>1. PICK c \in Conns : Disconnect(c)
      BY <2>3 DEF AppDisconnects
    <3>2. late' \subseteq Conns
      BY <1>t, <3>1 DEF Disconnect
    <3> QED
      BY <1>n, <1>t, <3>1, <3>2 DEF Disconnect
  <2> QED
    BY <1>1, <2>1, <2>2, <2>3 DEF AppStep
<1>2. CASE \E c \in Conns : ProcStep(c)
  <2>1. PICK c \in Conns : ProcStep(c)
    BY <1>2
  <2>2. CASE ProcessorSends(c)
    BY <1>t, <2>2 DEF ProcessorSends
  <2>3. CASE SynchronizeEnds(c)
    <3>1. PICK status \in {"ready", "failed"} : syncStatus' = [syncStatus EXCEPT ![c] = status]
      BY <2>3 DEF SynchronizeEnds
    <3> QED
      BY <1>t, <2>3, <3>1 DEF SynchronizeEnds
  <2>4. CASE ProcessorExits(c)
    BY <1>t, <2>4 DEF ProcessorExits
  <2> QED
    BY <2>1, <2>2, <2>3, <2>4 DEF ProcStep
<1>3. CASE NetworkStep
  <2>1. CASE CreateConnection
    BY <1>t, <2>1 DEF CreateConnection
  <2>2. CASE pMessageReceivedConnect
    <3>1. PICK c \in Open : CreateClient(c) \/ (Close({c}) /\ UNCHANGED <<client, clients>>)
      BY <2>2 DEF pMessageReceivedConnect
    <3>2. CASE CreateClient(c)
      BY <1>t, <2>2, <3>2 DEF pMessageReceivedConnect, CreateClient
    <3>3. CASE Close({c}) /\ UNCHANGED <<client, clients>>
      BY <1>n, <1>t, <2>2, <3>3 DEF pMessageReceivedConnect
    <3> QED
      BY <3>1, <3>2, <3>3
  <2>3. CASE \E c \in Conns : RemoteCloses(c)
    BY <1>n, <1>t, <2>3 DEF RemoteCloses
  <2> QED
    BY <1>3, <2>1, <2>2, <2>3 DEF NetworkStep
<1>4. CASE BeginUpdate \/ BeginLoop \/ NextClient \/ SendQueuedMessages
           \/ ProcessReceivedMessages \/ ConnectionUpdated \/ EndUpdate
           \/ AllClientsDisconnected
  BY <1>4, <1>t DEF BeginUpdate, BeginLoop, NextClient, SendQueuedMessages, LeavesWait,
                    ProcessReceivedMessages, ConnectionUpdated, EndUpdate,
                    AllClientsDisconnected
<1>5. CASE OnConnectionEstablished
  <2>1. CASE notifyEstablished[cur]
    BY <1>5, <1>t, <2>1 DEF OnConnectionEstablished
  <2>2. CASE ~ notifyEstablished[cur]
    BY <1>5, <1>t, <2>2 DEF OnConnectionEstablished
  <2> QED
    BY <2>1, <2>2
<1>6. CASE StopIfDisconnected \/ JoinTaskProcessors \/ OnConnectionClosed \/ FindDisconnected
  BY <1>6, <1>t DEF StopIfDisconnected, JoinTaskProcessors, OnConnectionClosed, ClearedFlag,
                    FindDisconnected, StopsProcessors
<1>7. CASE EraseClosed
  BY <1>7, <1>t DEF EraseClosed
<1>8. CASE UNCHANGED vars
  BY <1>8, <1>t DEF vars
<1> QED
  BY <1>1, <1>2, <1>3, <1>4, <1>5, <1>6, <1>7, <1>8 DEF Next, UpdateStep

LEMMA CountsStep == TypeInv /\ [Next]_vars => Counts'
<1> SUFFICES ASSUME TypeInv, [Next]_vars
             PROVE  Counts'
  OBVIOUS
<1> USE MessagesAssumption DEF Counts, messages
<1>t. Counts
  BY DEF TypeInv
<1>v. Visiting => cur \in Conns
  BY DEF TypeInv, Lists
<1>1. ASSUME NEW c \in Conns, CanQueue(c), Queue(c)
      PROVE  Counts'
  <2>1. queued[c] + 1 \in 0 .. MaxMessages /\ total[c] + 1 \in 0 .. MaxMessages
        /\ queued[c] + 1 <= total[c] + 1
    BY <1>t, <1>1 DEF CanQueue
  <2> QED
    BY <1>t, <1>1, <2>1 DEF Queue
<1>2. CASE AppStep
  BY <1>1, <1>2, <1>t, <1>v DEF AppStep, ListenOn, StopListening, WaitAllClientsDisconnected,
                                AppDisconnects, Disconnect, Synchronize, Visiting
<1>3. CASE \E c \in Conns : ProcStep(c)
  BY <1>1, <1>3, <1>t DEF ProcStep, ProcessorSends, SynchronizeEnds, ProcessorExits
<1>4. CASE NetworkStep
  BY <1>4, <1>t DEF NetworkStep, CreateConnection, pMessageReceivedConnect, RemoteCloses
<1>5. CASE SendQueuedMessages
  <2>1. PICK n : /\ n = IF queued[cur] > 0 /\ conn[cur] # "connected"
                        THEN queued[cur] - 1 ELSE 0
                 /\ queued' = [queued EXCEPT ![cur] = n]
    BY Zenon, <1>5 DEF SendQueuedMessages, PoppedMessage
  <2>2. cur \in Conns => n \in 0 .. MaxMessages /\ n <= total[cur]
    BY <1>t, <2>1
  <2>3. UNCHANGED total
    BY <1>5 DEF SendQueuedMessages
  <2> QED
    BY <1>t, <2>1, <2>2, <2>3
<1>6. CASE ProcessReceivedMessages
  BY <1>1, <1>6, <1>t, <1>v DEF ProcessReceivedMessages, Visiting
<1>7. CASE BeginUpdate \/ BeginLoop \/ NextClient \/ ConnectionUpdated \/ EndUpdate
           \/ OnConnectionEstablished \/ StopIfDisconnected \/ JoinTaskProcessors
           \/ OnConnectionClosed \/ FindDisconnected \/ EraseClosed
           \/ AllClientsDisconnected
  BY <1>7, <1>t DEF BeginUpdate, BeginLoop, NextClient, ConnectionUpdated, EndUpdate,
                    OnConnectionEstablished, StopIfDisconnected, JoinTaskProcessors,
                    OnConnectionClosed, FindDisconnected, EraseClosed, AllClientsDisconnected
<1>8. CASE UNCHANGED vars
  BY <1>8, <1>t DEF vars
<1> QED
  BY <1>2, <1>3, <1>4, <1>5, <1>6, <1>7, <1>8 DEF Next, UpdateStep

LEMMA ListsStep == TypeInv /\ [Next]_vars => Lists'
<1> SUFFICES ASSUME TypeInv, [Next]_vars
             PROVE  Lists'
  OBVIOUS
<1> USE DEF network, messages, notify, processor, loop, history, Places, Visiting
<1>t. Lists /\ client \in [Conns -> {"none", "present", "removed"}]
  BY DEF TypeInv, FlagTypes
<1>1. CASE AppStep
  BY <1>1, <1>t, ListsKept DEF AppStep, ListenOn, StopListening, WaitAllClientsDisconnected,
                               AppDisconnects, Disconnect, Synchronize, Lists
<1>2. CASE \E c \in Conns : ProcStep(c)
  BY <1>2, <1>t, ListsKept DEF ProcStep, ProcessorSends, SynchronizeEnds, ProcessorExits, Lists
<1>3. CASE CreateConnection \/ \E c \in Conns : RemoteCloses(c)
  BY <1>3, <1>t, ListsKept DEF CreateConnection, RemoteCloses, Lists
<1>4. CASE pMessageReceivedConnect
  <2>1. pc = "net" /\ UNCHANGED <<pc, todo, closed, cur>>
    BY <1>4 DEF pMessageReceivedConnect
  <2>2. CASE UNCHANGED <<client, clients>>
    BY <1>t, <2>1, <2>2, ListsKept DEF Lists
  <2>3. ASSUME NEW c \in Conns, client[c] = "none", CreateClient(c)
        PROVE  Lists'
    <3>1. /\ client' = [client EXCEPT ![c] = "present"]
          /\ clients' = Append(clients, c)
      BY <2>3 DEF CreateClient
    <3>2. /\ c \notin Range(clients) /\ clients' \in Seq(Conns) /\ IsInjective(clients')
          /\ Range(clients') = Range(clients) \cup {c}
      BY <1>t, <2>3, <3>1, AppendNew, RangeOfAppend, AppendProperties DEF Lists
    <3>3. Range(clients') = {d \in Conns : client'[d] = "present"}
      BY <1>t, <3>1, <3>2 DEF Lists
    <3> QED
      BY <1>t, <2>1, <3>2, <3>3 DEF Lists
  <2> QED
    BY <1>4, <2>2, <2>3 DEF pMessageReceivedConnect, Open
<1>5. CASE BeginUpdate
  BY <1>5, <1>t, ListsKept DEF BeginUpdate
<1>6. CASE BeginLoop
  BY <1>6, <1>t DEF BeginLoop, Lists
<1>7. CASE NextClient
  <2>1. /\ UNCHANGED <<clients, client, closed>> /\ pc' = "send"
        /\ todo # <<>> /\ cur' = Head(todo) /\ todo' = Tail(todo)
    BY <1>7 DEF NextClient
  <2>2. /\ todo' \in Seq(Conns) /\ cur' \in Conns /\ cur' \in Range(todo)
        /\ Range(todo') \subseteq Range(todo)
    <3>1. todo \in Seq(Conns) /\ todo \in Seq(Range(todo))
      BY <1>t, SeqOfRange DEF Lists
    <3> QED
      BY <2>1, <3>1, HeadTailProperties, TailTyped
  <2> QED
    BY <1>t, <2>1, <2>2 DEF Lists
<1>8. CASE SendQueuedMessages
  <2>1. CASE pc' = "receive" /\ UNCHANGED loop
    BY <1>8, <1>t, <2>1, ListsKept DEF SendQueuedMessages
  <2>2. CASE pc' = "idle" /\ cur' = NoConn /\ todo' = <<>> /\ closed' = {}
    <3>1. <<>> \in Seq(Conns) /\ Range(<<>>) = {}
      BY DEF Range
    <3> QED
      BY <1>8, <1>t, <2>2, <3>1 DEF SendQueuedMessages, Lists
  <2> QED
    BY <1>8, <2>1, <2>2 DEF SendQueuedMessages
<1>9. CASE ProcessReceivedMessages \/ ConnectionUpdated
  BY <1>9, <1>t, ListsKept DEF ProcessReceivedMessages, ConnectionUpdated
<1>10. CASE OnConnectionEstablished \/ OnConnectionClosed
  BY <1>10, <1>t, ListsKept DEF OnConnectionEstablished, OnConnectionClosed
<1>11. CASE StopIfDisconnected \/ JoinTaskProcessors
  BY <1>11, <1>t, ListsKept DEF StopIfDisconnected, JoinTaskProcessors
<1>12. CASE FindDisconnected
  <2>1. /\ pc = "after" /\ UNCHANGED <<clients, client, todo, cur>>
        /\ pc' \in {"loop", "joinAgain"}
        /\ closed' = closed \/ closed' = closed \cup {cur}
    BY <1>12 DEF FindDisconnected, StopsProcessors
  <2> QED
    BY <1>t, <2>1 DEF Lists
<1>13. CASE EraseClosed
  <2>1. pc = "loop" /\ todo = <<>> /\ UNCHANGED <<pc, cur, todo>> /\ Range(todo) = {}
    BY <1>13 DEF EraseClosed, Range
  <2>2. PICK i \in DOMAIN clients :
           /\ clients' = Erased(clients, i)
           /\ client' = [client EXCEPT ![clients[i]] = "removed"]
           /\ closed' = closed \ {clients[i]}
    BY <1>13 DEF EraseClosed
  <2>3. /\ clients' \in Seq(Conns) /\ IsInjective(clients')
        /\ Range(clients') = Range(clients) \ {clients[i]}
    <3>1. clients \in Seq(Conns) /\ IsInjective(clients)
      BY <1>t DEF Lists
    <3> QED
      BY <2>2, <3>1, EraseFromSequence, EraseFromInjective DEF Erased, RemoveAt
  <2>4. Range(clients') = {d \in Conns : client'[d] = "present"}
    BY <1>t, <2>2, <2>3 DEF Lists
  <2> QED
    BY <1>t, <2>1, <2>2, <2>3, <2>4 DEF Lists
<1>14. CASE EndUpdate \/ AllClientsDisconnected
  BY <1>14, <1>t DEF EndUpdate, AllClientsDisconnected, Lists
<1>15. CASE UNCHANGED vars
  BY <1>15, <1>t, ListsKept DEF vars, Lists
<1> QED
  BY <1>1, <1>2, <1>3, <1>4, <1>5, <1>6, <1>7, <1>8, <1>9, <1>10, <1>11, <1>12, <1>13, <1>14,
     <1>15 DEF Next, UpdateStep, NetworkStep

LEMMA NobodyComesStep == TypeInv /\ [Next]_vars => NobodyComes'
<1> SUFFICES ASSUME TypeInv, [Next]_vars, waiting' = "returned"
             PROVE  clients' = <<>>
  BY DEF NobodyComes
<1> USE DEF network
<1>t. /\ waiting = "returned" => clients = <<>>
      /\ waiting # "no" => listening = "stopped"
  BY DEF TypeInv, NobodyComes, FlagTypes
<1>1. CASE pMessageReceivedConnect
  BY <1>1, <1>t DEF pMessageReceivedConnect
<1>2. CASE EraseClosed
  <2>1. clients # <<>> /\ UNCHANGED waiting
    BY <1>2 DEF EraseClosed
  <2> QED
    BY <1>t, <2>1
<1>3. CASE AppStep
  BY <1>3, <1>t DEF AppStep, ListenOn, StopListening, WaitAllClientsDisconnected,
                    AppDisconnects, Disconnect, Synchronize
<1>4. CASE \E c \in Conns : ProcStep(c)
  BY <1>4, <1>t DEF ProcStep, ProcessorSends, SynchronizeEnds, ProcessorExits
<1>5. CASE CreateConnection \/ \E c \in Conns : RemoteCloses(c)
  BY <1>5, <1>t DEF CreateConnection, RemoteCloses
<1>6. CASE SendQueuedMessages
  BY <1>6, <1>t DEF SendQueuedMessages, LeavesWait
<1>7. CASE BeginUpdate \/ BeginLoop \/ NextClient \/ ProcessReceivedMessages
           \/ ConnectionUpdated \/ OnConnectionEstablished \/ StopIfDisconnected
           \/ JoinTaskProcessors \/ OnConnectionClosed \/ FindDisconnected \/ EndUpdate
           \/ AllClientsDisconnected
  BY <1>7, <1>t DEF BeginUpdate, BeginLoop, NextClient, ProcessReceivedMessages,
                    ConnectionUpdated, OnConnectionEstablished, StopIfDisconnected,
                    JoinTaskProcessors, OnConnectionClosed, FindDisconnected, EndUpdate,
                    AllClientsDisconnected
<1>8. CASE UNCHANGED vars
  BY <1>8, <1>t DEF vars
<1> QED
  BY <1>1, <1>2, <1>3, <1>4, <1>5, <1>6, <1>7, <1>8 DEF Next, UpdateStep, NetworkStep

LEMMA TypeInvHolds == Spec => []TypeInv
<1>1. TypeInv /\ [Next]_vars => TypeInv'
  BY FlagTypesStep, CountsStep, ListsStep, NobodyComesStep DEF TypeInv
<1> QED
  BY <1>1, TypeInvInit, PTL DEF Spec

(* The variables have their types, the list of clients holds each client present once and
   nothing else, and the loop over it visits and erases clients of the list only,
   however the list grows, shrinks or the loop is left by an exception; nobody is in it
   any more once WaitAllClientsDisconnected() has returned. *)
THEOREM TypeCorrect == Spec => []TypeOK
BY TypeInvHolds, TypeInvImplies, PTL
-------------------------------------------------------------------------------
(* What the application is told of a client that goes *)

(* A connection that closes with a client in the list leaves a note, until the
   application has been told. *)
CloseNoted ==
    \A c \in Conns :
        client[c] = "present" /\ conn[c] = "closed" => notifyClosed[c] \/ HeardAll(c)

(* A note left after the client's update is of a connection closed late. *)
NotedLate == \A c \in Conns : pc = "after" /\ cur = c /\ notifyClosed[c] => c \in late

(* Who is found disconnected, or has gone, was told of or closed late. *)
GoneTold ==
    \A c \in Conns : c \in closed \/ client[c] = "removed" => HeardAll(c) \/ c \in late

GoneInv == CloseNoted /\ NotedLate /\ GoneTold

LEMMA GoneInvInit == Init => GoneInv
<1> SUFFICES ASSUME Init
             PROVE  GoneInv
  OBVIOUS
<1>1. pc = "idle" /\ closed = {} /\ \A c \in Conns : client[c] = "none"
  BY DEF Init
<1> QED
  BY <1>1 DEF GoneInv, CloseNoted, NotedLate, GoneTold

LEMMA GoneInvStep == GoneInv /\ ToldInv /\ ThreadInv /\ TypeInv /\ [Next]_vars => GoneInv'
<1> SUFFICES ASSUME GoneInv, ToldInv, ThreadInv, TypeInv, [Next]_vars
             PROVE  GoneInv'
  OBVIOUS
<1> USE Beginnings DEF GoneInv, CloseNoted, NotedLate, GoneTold, HeardAll,
            network, messages, notify, processor, loop, history
<1>t. /\ conn \in [Conns -> {"none", "connected", "closed"}]
      /\ client \in [Conns -> {"none", "present", "removed"}]
      /\ notifyClosed \in [Conns -> BOOLEAN]
      /\ Visiting => cur \in Conns /\ client[cur] = "present"
      /\ closed \subseteq Conns
      /\ told \in [Conns -> Words]
  BY DEF TypeInv, FlagTypes, Lists, ToldInv, ToldTypes
<1>1. CASE ListenOn \/ WaitAllClientsDisconnected \/ Synchronize
  BY <1>1 DEF ListenOn, WaitAllClientsDisconnected, Synchronize
<1>2. CASE StopListening
  BY <1>2, <1>t DEF StopListening, Close, Noted, Open
<1>3. CASE AppDisconnects
  <2>1. PICK c \in Conns : Disconnect(c)
    BY <1>3 DEF AppDisconnects
  <2>2. UNCHANGED <<client, clients, pc, cur, closed, told>> /\ late \subseteq late'
    BY <2>1 DEF Disconnect
  <2>3. /\ \A d \in Conns : conn'[d] = IF d = c THEN "closed" ELSE conn[d]
        /\ \A d \in Conns : notifyClosed'[d] <=> notifyClosed[d] \/ d = c
    BY <2>1, <1>t DEF Disconnect, Close, Noted
  <2>4. pc = "after" /\ cur = c => c \in late'
    BY <2>1 DEF Disconnect
  <2> QED
    BY <2>2, <2>3, <2>4
<1>4. CASE \E c \in Conns : ProcStep(c)
  BY <1>4 DEF ProcStep, ProcessorSends, SynchronizeEnds, ProcessorExits
<1>5. CASE CreateConnection
  BY <1>5, <1>t DEF CreateConnection
<1>6. CASE pMessageReceivedConnect
  BY <1>6, <1>t DEF pMessageReceivedConnect, CreateClient, Close, Noted, Open
<1>7. CASE \E c \in Conns : RemoteCloses(c)
  <2>1. PICK c \in Conns : RemoteCloses(c)
    BY <1>7
  <2>2. UNCHANGED <<client, clients, pc, cur, closed, told, late>> /\ pc # "after"
    BY <2>1 DEF RemoteCloses
  <2>3. /\ \A d \in Conns : conn'[d] = IF d = c THEN "closed" ELSE conn[d]
        /\ \A d \in Conns :
              notifyClosed'[d] <=> notifyClosed[d] \/ (d = c /\ client[d] = "present")
    BY <2>1, <1>t DEF RemoteCloses, Close, Noted
  <2> QED
    BY <2>2, <2>3
<1>8. CASE BeginUpdate \/ BeginLoop \/ NextClient \/ SendQueuedMessages
           \/ ProcessReceivedMessages \/ ConnectionUpdated \/ EndUpdate
           \/ AllClientsDisconnected
  BY <1>8 DEF BeginUpdate, BeginLoop, NextClient, SendQueuedMessages,
              ProcessReceivedMessages, ConnectionUpdated, EndUpdate, AllClientsDisconnected
<1>9. CASE OnConnectionEstablished
  <2>1. \A c \in Conns : told[c] = <<"established", "closed">> => told'[c] = told[c]
    <3>1. CASE notifyEstablished[cur] /\ cur \in Conns
      <4>1. told[cur] = <<>>
        BY <3>1 DEF ToldInv, SilentBefore
      <4> QED
        BY <1>9, <1>t, <4>1 DEF OnConnectionEstablished, Tell
    <3>2. CASE ~ notifyEstablished[cur]
      BY <1>9, <3>2 DEF OnConnectionEstablished
    <3> QED
      BY <1>9, <1>t, <3>1, <3>2 DEF OnConnectionEstablished, Visiting
  <2> QED
    BY <1>9, <2>1 DEF OnConnectionEstablished
<1>10. CASE StopIfDisconnected \/ JoinTaskProcessors
  BY <1>10 DEF StopIfDisconnected, JoinTaskProcessors
<1>11. CASE OnConnectionClosed
  <2>0. cur \in Conns /\ pc = "closed" /\ pc' = "after"
        /\ UNCHANGED <<conn, client, clients, closed, late, cur>>
    BY <1>11, <1>t DEF OnConnectionClosed, Visiting
  <2>1. CASE notifyClosed[cur]
    <3>1. told[cur] = <<"established">>
      BY <2>0, <2>1 DEF ToldInv, ToldTypes, ClosedOnce, HeardAll, Words, ThreadInv,
         StartedBefore
    <3>2. told' = [told EXCEPT ![cur] = <<"established", "closed">>]
      BY <1>11, <2>1, <3>1, Continued DEF OnConnectionClosed, Tell
    <3>3. notifyClosed' = [notifyClosed EXCEPT ![cur] = FALSE]
      BY <1>11, <2>1 DEF OnConnectionClosed, ClearedFlag
    <3> QED
      BY <1>t, <2>0, <3>2, <3>3
  <2>2. CASE ~ notifyClosed[cur]
    BY <1>11, <2>0, <2>2 DEF OnConnectionClosed
  <2> QED
    BY <2>1, <2>2
<1>12. CASE FindDisconnected
  <2>1. CASE conn[cur] = "closed"
    <3>1. HeardAll(cur) \/ cur \in late
      BY <1>12, <1>t, <2>1 DEF FindDisconnected, Visiting
    <3> QED
      BY <1>12, <2>1, <3>1 DEF FindDisconnected, StopsProcessors
  <2>2. CASE conn[cur] # "closed"
    BY <1>12, <2>2 DEF FindDisconnected
  <2> QED
    BY <2>1, <2>2
<1>13. CASE EraseClosed
  BY <1>13, <1>t DEF EraseClosed
<1>14. CASE UNCHANGED vars
  BY <1>14 DEF vars
<1> QED
  BY <1>1, <1>2, <1>3, <1>4, <1>5, <1>6, <1>7, <1>8, <1>9, <1>10, <1>11, <1>12, <1>13, <1>14
     DEF Next, UpdateStep, NetworkStep, AppStep

(* A client is removed from the list without the application having heard of its end only
   if its connection was closed by a Disconnect() between its update and the server's look
   at it: the note a close leaves is not lost when the update is left by an exception,
   when the launcher closes or when the server stops listening. *)
THEOREM NobodyGoesUnheard == Spec => []ToldUnlessLate
<1>1. GoneInv => ToldUnlessLate
  <2>1. \A c : HeardAll(c) => Told(c)
    <3>1. "closed" \in Range(<<"established", "closed">>)
      BY DEF Range
    <3> QED
      BY <3>1 DEF HeardAll, Told
  <2> QED
    BY <2>1 DEF GoneInv, GoneTold, ToldUnlessLate
<1> QED
  BY <1>1, GoneInvInit, GoneInvStep, ThreadInvInit, ThreadInvStep, ToldInvInit, ToldInvStep,
     TypeInvHolds, PTL DEF Spec
===============================================================================
