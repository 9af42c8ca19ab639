-------------------------- MODULE LauncherClientProofs --------------------------
(***************************************************************************)
(* Theorems about LauncherClient, for every set of paths and contents and  *)
(* any number of attempts and connects: its types, the request for the     *)
(* layout, and, of a single attempt, that each request is in one place,    *)
(* that the layout and the answers tell the truth, and that the attempt    *)
(* ends with the server's files.                                           *)
(***************************************************************************)
EXTENDS LauncherClient, SequenceFacts, FiniteSetTheorems

-------------------------------------------------------------------------------
(* What the server asks for, and what a thread has at hand *)

\* The server has the files, and the blocks, it asks the launcher to write.
HasFile(r) ==
    /\ r.kind \in {"write", "data", "finish"} => r.path \in DOMAIN ServerDirs[r.at]
    /\ r.kind = "data" => r.index \in BlocksOf(ServerDirs[r.at][r.path])

ServerRequests == {r \in Requests : HasFile(r)}

\* An answer is about a request of the server.
AnswersServer(m) == IsAnswer(m) /\ HasFile(m.req)

QueuesTyped ==
    /\ pending \in Seq(ServerRequests)
    /\ queueReceived \in Seq(ServerRequests)
    /\ queueSend \in Seq(Range(queueSend))
    /\ \A m \in Range(queueSend) : AnswersServer(m)

\* A file is written for an attempt in which the server has it.
WritesTyped ==
    /\ writeTasks \in [DOMAIN writeTasks -> Attempts]
    /\ \A p \in DOMAIN writeTasks : p \in Paths /\ p \in DOMAIN ServerDirs[writeTasks[p]]
    /\ fileWrite \in [Attempts \X Paths ->
          [status : {"none", "pending", "processing", "finishing", "success",
                     "failure", "validationFailed"},
           truncate : BOOLEAN]]

IsJob(j) ==
    /\ DOMAIN j = DOMAIN NoJob
    /\ j.req \in ServerRequests \cup {NoRequest}
    /\ j.layout \in 0 .. MaxAttempts
    /\ j.ok \in BOOLEAN
    /\ j.body \in Seq(Blocks)

\* The request of a task fits the place the task is at.
Fits(kind, where) ==
    CASE where \in {"layout", "hashing", "publish"} -> kind = "layout"
      [] where \in {"hashes", "store"} -> kind = "hashes"
      [] where \in {"delete", "forget"} -> kind = "delete"
      [] where = "write" -> kind = "write"
      [] where \in {"data", "open", "create", "put"} -> kind = "data"
      [] where \in {"finish", "add"} -> kind = "finish"
      [] where \in {"dirty", "answer"} -> kind \in Kinds
      [] OTHER -> TRUE

ThreadsTyped ==
    /\ DOMAIN pc = Threads /\ DOMAIN job = Threads
    /\ \A t \in Threads : IsJob(job[t])
    /\ pc[Main] \in MainPC
    /\ pc[Main] \in {"recut", "push"} => job[Main].req \in ServerRequests
    /\ pc[Main] = "recut" => job[Main].req.kind = "hashes"
    /\ \A p \in Procs : pc[p] \in ProcPC
    /\ \A p \in Procs : Busy(p) => job[p].req \in ServerRequests /\ Fits(job[p].req.kind, pc[p])

\* An attempt has begun when anything is asked for.
ServerTyped ==
    /\ DOMAIN srv = DOMAIN NewServer(0)
    /\ srv.attempt \in 0 .. MaxAttempts
    /\ srv.open \subseteq srv.sent /\ srv.sent \subseteq ServerRequests
    /\ IsDir(srv.layout)
    /\ srv.attempt = None => srv.state # "work" /\ queueReceived = <<>> /\ ~ pendingRequest

LayoutsTyped ==
    /\ layout \in 0 .. MaxAttempts
    /\ nextLayout \in 0 .. MaxAttempts
    /\ dirty \in BOOLEAN
    /\ DOMAIN content = Attempts
    /\ \A a \in Attempts : IsDir(content[a])
    /\ IsDir(disk)

FlagsTyped ==
    /\ pendingRequest \in BOOLEAN
    /\ conn \in {"disconnected", "connecting", "connected", "accepted"}
    /\ connects \in 0 .. MaxConnects
    /\ running \in BOOLEAN
    /\ exit \in BOOLEAN

(* The types of everything, strong enough to be kept by every step. *)
Typed ==
    /\ LayoutsTyped
    /\ FlagsTyped
    /\ QueuesTyped
    /\ WritesTyped
    /\ ThreadsTyped
    /\ ServerTyped

-------------------------------------------------------------------------------
(* A layout that is present answers a request for it before Update() goes on. *)
AnsweredWhenPresent == pendingRequest /\ layout # None => pc[Main] = "changed"

(* While it hashes, a processor finds every file it has listed. *)
ListedFilesThere ==
    \A p \in Procs :
        /\ pc[p] = "hashing" => job[p].todo \subseteq DOMAIN disk
        /\ pc[p] = "publish" => job[p].ok

ServedInv == AnsweredWhenPresent /\ ListedFilesThere /\ LayoutRequestServed

-------------------------------------------------------------------------------
(* Directories, requests, jobs *)

LEMMA DirsKept ==
    ASSUME NEW d, IsDir(d)
    PROVE  /\ \A p \in Paths, f \in Seq(Blocks) : IsDir(With(d, p, f))
           /\ \A p : IsDir(Without(d, p))
           /\ \A p \in DOMAIN d : p \in Paths /\ d[p] \in Seq(Blocks)
<1>1. ASSUME NEW p \in Paths, NEW f \in Seq(Blocks)
      PROVE  IsDir(With(d, p, f))
  BY <1>1 DEF IsDir, With
<1>2. ASSUME NEW p
      PROVE  IsDir(Without(d, p))
  BY DEF IsDir, Without, Restrict
<1> QED
  BY <1>1, <1>2 DEF IsDir

LEMMA ServerFiles ==
    ASSUME NEW a \in Attempts, NEW p \in DOMAIN ServerDirs[a]
    PROVE  /\ p \in Paths
           /\ ServerDirs[a][p] \in Seq(Blocks)
           /\ BlocksOf(ServerDirs[a][p]) \subseteq Indices
<1>1. p \in Paths /\ ServerDirs[a][p] \in Seq(Blocks)
  BY DirsAssumption DEF IsDir
<1>2. ServerDirs[a][p] \in Range(ServerDirs[a])
  BY DEF Range
<1> QED
  BY <1>1, <1>2 DEF Indices

LEMMA IndicesAreNatural == Indices \subseteq Nat
<1>1. ASSUME NEW a \in Attempts, NEW f \in Range(ServerDirs[a])
      PROVE  BlocksOf(f) \subseteq Nat
  <2>1. f \in Seq(Blocks)
    BY <1>1, DirsAssumption DEF Range, IsDir
  <2>2. Len(f) \in Nat
    BY <2>1, LenProperties
  <2> QED
    BY <2>2 DEF BlocksOf
<1> QED
  BY <1>1 DEF Indices

LEMMA RequestFields ==
    ASSUME NEW r \in ServerRequests
    PROVE  /\ r.at \in Attempts
           /\ r.kind \in Kinds \cup {"layout"}
           /\ r.kind \in Kinds => r.path \in Paths /\ r.index \in Indices
           /\ r = Request(r.kind, r.at, r.path, r.index)
           /\ HasFile(r)
BY DEF ServerRequests, Requests, LayoutRequest, Request, Kinds

LEMMA RequestsOfServer ==
    /\ \A a \in Attempts : LayoutRequest(a) \in ServerRequests
    /\ \A k \in {"hashes", "delete"}, a \in Attempts, p \in Paths :
          Request(k, a, p, 0) \in ServerRequests
    /\ \A k \in {"write", "finish"}, a \in Attempts, i \in Indices :
          \A p \in DOMAIN ServerDirs[a] : Request(k, a, p, i) \in ServerRequests
    /\ \A a \in Attempts : \A p \in DOMAIN ServerDirs[a] :
          \A i \in BlocksOf(ServerDirs[a][p]) : Request("data", a, p, i) \in ServerRequests
<1>1. \A a \in Attempts : LayoutRequest(a) \in ServerRequests
  BY DEF ServerRequests, Requests, LayoutRequest, Request, HasFile
<1>2. ASSUME NEW k \in {"hashes", "delete"}, NEW a \in Attempts, NEW p \in Paths
      PROVE  Request(k, a, p, 0) \in ServerRequests
  <2>1. 0 \in Indices
    BY DEF Indices
  <2>2. Request(k, a, p, 0) \in Requests
    BY <2>1 DEF Requests, Kinds
  <2>3. HasFile(Request(k, a, p, 0))
    BY DEF HasFile, Request
  <2> QED
    BY <2>2, <2>3 DEF ServerRequests
<1>3. ASSUME NEW k \in {"write", "data", "finish"}, NEW a \in Attempts,
             NEW i \in Indices, NEW p \in DOMAIN ServerDirs[a],
             k = "data" => i \in BlocksOf(ServerDirs[a][p])
      PROVE  Request(k, a, p, i) \in ServerRequests
  <2>1. p \in Paths
    BY ServerFiles
  <2>2. Request(k, a, p, i) \in Requests
    BY <2>1 DEF Requests, Kinds
  <2>3. HasFile(Request(k, a, p, i))
    BY <1>3 DEF HasFile, Request
  <2> QED
    BY <2>2, <2>3 DEF ServerRequests
<1> QED
  BY <1>1, <1>2, <1>3, ServerFiles

\* A request about a file is turned into one of the attempt the file is written for.
LEMMA AttemptReplaced ==
    ASSUME NEW r \in ServerRequests, r.kind \in {"data", "finish"}, NEW a \in Attempts,
           r.path \in DOMAIN ServerDirs[a],
           r.kind = "data" => r.index \in BlocksOf(ServerDirs[a][r.path])
    PROVE  [r EXCEPT !.at = a] \in ServerRequests
<1>1. [r EXCEPT !.at = a] = Request(r.kind, a, r.path, r.index)
  BY RequestFields DEF Request
<1>2. r.index \in Indices
  BY RequestFields DEF Kinds
<1> QED
  BY <1>1, <1>2, RequestsOfServer

\* A block that is not ignored is one of the file that is written.
LEMMA BlockInside ==
    ASSUME NEW r \in ServerRequests, r.kind = "data", NEW a \in Attempts,
           r.path \in DOMAIN ServerDirs[a],
           ~ (r.index > 1 /\ r.index > SizeToWrite([r EXCEPT !.at = a]))
    PROVE  r.index \in BlocksOf(ServerDirs[a][r.path])
<1> DEFINE new == ServerDirs[a][r.path]
           old == ServerDirs[r.at][r.path]
<1>1. /\ r = Request(r.kind, r.at, r.path, r.index) /\ r.at \in Attempts
      /\ r.path \in DOMAIN ServerDirs[r.at] /\ r.index \in BlocksOf(old)
  BY RequestFields DEF HasFile
<1>2. new \in Seq(Blocks) /\ old \in Seq(Blocks)
  BY <1>1, ServerFiles
<1>3. SizeToWrite([r EXCEPT !.at = a]) = Len(new)
  BY <1>1 DEF SizeToWrite, Request
<1> HIDE DEF new, old
<1>4. /\ Len(new) \in Nat /\ (new # <<>> => Len(new) > 0)
      /\ Len(old) \in Nat
  BY <1>2, LenProperties, EmptySeq
<1>5. r.index \in Nat /\ r.index >= 1
  BY <1>1, <1>4 DEF BlocksOf
<1>6. r.index <= 1 \/ r.index <= Len(new)
  BY <1>3, <1>4, <1>5
<1>7. r.index \in BlocksOf(new)
  BY <1>4, <1>5, <1>6 DEF BlocksOf
<1> QED
  BY <1>7 DEF new

LEMMA JobsTyped ==
    /\ IsJob(NoJob)
    /\ \A r \in ServerRequests : IsJob(JobOf(r)) /\ JobOf(r).req = r
    /\ \A j : IsJob(j) =>
          /\ \A b \in BOOLEAN : IsJob([j EXCEPT !.ok = b]) /\ [j EXCEPT !.ok = b].req = j.req
          /\ \A s : IsJob([j EXCEPT !.todo = s]) /\ [j EXCEPT !.todo = s].req = j.req
<1>1. <<>> \in Seq(Blocks)
  OBVIOUS
<1>2. 0 \in 0 .. MaxAttempts
  BY BoundsAssumption
<1> QED
  BY <1>1, <1>2 DEF IsJob, NoJob, JobOf, None

LEMMA ProcMoves ==
    ASSUME ThreadsTyped, NEW p \in Procs, NEW to \in ProcPC, NEW j, IsJob(j),
           to \notin {"off", "idle"} => j.req \in ServerRequests /\ Fits(j.req.kind, to),
           pc' = [pc EXCEPT ![p] = to], job' = [job EXCEPT ![p] = j]
    PROVE  ThreadsTyped'
<1>1. p \in Threads /\ p # Main
  BY ThreadsAssumption DEF Threads
<1> QED
  BY <1>1 DEF ThreadsTyped, Busy

LEMMA MainMoves ==
    ASSUME ThreadsTyped, NEW to \in MainPC, NEW j, IsJob(j),
           to \in {"recut", "push"} => j.req \in ServerRequests,
           to = "recut" => j.req.kind = "hashes",
           pc' = [pc EXCEPT ![Main] = to], job' = [job EXCEPT ![Main] = j]
    PROVE  ThreadsTyped'
<1>1. Main \in Threads /\ \A p \in Procs : p # Main /\ p \in Threads
  BY ThreadsAssumption DEF Threads
<1> QED
  BY <1>1 DEF ThreadsTyped, Busy

LEMMA ProcContinues ==
    ASSUME ThreadsTyped, NEW p \in Procs, NEW to \in ProcPC, Continue(p, to),
           to \notin {"off", "idle"} =>
               job[p].req \in ServerRequests /\ Fits(job[p].req.kind, to)
    PROVE  ThreadsTyped'
<1>1. p \in Threads /\ p # Main
  BY ThreadsAssumption DEF Threads
<1> QED
  BY <1>1 DEF ThreadsTyped, Busy, Continue, Goto

LEMMA MainContinues ==
    ASSUME ThreadsTyped, NEW to \in MainPC \ {"recut"}, MainGoto(to),
           to = "push" => job[Main].req \in ServerRequests
    PROVE  ThreadsTyped'
<1>1. Main \in Threads /\ \A p \in Procs : p # Main /\ p \in Threads
  BY ThreadsAssumption DEF Threads
<1> QED
  BY <1>1 DEF ThreadsTyped, Busy, MainGoto, Goto

LEMMA ProcReturns ==
    ASSUME ThreadsTyped, NEW p \in Procs, Return(p)
    PROVE  ThreadsTyped'
BY ProcMoves, JobsTyped DEF Return, Goto, ProcPC

\* A processor that works remembers how its task went.
LEMMA ProcWent ==
    ASSUME ThreadsTyped, NEW p \in Procs, Busy(p), NEW ok \in BOOLEAN, NEW to \in ProcPC,
           Went(p, ok, to), Fits(job[p].req.kind, to)
    PROVE  ThreadsTyped'
<1> DEFINE j == [job[p] EXCEPT !.ok = ok]
<1>1. p \in Threads
  BY DEF Threads
<1>2. IsJob(job[p]) /\ job[p].req \in ServerRequests
  BY <1>1 DEF ThreadsTyped
<1>3. IsJob(j) /\ j.req = job[p].req
  BY <1>2, JobsTyped
<1>4. job' = [job EXCEPT ![p] = j] /\ pc' = [pc EXCEPT ![p] = to]
  BY DEF Went, Goto
<1> HIDE DEF j
<1> QED
  BY <1>2, <1>3, <1>4, ProcMoves

LEMMA PartsKept ==
    /\ LayoutsTyped /\ UNCHANGED <<layouts, disk>> => LayoutsTyped'
    /\ FlagsTyped /\ UNCHANGED <<pendingRequest, connection, life>> => FlagsTyped'
    /\ QueuesTyped /\ UNCHANGED <<pending, queues>> => QueuesTyped'
    /\ WritesTyped /\ UNCHANGED writing => WritesTyped'
    /\ ThreadsTyped /\ UNCHANGED threads => ThreadsTyped'
    /\ ServerTyped /\ UNCHANGED <<srv, queueReceived, pendingRequest>> => ServerTyped'
BY DEF LayoutsTyped, FlagsTyped, QueuesTyped, WritesTyped, ThreadsTyped, ServerTyped, Busy,
       layouts, connection, life, queues, writing, threads

\* An answer joins the others, or is forgotten.
LEMMA AnswerQueued ==
    ASSUME QueuesTyped, NEW m, AnswersServer(m)
    PROVE  /\ Queued(m) \in Seq(Range(Queued(m)))
           /\ \A n \in Range(Queued(m)) : AnswersServer(n)
<1>1. CASE Connected
  BY <1>1, AppendTyped DEF QueuesTyped, Queued
<1>2. CASE ~ Connected
  BY <1>2 DEF QueuesTyped, Queued
<1> QED
  BY <1>1, <1>2

LEMMA FirstReceived ==
    ASSUME QueuesTyped, NEW kind, Receives(kind)
    PROVE  /\ Head(queueReceived) \in ServerRequests
           /\ Head(queueReceived).kind = kind
           /\ queueReceived' \in Seq(ServerRequests)
BY HeadTailProperties DEF QueuesTyped, Receives

-------------------------------------------------------------------------------
(* The types are kept: connecting and the rest of Update() *)

LEMMA InitTyped == Init => Typed
<1> SUFFICES ASSUME Init
             PROVE  Typed
  OBVIOUS
<1>1. IsDir(<<>>)
  BY DEF IsDir
<1> USE BoundsAssumption
<1>2. LayoutsTyped
  <2>1. /\ layout = 0 /\ nextLayout = 0 /\ dirty \in BOOLEAN
        /\ content = [a \in Attempts |-> <<>>]
        /\ disk \in Disks
    BY Zenon DEF Init, None
  <2> QED
    BY <1>1, <2>1, DirsAssumption DEF LayoutsTyped
<1>3. FlagsTyped
  <2>1. /\ pendingRequest \in BOOLEAN /\ running \in BOOLEAN /\ exit \in BOOLEAN
        /\ conn = "disconnected" /\ connects = 0
    BY Zenon DEF Init
  <2> QED
    BY <2>1 DEF FlagsTyped
<1>4. QueuesTyped
  BY DEF Init, QueuesTyped, Range
<1>5. WritesTyped
  BY DEF Init, WritesTyped
<1>6. ThreadsTyped
  BY JobsTyped, ThreadsAssumption
     DEF Init, ThreadsTyped, Threads, MainPC, ProcPC, Busy
<1>7. ServerTyped
  BY <1>1, BoundsAssumption DEF Init, ServerTyped, NewServer, None
<1> QED
  BY <1>2, <1>3, <1>4, <1>5, <1>6, <1>7 DEF Typed

LEMMA BetweenUpdatesTyped ==
    ASSUME Typed, ConnectTo \/ Disconnect \/ ConnectionClosed
    PROVE  Typed'
<1>1. /\ LayoutsTyped' /\ QueuesTyped' /\ WritesTyped'
  BY PartsKept DEF Typed, ConnectTo, Disconnect, ConnectionClosed, Close
<1>2. CASE ConnectTo
  <2>1. FlagsTyped'
    <3>1. running' \in BOOLEAN /\ exit' \in BOOLEAN
      BY <1>2, Zenon DEF Typed, FlagsTyped, ConnectTo
    <3>2. connects' \in 0 .. MaxConnects
      BY <1>2, BoundsAssumption DEF Typed, FlagsTyped, ConnectTo
    <3> QED
      BY <1>2, <3>1, <3>2 DEF Typed, FlagsTyped, ConnectTo
  <2>2. ServerTyped'
    BY <1>2, PartsKept DEF Typed, ConnectTo, queues
  <2>3. ThreadsTyped'
    BY <1>2, ThreadsAssumption
       DEF Typed, ThreadsTyped, ConnectTo, Threads, MainPC, ProcPC, Busy
  <2> QED
    BY <1>1, <2>1, <2>2, <2>3 DEF Typed
<1>3. CASE Disconnect \/ ConnectionClosed
  <2>1. Close
    BY <1>3 DEF Disconnect, ConnectionClosed
  <2>2. FlagsTyped'
    BY <2>1 DEF Typed, FlagsTyped, Close, life
  <2>3. ThreadsTyped'
    BY <2>1, PartsKept DEF Typed, Close
  <2>4. ServerTyped'
    <3>1. IsDir(<<>>)
      BY DEF IsDir
    <3> QED
      BY <2>1, <3>1 DEF Typed, ServerTyped, Close, NewServer, queues
  <2> QED
    BY <1>1, <2>2, <2>3, <2>4 DEF Typed
<1> QED
  BY <1>2, <1>3

LEMMA UpdateLayoutChangedTyped ==
    ASSUME Typed, UpdateLayoutChanged
    PROVE  Typed'
<1>1. /\ FlagsTyped' /\ QueuesTyped' /\ WritesTyped' /\ ServerTyped'
  BY PartsKept DEF Typed, UpdateLayoutChanged, queues
<1>2. ThreadsTyped'
  BY MainContinues DEF Typed, UpdateLayoutChanged, MainPC
<1>3. /\ nextLayout' \in 0 .. MaxAttempts /\ layout' \in 0 .. MaxAttempts
      /\ dirty' \in BOOLEAN
      /\ UNCHANGED <<content, disk>>
  BY BoundsAssumption DEF Typed, LayoutsTyped, UpdateLayoutChanged, None
<1> QED
  BY <1>1, <1>2, <1>3 DEF Typed, LayoutsTyped

LEMMA OnFileLayoutChangedTyped ==
    ASSUME Typed, OnFileLayoutChanged
    PROVE  Typed'
<1>1. /\ LayoutsTyped' /\ WritesTyped'
  BY PartsKept DEF Typed, OnFileLayoutChanged
<1>2. ThreadsTyped'
  BY MainContinues DEF Typed, OnFileLayoutChanged, MainPC
<1>3. FlagsTyped' /\ ServerTyped'
  BY DEF Typed, FlagsTyped, ServerTyped, OnFileLayoutChanged, connection, life
<1>4. pendingRequest => LayoutRequest(srv.attempt) \in ServerRequests
  <2>1. pendingRequest => srv.attempt \in Attempts
    BY BoundsAssumption DEF Typed, ServerTyped, None, Attempts
  <2> QED
    BY <2>1, RequestsOfServer
<1>5. QueuesTyped'
  <2>1. CASE pendingRequest /\ layout # None
    <3>1. AnswersServer(Answer(LayoutRequest(srv.attempt), TRUE, content[layout]))
      <4>1. layout \in Attempts
        BY <2>1, BoundsAssumption DEF Typed, LayoutsTyped, None, Attempts
      <4> QED
        BY <2>1, <4>1, <1>4
           DEF Typed, LayoutsTyped, AnswersServer, IsAnswer, Answer, ServerRequests, LayoutRequest, Request
    <3> QED
      BY <2>1, <3>1, AnswerQueued DEF Typed, QueuesTyped, OnFileLayoutChanged
  <2>2. CASE pendingRequest /\ layout = None
    BY <2>2, <1>4, AppendProperties DEF Typed, QueuesTyped, OnFileLayoutChanged
  <2>3. CASE ~ pendingRequest
    BY <2>3, PartsKept DEF Typed, OnFileLayoutChanged, queues
  <2> QED
    BY <2>1, <2>2, <2>3
<1> QED
  BY <1>1, <1>2, <1>3, <1>5 DEF Typed

LEMMA AnswerReceivedTyped ==
    ASSUME ServerTyped, NEW m, IsAnswer(m), srv' = AnswerReceived(m),
           UNCHANGED <<queueReceived, pendingRequest>>
    PROVE  ServerTyped'
<1> DEFINE matching == {r \in srv.open : /\ r.kind = m.req.kind
                                         /\ r.path = m.req.path
                                         /\ r.index = m.req.index}
<1>1. CASE matching = {}
  BY <1>1 DEF ServerTyped, AnswerReceived
<1>2. CASE matching # {}
  <2>1. srv' = [srv EXCEPT
                  !.open = @ \ matching,
                  !.state = IF m.ok \/ m.req.kind = "hashes" THEN @ ELSE "failed",
                  !.layout = IF m.req.kind = "layout" THEN m.body ELSE @,
                  !.hashes = IF m.req.kind = "hashes" THEN With(@, m.req.path, m.body)
                                                      ELSE @]
    BY <1>2, Zenon DEF AnswerReceived
  <2>2. /\ DOMAIN srv' = DOMAIN srv
        /\ srv'.attempt = srv.attempt
        /\ srv'.sent = srv.sent
        /\ srv'.open \subseteq srv.open
        /\ srv'.layout = (IF m.req.kind = "layout" THEN m.body ELSE srv.layout)
        /\ srv'.state \in {srv.state, "failed"}
    <3>1. DOMAIN srv = {"attempt", "state", "layout", "hashes", "sent", "open"}
      BY DEF ServerTyped, NewServer
    <3> HIDE DEF matching
    <3> QED
      BY <2>1, <3>1
  <2>3. IsDir(srv'.layout)
    BY <2>2 DEF ServerTyped, IsAnswer
  <2> QED
    BY <2>2, <2>3 DEF ServerTyped
<1> QED
  BY <1>1, <1>2

LEMMA SendQueuedMessagesTyped ==
    ASSUME Typed, SendQueuedMessages
    PROVE  Typed'
<1>1. /\ LayoutsTyped' /\ FlagsTyped' /\ WritesTyped'
  BY PartsKept DEF Typed, SendQueuedMessages
<1>2. CASE queueSend = <<>>
  <2>1. ThreadsTyped'
    BY <1>2, MainContinues DEF Typed, SendQueuedMessages, MainPC
  <2>2. QueuesTyped' /\ ServerTyped'
    BY <1>2, PartsKept DEF Typed, SendQueuedMessages, queues
  <2> QED
    BY <1>1, <2>1, <2>2 DEF Typed
<1>3. CASE queueSend # <<>>
  <2>1. /\ AnswersServer(Head(queueSend))
        /\ Tail(queueSend) \in Seq(Range(Tail(queueSend)))
        /\ \A m \in Range(Tail(queueSend)) : AnswersServer(m)
    BY <1>3, TailTyped DEF Typed, QueuesTyped
  <2>2. QueuesTyped'
    BY <1>3, <2>1 DEF Typed, QueuesTyped, SendQueuedMessages
  <2>3. CASE Connected
    <3>1. ServerTyped'
      BY <1>3, <2>1, <2>3, AnswerReceivedTyped DEF Typed, SendQueuedMessages, AnswersServer
    <3>2. ThreadsTyped'
      BY <1>3, <2>3, PartsKept DEF Typed, SendQueuedMessages
    <3> QED
      BY <1>1, <2>2, <3>1, <3>2 DEF Typed
  <2>4. CASE ~ Connected
    <3>1. ServerTyped'
      BY <1>3, <2>4, PartsKept DEF Typed, SendQueuedMessages
    <3>2. ThreadsTyped'
      BY <1>3, <2>4, MainContinues DEF Typed, SendQueuedMessages, MainPC
    <3> QED
      BY <1>1, <2>2, <3>1, <3>2 DEF Typed
  <2> QED
    BY <2>3, <2>4
<1> QED
  BY <1>2, <1>3

-------------------------------------------------------------------------------
(* The types are kept: messages received *)

LEMMA ProcessRequestLayoutTyped ==
    ASSUME Typed, ProcessRequestLayout
    PROVE  Typed'
<1> DEFINE r == Head(queueReceived)
<1>1. /\ LayoutsTyped' /\ WritesTyped' /\ ThreadsTyped'
  BY PartsKept DEF Typed, ProcessRequestLayout
<1>2. /\ r \in ServerRequests /\ r.kind = "layout"
      /\ queueReceived' \in Seq(ServerRequests)
      /\ queueReceived # <<>>
  BY FirstReceived DEF Typed, ProcessRequestLayout, Receives
<1>3. FlagsTyped'
  <2>1. pendingRequest' \in BOOLEAN
    BY Zenon DEF ProcessRequestLayout
  <2> QED
    BY <2>1 DEF Typed, FlagsTyped, ProcessRequestLayout, connection, life
<1>4. ServerTyped'
  BY <1>2 DEF Typed, ServerTyped, ProcessRequestLayout, Receives
<1>5. QueuesTyped'
  <2>1. CASE layout # None
    <3>1. layout \in Attempts
      BY <2>1, BoundsAssumption DEF Typed, LayoutsTyped, None, Attempts
    <3>2. AnswersServer(Answer(r, TRUE, content[layout]))
      BY <1>2, <3>1 DEF Typed, LayoutsTyped, AnswersServer, IsAnswer, Answer, ServerRequests
    <3> QED
      BY <1>2, <2>1, <3>2, AnswerQueued DEF Typed, QueuesTyped, ProcessRequestLayout
  <2>2. CASE layout = None
    <3>1. pending' \in Seq(ServerRequests)
      <4>1. pending' = pending \/ pending' = Append(pending, r)
        BY <2>2, Zenon DEF ProcessRequestLayout
      <4>2. Append(pending, r) \in Seq(ServerRequests)
        BY <1>2, AppendProperties DEF Typed, QueuesTyped
      <4> QED
        BY <4>1, <4>2 DEF Typed, QueuesTyped
    <3> QED
      BY <1>2, <2>2, <3>1 DEF Typed, QueuesTyped, ProcessRequestLayout
  <2> QED
    BY <2>1, <2>2
<1> QED
  BY <1>1, <1>3, <1>4, <1>5 DEF Typed

LEMMA ProcessRequestFileBlockHashesTyped ==
    ASSUME Typed, ProcessRequestFileBlockHashes
    PROVE  Typed'
<1> DEFINE r == Head(queueReceived)
<1>1. /\ LayoutsTyped' /\ WritesTyped' /\ FlagsTyped'
  BY PartsKept DEF Typed, ProcessRequestFileBlockHashes
<1>2. /\ r \in ServerRequests /\ r.kind = "hashes"
      /\ queueReceived' \in Seq(ServerRequests)
      /\ queueReceived # <<>>
  BY FirstReceived DEF Typed, ProcessRequestFileBlockHashes, Receives
<1>3. ServerTyped'
  BY <1>2 DEF Typed, ServerTyped, ProcessRequestFileBlockHashes, Receives
<1>4. CASE layout # None /\ r.path \in DOMAIN content[layout]
  <2> DEFINE j == [JobOf(r) EXCEPT !.layout = layout, !.body = content[layout][r.path]]
  <2>1. layout \in Attempts
    BY <1>4, BoundsAssumption DEF Typed, LayoutsTyped, None, Attempts
  <2>2. content[layout][r.path] \in Seq(Blocks)
    BY <2>1, <1>4, DirsKept DEF Typed, LayoutsTyped
  <2>3. IsJob(j) /\ j.req = r
    BY <1>2, <2>1, <2>2, JobsTyped DEF Typed, LayoutsTyped, IsJob, NoJob
  <2>4. pc' = [pc EXCEPT ![Main] = "recut"] /\ job' = [job EXCEPT ![Main] = j]
    BY <1>4 DEF ProcessRequestFileBlockHashes, Goto
  <2>5. ThreadsTyped'
    <3> HIDE DEF j
    <3> QED
      BY <1>2, <2>3, <2>4, MainMoves DEF Typed, MainPC
  <2>6. QueuesTyped'
    BY <1>2, <1>4 DEF Typed, QueuesTyped, ProcessRequestFileBlockHashes
  <2> QED
    BY <1>1, <1>3, <2>5, <2>6 DEF Typed
<1>5. CASE ~ (layout # None /\ r.path \in DOMAIN content[layout])
  <2>1. AnswersServer(Answer(r, FALSE, <<>>))
    BY <1>2 DEF AnswersServer, IsAnswer, Answer, ServerRequests
  <2>2. QueuesTyped'
    BY <1>2, <1>5, <2>1, AnswerQueued DEF Typed, QueuesTyped, ProcessRequestFileBlockHashes
  <2>3. ThreadsTyped'
    BY <1>5, PartsKept DEF Typed, ProcessRequestFileBlockHashes
  <2> QED
    BY <1>1, <1>3, <2>2, <2>3 DEF Typed
<1> QED
  BY <1>4, <1>5

LEMMA HashesTaskQueuedTyped ==
    ASSUME Typed, PutFileWithoutBlocks \/ AddPendingTask
    PROVE  Typed'
<1> DEFINE j == job[Main]
<1>1. Main \in Threads /\ j.req \in ServerRequests /\ IsJob(j)
  BY DEF Typed, ThreadsTyped, Threads, PutFileWithoutBlocks, AddPendingTask
<1>2. /\ FlagsTyped' /\ WritesTyped' /\ ServerTyped'
  BY PartsKept DEF Typed, PutFileWithoutBlocks, AddPendingTask, queues
<1>3. CASE PutFileWithoutBlocks
  <2>1. QueuesTyped'
    BY <1>3, PartsKept DEF Typed, PutFileWithoutBlocks
  <2>2. ThreadsTyped'
    BY <1>1, <1>3, MainContinues DEF Typed, PutFileWithoutBlocks, MainPC
  <2>3. j.req.path \in Paths
    BY <1>1, <1>3, RequestFields DEF Typed, ThreadsTyped, PutFileWithoutBlocks, Kinds
  <2>4. LayoutsTyped'
    <3>1. \A a \in Attempts : IsDir(With(content[a], j.req.path, j.body))
      BY <1>1, <2>3, DirsKept DEF Typed, LayoutsTyped, IsJob
    <3> QED
      BY <1>3, <3>1 DEF Typed, LayoutsTyped, PutFileWithoutBlocks
  <2> QED
    BY <1>2, <2>1, <2>2, <2>4 DEF Typed
<1>4. CASE AddPendingTask
  <2>1. LayoutsTyped'
    BY <1>4, PartsKept DEF Typed, AddPendingTask
  <2>2. pending' \in Seq(ServerRequests)
    BY <1>1, <1>4, AppendProperties DEF Typed, QueuesTyped, AddPendingTask
  <2>3. QueuesTyped'
    BY <1>4, <2>2 DEF Typed, QueuesTyped, AddPendingTask, queues
  <2>4. ThreadsTyped'
    BY <1>4, MainMoves, JobsTyped DEF Typed, AddPendingTask, Goto, MainPC
  <2> QED
    BY <1>2, <2>1, <2>3, <2>4 DEF Typed
<1> QED
  BY <1>3, <1>4

LEMMA ProcessRequestDeleteFileTyped ==
    ASSUME Typed, ProcessRequestDeleteFile
    PROVE  Typed'
<1>1. /\ LayoutsTyped' /\ WritesTyped' /\ FlagsTyped' /\ ThreadsTyped'
  BY PartsKept DEF Typed, ProcessRequestDeleteFile
<1>2. /\ Head(queueReceived) \in ServerRequests
      /\ queueReceived' \in Seq(ServerRequests)
      /\ queueReceived # <<>>
  BY FirstReceived DEF Typed, ProcessRequestDeleteFile, Receives
<1>3. ServerTyped'
  BY <1>2 DEF Typed, ServerTyped, ProcessRequestDeleteFile
<1>4. pending' \in Seq(ServerRequests)
  BY <1>2, AppendProperties DEF Typed, QueuesTyped, ProcessRequestDeleteFile
<1>5. QueuesTyped'
  BY <1>2, <1>4 DEF Typed, QueuesTyped, ProcessRequestDeleteFile
<1> QED
  BY <1>1, <1>3, <1>5 DEF Typed

\* The status of a file task is set.
LEMMA StatusSet ==
    ASSUME WritesTyped, NEW w,
           NEW status \in {"none", "pending", "processing", "finishing", "success",
                           "failure", "validationFailed"},
           fileWrite' = [fileWrite EXCEPT ![w].status = status],
           writeTasks' = writeTasks
    PROVE  WritesTyped'
BY DEF WritesTyped

LEMMA ProcessRequestWriteFileTyped ==
    ASSUME Typed, ProcessRequestWriteFile
    PROVE  Typed'
<1> DEFINE r == Head(queueReceived)
           file == [status |-> "pending", truncate |-> Truncates(r)]
<1>1. /\ r \in ServerRequests /\ r.kind = "write"
      /\ queueReceived' \in Seq(ServerRequests)
      /\ queueReceived # <<>>
  BY FirstReceived DEF Typed, ProcessRequestWriteFile, Receives
<1>2. ServerTyped' /\ FlagsTyped'
  BY <1>1, PartsKept DEF Typed, ServerTyped, ProcessRequestWriteFile
<1>3. LayoutsTyped'
  <2>1. dirty' \in BOOLEAN
    BY Zenon DEF Typed, LayoutsTyped, ProcessRequestWriteFile
  <2> QED
    BY <2>1 DEF Typed, LayoutsTyped, ProcessRequestWriteFile
<1>4. CASE layout = None
  <2>1. AnswersServer(Answer(r, FALSE, <<>>))
    BY <1>1 DEF AnswersServer, IsAnswer, Answer, ServerRequests
  <2>2. QueuesTyped'
    BY <1>1, <1>4, <2>1, AnswerQueued DEF Typed, QueuesTyped, ProcessRequestWriteFile
  <2>3. ThreadsTyped' /\ WritesTyped'
    BY <1>4, PartsKept DEF Typed, ProcessRequestWriteFile
  <2> QED
    BY <1>2, <1>3, <2>2, <2>3 DEF Typed
<1>5. CASE layout # None
  <2>1. r.at \in Attempts /\ r.path \in Paths /\ r.path \in DOMAIN ServerDirs[r.at]
    BY <1>1, RequestFields, ServerFiles DEF HasFile, Kinds
  <2>2. QueuesTyped'
    BY <1>1, <1>5 DEF Typed, QueuesTyped, ProcessRequestWriteFile
  <2>3. ThreadsTyped'
    <3>1. pc' = [pc EXCEPT ![Main] = "push"] /\ job' = [job EXCEPT ![Main] = JobOf(r)]
      BY <1>5 DEF ProcessRequestWriteFile, Goto
    <3>2. PICK j : j = JobOf(r)
      OBVIOUS
    <3>3. IsJob(j) /\ j.req \in ServerRequests
      BY <1>1, <3>2, JobsTyped
    <3>4. ThreadsTyped /\ "push" \in MainPC
      BY DEF Typed, MainPC
    <3> QED
      BY <3>1, <3>2, <3>3, <3>4, MainMoves
  <2>4. WritesTyped'
    <3>1. Truncates(r) \in BOOLEAN
      BY DEF Truncates
    <3>2. fileWrite' = [fileWrite EXCEPT ![<<r.at, r.path>>] = file]
      BY <1>5 DEF ProcessRequestWriteFile
    <3>3. writeTasks' = With(writeTasks, r.path, r.at)
      BY <1>5 DEF ProcessRequestWriteFile
    <3>4. file \in [status : {"none", "pending", "processing", "finishing", "success",
                              "failure", "validationFailed"},
                    truncate : BOOLEAN]
      BY <3>1
    <3> HIDE DEF r, file
    <3>5. fileWrite' \in [Attempts \X Paths ->
             [status : {"none", "pending", "processing", "finishing", "success",
                        "failure", "validationFailed"},
              truncate : BOOLEAN]]
      BY <3>2, <3>4 DEF Typed, WritesTyped
    <3>6. /\ writeTasks' \in [DOMAIN writeTasks' -> Attempts]
          /\ \A p \in DOMAIN writeTasks' :
                p \in Paths /\ p \in DOMAIN ServerDirs[writeTasks'[p]]
      BY <2>1, <3>3 DEF Typed, WritesTyped, With
    <3> QED
      BY <3>5, <3>6 DEF WritesTyped
  <2> QED
    BY <1>2, <1>3, <2>2, <2>3, <2>4 DEF Typed
<1> QED
  BY <1>4, <1>5

LEMMA ProcessSendFileDataTyped ==
    ASSUME Typed, ProcessSendFileData
    PROVE  Typed'
<1> DEFINE r == Head(queueReceived)
           a == writeTasks[r.path]
           size == SizeToWrite([r EXCEPT !.at = a])
<1>1. /\ LayoutsTyped' /\ FlagsTyped' /\ ThreadsTyped'
  BY PartsKept DEF Typed, ProcessSendFileData
<1>2. /\ r \in ServerRequests /\ r.kind = "data"
      /\ queueReceived' \in Seq(ServerRequests)
      /\ queueReceived # <<>>
  BY FirstReceived DEF Typed, ProcessSendFileData, Receives
<1>3. ServerTyped'
  BY <1>2 DEF Typed, ServerTyped, ProcessSendFileData
<1>4. CASE r.path \notin DOMAIN writeTasks
  BY <1>1, <1>2, <1>3, <1>4, PartsKept
     DEF Typed, QueuesTyped, ProcessSendFileData, writing
<1>5. CASE r.path \in DOMAIN writeTasks /\ r.index > 1 /\ r.index > size
  <2>1. WritesTyped'
    BY <1>5, StatusSet DEF Typed, ProcessSendFileData
  <2> QED
    BY <1>1, <1>2, <1>3, <1>5, <2>1 DEF Typed, QueuesTyped, ProcessSendFileData
<1>6. CASE r.path \in DOMAIN writeTasks /\ ~ (r.index > 1 /\ r.index > size)
  <2>1. BlockTask(r, a) \in ServerRequests
    <3>1. a \in Attempts /\ r.path \in DOMAIN ServerDirs[a]
      BY <1>6 DEF Typed, WritesTyped
    <3>2. r.index \in BlocksOf(ServerDirs[a][r.path])
      BY <1>2, <1>6, <3>1, BlockInside
    <3> QED
      BY <1>2, <3>1, <3>2, AttemptReplaced DEF BlockTask
  <2>2. pending' = Append(pending, BlockTask(r, a)) /\ UNCHANGED writing
    BY <1>6 DEF ProcessSendFileData, writing
  <2>3. WritesTyped'
    BY <2>2, PartsKept DEF Typed
  <2>4. pending' \in Seq(ServerRequests)
    BY <2>1, <2>2, AppendProperties DEF Typed, QueuesTyped
  <2>5. QueuesTyped'
    BY <1>2, <2>4 DEF Typed, QueuesTyped, ProcessSendFileData
  <2> QED
    BY <1>1, <1>3, <2>3, <2>5 DEF Typed
<1> QED
  BY <1>4, <1>5, <1>6

LEMMA ProcessRequestFinishWriteFileTyped ==
    ASSUME Typed, ProcessRequestFinishWriteFile
    PROVE  Typed'
<1> DEFINE r == Head(queueReceived)
           a == writeTasks[r.path]
<1>1. /\ LayoutsTyped' /\ FlagsTyped' /\ ThreadsTyped'
  BY PartsKept DEF Typed, ProcessRequestFinishWriteFile
<1>2. /\ r \in ServerRequests /\ r.kind = "finish"
      /\ queueReceived' \in Seq(ServerRequests)
      /\ queueReceived # <<>>
  BY FirstReceived DEF Typed, ProcessRequestFinishWriteFile, Receives
<1>3. ServerTyped'
  BY <1>2 DEF Typed, ServerTyped, ProcessRequestFinishWriteFile
<1>4. CASE r.path \in DOMAIN writeTasks /\ fileWrite[a, r.path].status = "processing"
  <2>1. /\ fileWrite' = [fileWrite EXCEPT ![<<a, r.path>>].status = "finishing"]
        /\ pending' = Append(pending, [r EXCEPT !.at = a])
        /\ writeTasks' = Without(writeTasks, r.path)
    BY <1>4 DEF ProcessRequestFinishWriteFile
  <2>2. a \in Attempts /\ r.path \in DOMAIN ServerDirs[a]
    BY <1>4 DEF Typed, WritesTyped
  <2>3. [r EXCEPT !.at = a] \in ServerRequests
    BY <1>2, <2>2, AttemptReplaced
  <2>4. pending' \in Seq(ServerRequests)
    BY <2>1, <2>3, AppendProperties DEF Typed, QueuesTyped
  <2>5. QueuesTyped'
    BY <1>2, <2>4 DEF Typed, QueuesTyped, ProcessRequestFinishWriteFile
  <2>6. WritesTyped'
    <3> HIDE DEF r, a
    <3>1. fileWrite' \in [Attempts \X Paths ->
             [status : {"none", "pending", "processing", "finishing", "success",
                        "failure", "validationFailed"},
              truncate : BOOLEAN]]
      BY <2>1 DEF Typed, WritesTyped
    <3>2. /\ writeTasks' \in [DOMAIN writeTasks' -> Attempts]
          /\ \A p \in DOMAIN writeTasks' :
                p \in Paths /\ p \in DOMAIN ServerDirs[writeTasks'[p]]
      BY <2>1 DEF Typed, WritesTyped, Without, Restrict
    <3> QED
      BY <3>1, <3>2 DEF WritesTyped
  <2> QED
    BY <1>1, <1>3, <2>5, <2>6 DEF Typed
<1>5. CASE ~ (r.path \in DOMAIN writeTasks /\ fileWrite[a, r.path].status = "processing")
  BY <1>1, <1>2, <1>3, <1>5, PartsKept
     DEF Typed, QueuesTyped, ProcessRequestFinishWriteFile
<1> QED
  BY <1>4, <1>5

-------------------------------------------------------------------------------
(* The types are kept: the network and the end of Update() *)

LEMMA UpdateEndsTyped ==
    ASSUME Typed, NothingReceived \/ StopTaskProcessors \/ JoinTaskProcessors
    PROVE  Typed'
<1>1. /\ LayoutsTyped' /\ QueuesTyped' /\ WritesTyped' /\ ServerTyped'
  BY PartsKept
     DEF Typed, NothingReceived, StopTaskProcessors, JoinTaskProcessors, queues
<1>2. ThreadsTyped'
  <2>1. MainGoto("net") \/ MainGoto("join") \/ MainGoto("layout")
    BY DEF NothingReceived, StopTaskProcessors, JoinTaskProcessors
  <2> QED
    BY <2>1, MainContinues DEF Typed, MainPC
<1>3. FlagsTyped'
  <2>1. running' \in BOOLEAN /\ exit' \in BOOLEAN
    <3>1. CASE NothingReceived
      BY <3>1, Zenon DEF Typed, FlagsTyped, NothingReceived, life
    <3>2. CASE StopTaskProcessors
      BY <3>2, Zenon DEF Typed, FlagsTyped, StopTaskProcessors
    <3>3. CASE JoinTaskProcessors
      BY <3>3, Zenon DEF Typed, FlagsTyped, JoinTaskProcessors
    <3> QED
      BY <3>1, <3>2, <3>3
  <2> QED
    BY <2>1
       DEF Typed, FlagsTyped, NothingReceived, StopTaskProcessors, JoinTaskProcessors,
           connection
<1> QED
  BY <1>1, <1>2, <1>3 DEF Typed

LEMMA ConnectingTyped ==
    ASSUME Typed, ConnectionEstablished \/ MessageReceivedConnect
    PROVE  Typed'
<1>1. /\ LayoutsTyped' /\ QueuesTyped' /\ WritesTyped' /\ ServerTyped' /\ ThreadsTyped'
  BY PartsKept DEF Typed, ConnectionEstablished, MessageReceivedConnect, queues
<1>2. FlagsTyped'
  BY DEF Typed, FlagsTyped, ConnectionEstablished, MessageReceivedConnect, life
<1> QED
  BY <1>1, <1>2 DEF Typed

\* The server asks only for what it has, or for what the launcher has told it of.
LEMMA WantedAreRequests ==
    ASSUME ServerTyped, srv.attempt # None
    PROVE  WantedRequests \subseteq ServerRequests
<1>1. srv.attempt \in Attempts
  BY BoundsAssumption DEF ServerTyped, Attempts, None
<1>2. /\ DOMAIN SyncedDir \subseteq Paths
      /\ \A p \in DOMAIN SyncedDir :
            BlocksOf(SyncedDir[p]) \subseteq Indices
  BY <1>1, ServerFiles DEF SyncedDir
<1>3. /\ HashPaths \subseteq Paths
      /\ WritePaths \subseteq DOMAIN SyncedDir
      /\ DeletePaths \subseteq Paths
  BY <1>2 DEF HashPaths, WritePaths, DeletePaths, ServerTyped, IsDir
<1>4. HashRequests \subseteq ServerRequests
  BY <1>1, <1>3, RequestsOfServer DEF HashRequests, Ask
<1>5. {Ask("delete", p, 0) : p \in DeletePaths} \subseteq ServerRequests
  BY <1>1, <1>3, RequestsOfServer DEF Ask
<1>6. ASSUME NEW p \in WritePaths
      PROVE  FileRequests(p) \subseteq ServerRequests
  <2>1. p \in DOMAIN ServerDirs[srv.attempt]
    BY <1>3 DEF SyncedDir
  <2>2. 0 \in Indices
    BY DEF Indices
  <2>3. DataRequests(p) \subseteq ServerRequests
    <3>1. WriteBlocks(p) \subseteq BlocksOf(ServerDirs[srv.attempt][p])
      BY DEF WriteBlocks, SyncedDir
    <3> QED
      BY <1>1, <2>1, <3>1, RequestsOfServer DEF DataRequests, Ask
  <2>4. Ask("write", p, 0) \in ServerRequests /\ Ask("finish", p, 0) \in ServerRequests
    BY <1>1, <2>1, <2>2, RequestsOfServer DEF Ask
  <2> QED
    BY <2>3, <2>4 DEF FileRequests
<1> QED
  BY <1>4, <1>5, <1>6 DEF WantedRequests

LEMMA MessageReceivedTyped ==
    ASSUME Typed, MessageReceived
    PROVE  Typed'
<1>1. /\ LayoutsTyped' /\ FlagsTyped' /\ WritesTyped' /\ ThreadsTyped'
  BY PartsKept DEF Typed, MessageReceived
<1>2. CASE BeginAttempt
  <2> DEFINE a == srv.attempt + 1
             r == LayoutRequest(a)
  <2>1. /\ srv.attempt < MaxAttempts
        /\ srv' = [NewServer(a) EXCEPT !.state = "work", !.sent = {r}, !.open = {r}]
        /\ queueReceived' = Append(queueReceived, r)
    BY <1>2 DEF BeginAttempt
  <2>2. a \in Attempts /\ a # None
    BY <2>1, BoundsAssumption DEF Typed, ServerTyped, Attempts, None
  <2>3. r \in ServerRequests
    BY <2>2, RequestsOfServer
  <2>4. QueuesTyped'
    <3>1. queueReceived' \in Seq(ServerRequests)
      BY <2>1, <2>3, AppendProperties DEF Typed, QueuesTyped
    <3> QED
      BY <3>1 DEF Typed, QueuesTyped, MessageReceived
  <2>5. ServerTyped'
    <3>1. IsDir(<<>>)
      BY DEF IsDir
    <3>2. /\ DOMAIN srv' = DOMAIN NewServer(0)
          /\ srv'.attempt = a
          /\ srv'.sent = {r} /\ srv'.open = {r}
          /\ srv'.layout = <<>>
      BY <2>1 DEF NewServer
    <3> QED
      BY <2>2, <2>3, <3>1, <3>2 DEF ServerTyped, Attempts
  <2> QED
    BY <1>1, <2>4, <2>5 DEF Typed
<1>3. CASE SendRequest
  <2>1. PICK r \in WantedRequests \ srv.sent :
          /\ srv' = [srv EXCEPT !.sent = @ \cup {r}, !.open = @ \cup {r}]
          /\ queueReceived' = Append(queueReceived, r)
    BY <1>3 DEF SendRequest
  <2>2. srv.attempt # None /\ srv.state = "work"
    BY <1>3 DEF Typed, ServerTyped, SendRequest
  <2>3. r \in ServerRequests
    BY <2>2, WantedAreRequests DEF Typed
  <2>4. QueuesTyped'
    <3>1. queueReceived' \in Seq(ServerRequests)
      BY <2>1, <2>3, AppendProperties DEF Typed, QueuesTyped
    <3> QED
      BY <3>1 DEF Typed, QueuesTyped, MessageReceived
  <2>5. ServerTyped'
    <3>1. DOMAIN srv = {"attempt", "state", "layout", "hashes", "sent", "open"}
      BY DEF Typed, ServerTyped, NewServer
    <3>2. /\ DOMAIN srv' = DOMAIN srv
          /\ srv'.attempt = srv.attempt
          /\ srv'.sent = srv.sent \cup {r} /\ srv'.open = srv.open \cup {r}
          /\ srv'.layout = srv.layout
      BY <2>1, <3>1
    <3> QED
      BY <2>2, <2>3, <3>2 DEF Typed, ServerTyped
  <2> QED
    BY <1>1, <2>4, <2>5 DEF Typed
<1> QED
  BY <1>2, <1>3 DEF MessageReceived

-------------------------------------------------------------------------------
(* The types are kept: the processors *)

LEMMA BusyProc ==
    ASSUME ThreadsTyped, NEW p \in Procs, Busy(p)
    PROVE  /\ p \in Threads /\ p # Main
           /\ IsJob(job[p]) /\ job[p].req \in ServerRequests
           /\ Fits(job[p].req.kind, pc[p])
BY ThreadsAssumption DEF ThreadsTyped, Threads

LEMMA TakeTaskTyped ==
    ASSUME Typed, NEW p \in Procs, TakeTask(p)
    PROVE  Typed'
<1>1. /\ LayoutsTyped' /\ FlagsTyped' /\ WritesTyped' /\ ServerTyped'
  BY PartsKept DEF Typed, TakeTask, queues
<1>2. PICK i \in DOMAIN pending :
         /\ pending' = Erased(i)
         /\ pc' = [pc EXCEPT ![p] = pending[i].kind]
         /\ job' = [job EXCEPT ![p] = JobOf(pending[i])]
  BY Zenon DEF TakeTask, Goto
<1> DEFINE r == pending[i]
<1>3. r \in ServerRequests /\ Erased(i) \in Seq(ServerRequests)
  BY EraseFromSequence DEF Typed, QueuesTyped, Erased, RemoveAt
<1>4. QueuesTyped'
  BY <1>2, <1>3 DEF Typed, QueuesTyped, TakeTask, queues
<1>5. ThreadsTyped'
  <2>1. r.kind \in Kinds \cup {"layout"}
    BY <1>3, RequestFields
  <2>2. r.kind \in ProcPC /\ Fits(r.kind, r.kind)
    BY <2>1 DEF Kinds, ProcPC, Fits
  <2>3. IsJob(JobOf(r)) /\ JobOf(r).req = r
    BY <1>3, JobsTyped
  <2> HIDE DEF r
  <2> QED
    BY <1>2, <1>3, <2>2, <2>3, ProcMoves DEF Typed, r
<1> QED
  BY <1>1, <1>4, <1>5 DEF Typed

LEMMA ExitRunTyped ==
    ASSUME Typed, NEW p \in Procs, ExitRun(p)
    PROVE  Typed'
<1>1. /\ LayoutsTyped' /\ FlagsTyped' /\ QueuesTyped' /\ WritesTyped' /\ ServerTyped'
  BY PartsKept DEF Typed, ExitRun, queues
<1>2. ThreadsTyped'
  BY ProcContinues DEF Typed, ExitRun, ProcPC
<1> QED
  BY <1>1, <1>2 DEF Typed

LEMMA ListFilesTyped ==
    ASSUME Typed, NEW p \in Procs, ListFiles(p)
    PROVE  Typed'
<1>1. /\ FlagsTyped' /\ QueuesTyped' /\ WritesTyped' /\ ServerTyped'
  BY PartsKept DEF Typed, ListFiles, queues
<1>2. /\ p \in Threads /\ IsJob(job[p]) /\ job[p].req \in ServerRequests
      /\ job[p].req.kind = "layout"
  BY BusyProc DEF Typed, ListFiles, Busy, Fits
<1>3. ThreadsTyped'
  <2> DEFINE j == [job[p] EXCEPT !.todo = DOMAIN disk]
  <2>1. IsJob(j) /\ j.req = job[p].req
    BY <1>2, JobsTyped
  <2>2. job' = [job EXCEPT ![p] = j] /\ pc' = [pc EXCEPT ![p] = "hashing"]
    BY DEF ListFiles, Goto
  <2> HIDE DEF j
  <2> QED
    BY <1>2, <2>1, <2>2, ProcMoves DEF Typed, ProcPC, Fits
<1>4. LayoutsTyped'
  <2>1. IsDir(<<>>)
    BY DEF IsDir
  <2> QED
    BY <2>1 DEF Typed, LayoutsTyped, ListFiles
<1> QED
  BY <1>1, <1>3, <1>4 DEF Typed

LEMMA AddFileToLayoutTyped ==
    ASSUME Typed, NEW p \in Procs, AddFileToLayout(p)
    PROVE  Typed'
<1> DEFINE a == job[p].req.at
<1>1. /\ FlagsTyped' /\ QueuesTyped' /\ WritesTyped' /\ ServerTyped'
  BY PartsKept DEF Typed, AddFileToLayout, queues
<1>2. /\ p \in Threads /\ IsJob(job[p]) /\ job[p].req \in ServerRequests
      /\ job[p].req.kind = "layout" /\ Busy(p)
  BY BusyProc DEF Typed, AddFileToLayout, Busy, Fits
<1>3. PICK path \in job[p].todo :
          \/ /\ path \in DOMAIN disk
             /\ content' = [content EXCEPT ![a] = With(@, path, disk[path])]
             /\ job' = [job EXCEPT ![p].todo = @ \ {path}]
             /\ UNCHANGED pc
          \/ Went(p, FALSE, "publish") /\ UNCHANGED content
  BY DEF AddFileToLayout
<1>4. CASE /\ path \in DOMAIN disk
           /\ content' = [content EXCEPT ![a] = With(@, path, disk[path])]
           /\ job' = [job EXCEPT ![p].todo = @ \ {path}]
           /\ UNCHANGED pc
  <2>1. ThreadsTyped'
    <3> DEFINE j == [job[p] EXCEPT !.todo = @ \ {path}]
    <3>1. IsJob(j) /\ j.req = job[p].req
      BY <1>2, JobsTyped
    <3>2. /\ DOMAIN job' = DOMAIN job
          /\ job'[p] = j
          /\ \A t \in Threads \ {p} : job'[t] = job[t]
      BY <1>2, <1>4 DEF Typed, ThreadsTyped
    <3>3. p # Main /\ Main \in Threads /\ Procs \subseteq Threads
      BY ThreadsAssumption DEF Threads
    <3> HIDE DEF j
    <3> QED
      BY <1>2, <1>4, <3>1, <3>2, <3>3 DEF Typed, ThreadsTyped, Busy
  <2>2. LayoutsTyped'
    <3>1. \A b \in Attempts : IsDir(With(content[b], path, disk[path]))
      BY <1>4, DirsKept DEF Typed, LayoutsTyped
    <3> QED
      BY <1>4, <3>1 DEF Typed, LayoutsTyped, AddFileToLayout
  <2> QED
    BY <1>1, <2>1, <2>2 DEF Typed
<1>5. CASE Went(p, FALSE, "publish") /\ UNCHANGED content
  <2>1. ThreadsTyped'
    BY <1>2, <1>5, ProcWent DEF Typed, ProcPC, Fits
  <2>2. LayoutsTyped'
    BY <1>5, PartsKept DEF Typed, AddFileToLayout, layouts
  <2> QED
    BY <1>1, <2>1, <2>2 DEF Typed
<1> QED
  BY <1>3, <1>4, <1>5

LEMMA LayoutPublishedTyped ==
    ASSUME Typed, NEW p \in Procs, LayoutBuilt(p) \/ SetFileLayout(p)
    PROVE  Typed'
<1>1. /\ FlagsTyped' /\ QueuesTyped' /\ WritesTyped' /\ ServerTyped'
  BY PartsKept DEF Typed, LayoutBuilt, SetFileLayout, queues
<1>2. /\ job[p].req \in ServerRequests /\ Busy(p)
      /\ Fits(job[p].req.kind, pc[p])
  BY BusyProc DEF Typed, LayoutBuilt, SetFileLayout, Busy
<1>3. CASE LayoutBuilt(p)
  <2>1. ThreadsTyped'
    BY <1>2, <1>3, ProcWent DEF Typed, LayoutBuilt, ProcPC, Fits
  <2>2. LayoutsTyped'
    BY <1>3, PartsKept DEF Typed, LayoutBuilt
  <2> QED
    BY <1>1, <2>1, <2>2 DEF Typed
<1>4. CASE SetFileLayout(p)
  <2>1. ThreadsTyped'
    BY <1>4, ProcReturns DEF Typed, SetFileLayout
  <2>2. nextLayout' \in 0 .. MaxAttempts
    BY <1>2, <1>4, RequestFields, BoundsAssumption
       DEF SetFileLayout, Published, Attempts, None
  <2> QED
    BY <1>1, <1>4, <2>1, <2>2 DEF Typed, LayoutsTyped, SetFileLayout
<1> QED
  BY <1>3, <1>4

LEMMA AnsweredTyped ==
    ASSUME Typed, NEW p \in Procs, SetDirtyFileLayout(p) \/ SendResponse(p)
    PROVE  Typed'
<1>1. /\ FlagsTyped' /\ WritesTyped' /\ ServerTyped'
  BY PartsKept DEF Typed, SetDirtyFileLayout, SendResponse, queues
<1>2. /\ IsJob(job[p]) /\ job[p].req \in ServerRequests /\ Busy(p)
      /\ job[p].req.kind \in Kinds
  BY BusyProc DEF Typed, SetDirtyFileLayout, SendResponse, Busy, Fits
<1>3. CASE SetDirtyFileLayout(p)
  <2>1. ThreadsTyped'
    BY <1>2, <1>3, ProcContinues DEF Typed, SetDirtyFileLayout, ProcPC, Fits
  <2>2. dirty' \in BOOLEAN
    BY <1>3, Zenon DEF SetDirtyFileLayout
  <2>3. LayoutsTyped'
    BY <1>3, <2>2 DEF Typed, LayoutsTyped, SetDirtyFileLayout
  <2>4. QueuesTyped'
    BY <1>3, PartsKept DEF Typed, SetDirtyFileLayout
  <2> QED
    BY <1>1, <2>1, <2>3, <2>4 DEF Typed
<1>4. CASE SendResponse(p)
  <2>1. ThreadsTyped'
    BY <1>4, ProcReturns DEF Typed, SendResponse
  <2>2. LayoutsTyped'
    BY <1>4, PartsKept DEF Typed, SendResponse
  <2> DEFINE m == Answer(job[p].req, job[p].ok, job[p].body)
  <2>3. AnswersServer(m)
    BY <1>2 DEF AnswersServer, IsAnswer, Answer, IsJob, ServerRequests, Kinds
  <2>4. queueSend' = Queued(m)
    BY <1>4 DEF SendResponse
  <2>5. QueuesTyped'
    <3> HIDE DEF m
    <3> QED
      BY <1>4, <2>3, <2>4, AnswerQueued DEF Typed, QueuesTyped, SendResponse
  <2> QED
    BY <1>1, <2>1, <2>2, <2>5 DEF Typed
<1> QED
  BY <1>3, <1>4

LEMMA BlockHashesTyped ==
    ASSUME Typed, NEW p \in Procs, CalcFileBlockHashes(p) \/ StoreFileBlockHashes(p)
    PROVE  Typed'
<1>1. /\ LayoutsTyped' /\ FlagsTyped' /\ QueuesTyped' /\ WritesTyped' /\ ServerTyped'
  BY PartsKept DEF Typed, CalcFileBlockHashes, StoreFileBlockHashes, queues
<1>2. /\ IsJob(job[p]) /\ job[p].req \in ServerRequests /\ Busy(p)
      /\ job[p].req.kind = "hashes"
  BY BusyProc DEF Typed, CalcFileBlockHashes, StoreFileBlockHashes, Busy, Fits
<1>3. Fits("hashes", "answer") /\ Fits("hashes", "store")
  BY DEF Fits, Kinds
<1>4. CASE Went(p, FALSE, "answer") \/ Succeeded(p)
  BY <1>1, <1>2, <1>3, <1>4, ProcWent DEF Typed, Succeeded, ProcPC
<1>5. CASE StoreFileBlockHashes(p) /\ ~ Succeeded(p)
  <2> DEFINE j == [job[p] EXCEPT !.ok = FALSE, !.body = <<>>]
  <2>1. IsJob(j) /\ j.req = job[p].req
    BY <1>2 DEF IsJob, NoJob
  <2>2. job' = [job EXCEPT ![p] = j] /\ pc' = [pc EXCEPT ![p] = "answer"]
    BY <1>5 DEF StoreFileBlockHashes, Goto
  <2> HIDE DEF j
  <2>3. ThreadsTyped'
    BY <1>2, <1>3, <2>1, <2>2, ProcMoves DEF Typed, ProcPC
  <2> QED
    BY <1>1, <2>3 DEF Typed
<1>6. CASE CalcFileBlockHashes(p) /\ ~ Went(p, FALSE, "answer")
  <2> DEFINE path == job[p].req.path
             j == [job[p] EXCEPT !.layout = layout, !.body = disk[path]]
  <2>1. /\ path \in DOMAIN disk
        /\ pc' = [pc EXCEPT ![p] = "store"]
        /\ job' = [job EXCEPT ![p].layout = layout, ![p].body = disk[path]]
    BY <1>6 DEF CalcFileBlockHashes, Goto
  <2>2. disk[path] \in Seq(Blocks) /\ layout \in 0 .. MaxAttempts
    BY <2>1, DirsKept DEF Typed, LayoutsTyped
  <2>3. IsJob(j) /\ j.req = job[p].req
    BY <1>2, <2>2 DEF IsJob, NoJob
  <2>4. pc' = [pc EXCEPT ![p] = "store"] /\ job' = [job EXCEPT ![p] = j]
    BY <2>1
  <2> HIDE DEF j
  <2>5. ThreadsTyped'
    BY <1>2, <1>3, <2>3, <2>4, ProcMoves DEF Typed, ProcPC
  <2> QED
    BY <1>1, <2>5 DEF Typed
<1> QED
  BY <1>4, <1>5, <1>6

LEMMA DeleteFileTyped ==
    ASSUME Typed, NEW p \in Procs, DeleteFile(p) \/ RemoveFileIfPresent(p)
    PROVE  Typed'
<1>1. /\ FlagsTyped' /\ QueuesTyped' /\ WritesTyped' /\ ServerTyped'
  BY PartsKept DEF Typed, DeleteFile, RemoveFileIfPresent, queues
<1>2. /\ IsJob(job[p]) /\ job[p].req \in ServerRequests /\ Busy(p)
      /\ job[p].req.kind = "delete"
  BY BusyProc DEF Typed, DeleteFile, RemoveFileIfPresent, Busy, Fits
<1>3. /\ Fits("delete", "answer") /\ Fits("delete", "dirty") /\ Fits("delete", "forget")
  BY DEF Fits, Kinds
<1>4. CASE DeleteFile(p)
  <2>1. LayoutsTyped'
    <3>1. disk' \in {disk, Without(disk, job[p].req.path)}
      BY <1>4 DEF DeleteFile
    <3> QED
      BY <1>4, <3>1, DirsKept DEF Typed, LayoutsTyped, DeleteFile, layouts
  <2>2. CASE Failed(p)
    BY <1>1, <1>2, <1>3, <2>1, <2>2, ProcWent DEF Typed, Failed, ProcPC
  <2>3. CASE ~ Failed(p)
    <3>1. PICK b \in BOOLEAN :
             /\ pc' = [pc EXCEPT ![p] = "forget"]
             /\ job' = [job EXCEPT ![p] = [job[p] EXCEPT !.layout = layout, !.ok = b]]
      <4>1. pc' = [pc EXCEPT ![p] = "forget"]
        BY <1>4, <2>3 DEF DeleteFile, Goto
      <4>2. CASE job' = [job EXCEPT ![p].layout = layout]
        <5>1. [job[p] EXCEPT !.layout = layout]
                 = [job[p] EXCEPT !.layout = layout, !.ok = job[p].ok]
          BY <1>2 DEF IsJob, NoJob
        <5> QED
          BY <1>2, <4>1, <4>2, <5>1 DEF IsJob
      <4>3. CASE job' = [job EXCEPT ![p].layout = layout, ![p].ok = FALSE]
        BY <4>1, <4>3
      <4> QED
        BY <1>4, <2>3, <4>2, <4>3 DEF DeleteFile
    <3> DEFINE j == [job[p] EXCEPT !.layout = layout, !.ok = b]
    <3>2. IsJob(j) /\ j.req = job[p].req
      BY <1>2 DEF IsJob, NoJob, Typed, LayoutsTyped
    <3>3. pc' = [pc EXCEPT ![p] = "forget"] /\ job' = [job EXCEPT ![p] = j]
      BY <3>1
    <3> HIDE DEF j
    <3>4. ThreadsTyped'
      BY <1>2, <1>3, <3>2, <3>3, ProcMoves DEF Typed, ProcPC
    <3> QED
      BY <1>1, <2>1, <3>4 DEF Typed
  <2> QED
    BY <2>2, <2>3
<1>5. CASE RemoveFileIfPresent(p)
  <2>1. ThreadsTyped'
    BY <1>2, <1>3, <1>5, ProcContinues DEF Typed, RemoveFileIfPresent, ProcPC
  <2>2. \A a \in Attempts : IsDir(Without(content[a], job[p].req.path))
    BY DirsKept DEF Typed, LayoutsTyped
  <2>3. LayoutsTyped'
    BY <1>5, <2>2 DEF Typed, LayoutsTyped, RemoveFileIfPresent
  <2> QED
    BY <1>1, <2>1, <2>3 DEF Typed
<1> QED
  BY <1>4, <1>5

LEMMA WriteFileTyped ==
    ASSUME Typed, NEW p \in Procs, WriteFile(p)
    PROVE  Typed'
<1>1. /\ FlagsTyped' /\ QueuesTyped' /\ ServerTyped'
  BY PartsKept DEF Typed, WriteFile, queues
<1>2. /\ job[p].req \in ServerRequests /\ Busy(p) /\ job[p].req.kind = "write"
  BY BusyProc DEF Typed, WriteFile, Busy, Fits
<1>3. /\ Fits("write", "answer") /\ Fits("write", "dirty")
  BY DEF Fits, Kinds
<1>4. ThreadsTyped'
  BY <1>2, <1>3, ProcWent DEF Typed, WriteFile, Succeeded, Failed, ProcPC
<1>5. WritesTyped'
  BY StatusSet DEF Typed, WriteFile, SetStatus
<1>6. LayoutsTyped'
  <2>1. IsDir(With(disk, job[p].req.path, <<>>))
    <3>1. job[p].req.path \in Paths
      BY <1>2, RequestFields DEF Kinds
    <3>2. <<>> \in Seq(Blocks)
      OBVIOUS
    <3> QED
      BY <3>1, <3>2, DirsKept DEF Typed, LayoutsTyped
  <2>2. disk' \in {disk, With(disk, job[p].req.path, <<>>)}
    BY DEF WriteFile, TruncatedFile
  <2> QED
    BY <2>1, <2>2 DEF Typed, LayoutsTyped, WriteFile, layouts
<1> QED
  BY <1>1, <1>4, <1>5, <1>6 DEF Typed

LEMMA OpenFileTyped ==
    ASSUME Typed, NEW p \in Procs, LookForFile(p) \/ OpenFile(p)
    PROVE  Typed'
<1>1. /\ FlagsTyped' /\ QueuesTyped' /\ ServerTyped' /\ WritesTyped'
  BY PartsKept DEF Typed, LookForFile, OpenFile, queues
<1>2. /\ job[p].req \in ServerRequests /\ Busy(p) /\ job[p].req.kind = "data"
  BY BusyProc DEF Typed, LookForFile, OpenFile, Busy, Fits
<1>3. /\ Fits("data", "dirty") /\ Fits("data", "open") /\ Fits("data", "create")
      /\ Fits("data", "put")
  BY DEF Fits, Kinds
<1>4. ThreadsTyped'
  <2>1. CASE LookForFile(p)
    BY <1>2, <1>3, <2>1, ProcContinues DEF Typed, LookForFile, ProcPC
  <2>2. CASE OpenFile(p)
    BY <1>2, <1>3, <2>2, ProcContinues, ProcWent DEF Typed, OpenFile, Failed, ProcPC
  <2> QED
    BY <2>1, <2>2
<1>5. LayoutsTyped'
  <2>1. IsDir(With(disk, job[p].req.path, <<>>))
    <3>1. job[p].req.path \in Paths
      BY <1>2, RequestFields DEF Kinds
    <3>2. <<>> \in Seq(Blocks)
      OBVIOUS
    <3> QED
      BY <3>1, <3>2, DirsKept DEF Typed, LayoutsTyped
  <2>2. disk' \in {disk, With(disk, job[p].req.path, <<>>)}
    BY DEF LookForFile, OpenFile
  <2> QED
    BY <2>1, <2>2 DEF Typed, LayoutsTyped, LookForFile, OpenFile, layouts
<1> QED
  BY <1>1, <1>4, <1>5 DEF Typed

LEMMA PutTyped ==
    ASSUME NEW f \in Seq(Blocks), NEW i \in Nat, NEW b \in Blocks
    PROVE  Put(f, i, b) \in Seq(Blocks)
<1> DEFINE length == IF i > Len(f) THEN i ELSE Len(f)
           g == [k \in 1 .. length |-> CASE k = i -> b
                                         [] k # i /\ k \in DOMAIN f -> f[k]
                                         [] OTHER -> Hole]
<1>1. Len(f) \in Nat /\ length \in Nat
  BY LenProperties
<1>2. \A k \in DOMAIN f : f[k] \in Blocks
  BY ElementOfSeq, LenProperties
<1>3. ASSUME NEW k \in 1 .. length
      PROVE  g[k] \in Blocks
  BY <1>2 DEF Blocks
<1> HIDE DEF length
<1>4. g \in [1 .. length -> Blocks]
  BY <1>3
<1> QED
  BY <1>1, <1>4, IsASeq DEF Put, length

LEMMA WriteBlockTyped ==
    ASSUME Typed, NEW p \in Procs, WriteBlock(p)
    PROVE  Typed'
<1> DEFINE r == job[p].req
           old == disk[r.path]
<1>1. /\ FlagsTyped' /\ QueuesTyped' /\ ServerTyped' /\ WritesTyped'
  BY PartsKept DEF Typed, WriteBlock, queues
<1>2. /\ r \in ServerRequests /\ Busy(p) /\ r.kind = "data"
  BY BusyProc DEF Typed, WriteBlock, Busy, Fits
<1>3. /\ Fits("data", "dirty") /\ Fits("data", "answer")
  BY DEF Fits, Kinds
<1>4. ThreadsTyped'
  BY <1>2, <1>3, ProcWent DEF Typed, WriteBlock, Succeeded, Failed, ProcPC
<1>5. LayoutsTyped'
  <2>1. CASE r.path \notin DOMAIN disk
    BY <2>1, PartsKept DEF Typed, WriteBlock
  <2>2. CASE r.path \in DOMAIN disk
    <3>1. r.path \in Paths /\ r.index \in Nat /\ old \in Seq(Blocks)
      BY <1>2, <2>2, RequestFields, IndicesAreNatural, DirsKept
         DEF Typed, LayoutsTyped, Kinds
    <3>2. Written(r, old) \in Seq(Blocks)
      <4> DEFINE new == ServerDirs[r.at][r.path]
      <4>1. new \in Seq(Blocks)
        BY <1>2, RequestFields, ServerFiles DEF HasFile
      <4>2. r.index \in DOMAIN new => new[r.index] \in Blocks
        BY <4>1, ElementOfSeq, LenProperties
      <4> HIDE DEF r, old
      <4> QED
        BY <3>1, <4>2, PutTyped DEF Written
    <3>3. Put(old, r.index, Hole) \in Seq(Blocks)
      BY <3>1, PutTyped DEF Blocks
    <3>4. disk' \in {disk, With(disk, r.path, Written(r, old)),
                     With(disk, r.path, Put(old, r.index, Hole))}
      BY <2>2 DEF WriteBlock
    <3>5. IsDir(disk')
      BY <3>1, <3>2, <3>3, <3>4, DirsKept DEF Typed, LayoutsTyped
    <3> QED
      BY <3>5 DEF Typed, LayoutsTyped, WriteBlock, layouts
  <2> QED
    BY <2>1, <2>2
<1> QED
  BY <1>1, <1>4, <1>5 DEF Typed

LEMMA FinishWriteFileTyped ==
    ASSUME Typed, NEW p \in Procs, FinishWriteFile(p) \/ AddFile(p)
    PROVE  Typed'
<1> DEFINE r == job[p].req
<1>1. /\ FlagsTyped' /\ QueuesTyped' /\ ServerTyped'
  BY PartsKept DEF Typed, FinishWriteFile, AddFile, queues
<1>2. /\ r \in ServerRequests /\ Busy(p) /\ r.kind = "finish"
  BY BusyProc DEF Typed, FinishWriteFile, AddFile, Busy, Fits
<1>3. /\ Fits("finish", "dirty") /\ Fits("finish", "add") /\ Fits("finish", "answer")
  BY DEF Fits, Kinds
<1>4. ThreadsTyped'
  BY <1>2, <1>3, ProcWent DEF Typed, FinishWriteFile, AddFile, Succeeded, Failed, ProcPC
<1>5. CASE FinishWriteFile(p)
  <2>1. WritesTyped'
    BY <1>5, StatusSet DEF Typed, FinishWriteFile, SetStatus
  <2>2. LayoutsTyped'
    BY <1>5, PartsKept DEF Typed, FinishWriteFile
  <2> QED
    BY <1>1, <1>4, <2>1, <2>2 DEF Typed
<1>6. CASE AddFile(p)
  <2>1. WritesTyped'
    BY <1>6, StatusSet, PartsKept DEF Typed, AddFile, SetStatus, writing
  <2>2. ServerDirs[r.at][r.path] \in Seq(Blocks) /\ r.path \in Paths
    BY <1>2, RequestFields, ServerFiles DEF HasFile
  <2>3. \A a \in Attempts : IsDir(With(content[a], r.path, ServerDirs[r.at][r.path]))
    BY <2>2, DirsKept DEF Typed, LayoutsTyped
  <2>4. LayoutsTyped'
    BY <1>6, <2>3 DEF Typed, LayoutsTyped, AddFile
  <2> QED
    BY <1>1, <1>4, <2>1, <2>4 DEF Typed
<1> QED
  BY <1>5, <1>6

LEMMA NextTyped == Typed /\ [Next]_vars => Typed'
<1> SUFFICES ASSUME Typed, [Next]_vars
             PROVE  Typed'
  OBVIOUS
<1>1. CASE ConnectTo \/ Disconnect \/ ConnectionClosed
  BY <1>1, BetweenUpdatesTyped
<1>2. CASE UpdateStep
  BY <1>2, UpdateLayoutChangedTyped, OnFileLayoutChangedTyped, SendQueuedMessagesTyped,
     ProcessRequestLayoutTyped, ProcessRequestFileBlockHashesTyped, HashesTaskQueuedTyped,
     ProcessRequestDeleteFileTyped, ProcessRequestWriteFileTyped, ProcessSendFileDataTyped,
     ProcessRequestFinishWriteFileTyped, UpdateEndsTyped
     DEF UpdateStep
<1>3. CASE NetworkStep
  BY <1>3, ConnectingTyped, MessageReceivedTyped DEF NetworkStep
<1>4. CASE \E p \in Procs : ProcStep(p)
  BY <1>4, TakeTaskTyped, ExitRunTyped, ListFilesTyped, AddFileToLayoutTyped,
     LayoutPublishedTyped, AnsweredTyped, BlockHashesTyped, DeleteFileTyped, WriteFileTyped,
     OpenFileTyped, WriteBlockTyped, FinishWriteFileTyped
     DEF ProcStep, RunTaskStep
<1>5. CASE UNCHANGED vars
  BY <1>5, PartsKept DEF Typed, vars, queues
<1> QED
  BY <1>1, <1>2, <1>3, <1>4, <1>5 DEF Next

LEMMA TypedImpliesTypeOK == Typed => TypeOK
<1> SUFFICES ASSUME Typed
             PROVE  TypeOK
  OBVIOUS
<1>1. Range(pending) \subseteq Requests /\ Range(queueReceived) \subseteq Requests
  BY RangeOfSeq DEF Typed, QueuesTyped, ServerRequests
<1>2. \A i \in DOMAIN queueSend : IsAnswer(queueSend[i])
  BY DEF Typed, QueuesTyped, AnswersServer, Range
<1>3. /\ writeTasks \in [DOMAIN writeTasks -> Attempts]
      /\ DOMAIN writeTasks \subseteq Paths
  BY DEF Typed, WritesTyped
<1>4. \A t \in Threads : job[t].req \in Requests \cup {NoRequest}
  BY DEF Typed, ThreadsTyped, IsJob, ServerRequests
<1>5. srv.open \subseteq srv.sent /\ srv.sent \subseteq Requests /\ srv.attempt \in 0 .. MaxAttempts
  BY DEF Typed, ServerTyped, ServerRequests
<1>6. \A p \in Procs : pc[p] \in ProcPC
  BY DEF Typed, ThreadsTyped
<1> QED
  BY <1>1, <1>2, <1>3, <1>4, <1>5, <1>6
     DEF TypeOK, Typed, LayoutsTyped, FlagsTyped, WritesTyped, ThreadsTyped

(* The variables keep their types, for every set of processors and whatever fails: every
   task and answer is about a request of the server, and what is written is a file the
   server has. *)
THEOREM TypeCorrect == Spec => []TypeOK
<1>1. Spec => []Typed
  BY InitTyped, NextTyped, PTL DEF Spec
<1> QED
  BY <1>1, TypedImpliesTypeOK, PTL

-------------------------------------------------------------------------------
(* The request for the layout is served *)

LEMMA StillServed ==
    ASSUME AnsweredWhenPresent, LayoutRequestServed,
           UNCHANGED <<layout, nextLayout, pendingRequest>>,
           Range(pending) \subseteq Range(pending'),
           pc[Main] = "changed" => pc'[Main] = "changed",
           \A p \in Procs : Busy(p) /\ job[p].req.kind = "layout"
                               => Busy(p)' /\ job'[p].req.kind = "layout"
    PROVE  AnsweredWhenPresent' /\ LayoutRequestServed'
BY DEF AnsweredWhenPresent, LayoutRequestServed

\* Nothing but the processors themselves moves them, once they run.
LEMMA OthersMoveMain ==
    ASSUME ThreadsTyped, UpdateStep \/ NetworkStep \/ Disconnect \/ ConnectionClosed
    PROVE  /\ \A p \in Procs : pc'[p] = pc[p] /\ job'[p] = job[p]
           /\ disk' = disk
<1> USE DEF ThreadsTyped, Goto, MainGoto, threads
<1>0. \A p \in Procs : p # Main /\ p \in Threads
  BY ThreadsAssumption DEF Threads
<1>1. CASE Disconnect \/ ConnectionClosed
  BY <1>1 DEF Disconnect, ConnectionClosed, Close
<1>2. CASE NetworkStep
  BY <1>2 DEF NetworkStep, ConnectionEstablished, MessageReceivedConnect, MessageReceived
<1>3. CASE UpdateLayoutChanged \/ OnFileLayoutChanged \/ SendQueuedMessages
  BY <1>0, <1>3 DEF UpdateLayoutChanged, OnFileLayoutChanged, SendQueuedMessages
<1>4. CASE ProcessRequestLayout \/ ProcessRequestFileBlockHashes \/ PutFileWithoutBlocks
           \/ AddPendingTask \/ ProcessRequestDeleteFile
  BY <1>0, <1>4
     DEF ProcessRequestLayout, ProcessRequestFileBlockHashes, PutFileWithoutBlocks,
         AddPendingTask, ProcessRequestDeleteFile
<1>5. CASE ProcessRequestWriteFile \/ ProcessSendFileData \/ ProcessRequestFinishWriteFile
  BY <1>0, <1>5
     DEF ProcessRequestWriteFile, ProcessSendFileData, ProcessRequestFinishWriteFile
<1>6. CASE NothingReceived \/ StopTaskProcessors \/ JoinTaskProcessors
  BY <1>0, <1>6 DEF NothingReceived, StopTaskProcessors, JoinTaskProcessors
<1> QED
  BY <1>1, <1>2, <1>3, <1>4, <1>5, <1>6 DEF UpdateStep

LEMMA UpdateServes ==
    ASSUME Typed, ServedInv, UpdateStep \/ NetworkStep \/ Disconnect \/ ConnectionClosed
    PROVE  ServedInv'
<1>1. /\ \A p \in Procs : pc'[p] = pc[p] /\ job'[p] = job[p]
      /\ disk' = disk
  BY OthersMoveMain DEF Typed
<1>2. ListedFilesThere'
  BY <1>1 DEF ServedInv, ListedFilesThere
<1>3. \A p \in Procs : Busy(p) => Busy(p)' /\ job'[p] = job[p]
  BY <1>1 DEF Busy
<1>4. CASE UpdateLayoutChanged
  <2>1. CASE ~ pendingRequest
    BY <1>2, <1>4, <2>1
       DEF ServedInv, AnsweredWhenPresent, LayoutRequestServed, UpdateLayoutChanged
  <2>2. CASE pendingRequest
    <3>1. layout = None
      BY <1>4, <2>2 DEF ServedInv, AnsweredWhenPresent, UpdateLayoutChanged
    <3>2. /\ nextLayout' = nextLayout /\ layout' = nextLayout
          /\ UNCHANGED <<pendingRequest, pending>>
      BY <1>4, <3>1 DEF UpdateLayoutChanged, Dropped
    <3>3. LayoutRequestServed'
      BY <1>3, <3>2 DEF ServedInv, LayoutRequestServed
    <3>4. AnsweredWhenPresent'
      <4>1. Main \in DOMAIN pc
        BY DEF Typed, ThreadsTyped, Threads
      <4>2. pc' = [pc EXCEPT ![Main] = IF nextLayout # layout THEN "changed" ELSE "send"]
        BY <1>4, <3>1 DEF UpdateLayoutChanged, Dropped, MainGoto, Goto
      <4> QED
        BY <3>1, <3>2, <4>1, <4>2 DEF AnsweredWhenPresent
    <3> QED
      BY <1>2, <3>3, <3>4 DEF ServedInv
  <2> QED
    BY <2>1, <2>2
<1>5. CASE OnFileLayoutChanged
  <2>1. CASE pendingRequest /\ layout = None
    <3>1. LayoutRequest(srv.attempt) \in ServerRequests
      <4>1. srv.attempt \in Attempts
        BY <2>1, BoundsAssumption DEF Typed, ServerTyped, None, Attempts
      <4> QED
        BY <4>1, RequestsOfServer
    <3>2. LayoutRequest(srv.attempt) \in Range(pending')
      BY <1>5, <2>1, <3>1, AppendKeeps DEF Typed, QueuesTyped, OnFileLayoutChanged
    <3>3. LayoutRequestServed'
      BY <3>2 DEF LayoutRequestServed, LayoutRequest, Request
    <3>4. AnsweredWhenPresent'
      BY <1>5, <2>1 DEF AnsweredWhenPresent, OnFileLayoutChanged, layouts
    <3> QED
      BY <1>2, <3>3, <3>4 DEF ServedInv
  <2>2. CASE ~ (pendingRequest /\ layout = None)
    <3>1. ~ pendingRequest'
      BY <1>5, <2>2 DEF OnFileLayoutChanged
    <3> QED
      BY <1>2, <3>1 DEF ServedInv, AnsweredWhenPresent, LayoutRequestServed
  <2> QED
    BY <2>1, <2>2
<1>6. CASE ProcessRequestLayout
  <2>1. CASE layout # None
    <3>1. ~ pendingRequest'
      BY <1>6, <2>1 DEF ProcessRequestLayout
    <3> QED
      BY <1>2, <3>1 DEF ServedInv, AnsweredWhenPresent, LayoutRequestServed
  <2>2. CASE layout = None
    <3>1. Head(queueReceived) \in ServerRequests /\ Head(queueReceived).kind = "layout"
      BY <1>6, FirstReceived DEF Typed, ProcessRequestLayout
    <3>2. \E e \in Range(pending') : e.kind = "layout"
      <4>1. CASE \E e \in Range(pending) : e.kind = "layout"
        BY <1>6, <2>2, <4>1 DEF ProcessRequestLayout
      <4>2. CASE ~ \E e \in Range(pending) : e.kind = "layout"
        <5>1. pending' = Append(pending, Head(queueReceived))
          BY <1>6, <2>2, <4>2, Zenon DEF ProcessRequestLayout
        <5> QED
          BY <3>1, <5>1, AppendKeeps DEF Typed, QueuesTyped
      <4> QED
        BY <4>1, <4>2
    <3>3. AnsweredWhenPresent'
      BY <1>6, <2>2 DEF AnsweredWhenPresent, ProcessRequestLayout, layouts
    <3> QED
      BY <1>2, <3>2, <3>3 DEF ServedInv, LayoutRequestServed
  <2> QED
    BY <2>1, <2>2
<1>7. CASE SendQueuedMessages \/ ProcessRequestFileBlockHashes \/ PutFileWithoutBlocks
           \/ AddPendingTask \/ ProcessRequestDeleteFile \/ ProcessRequestWriteFile
           \/ ProcessSendFileData \/ ProcessRequestFinishWriteFile \/ NothingReceived
           \/ StopTaskProcessors \/ JoinTaskProcessors
           \/ NetworkStep \/ Disconnect \/ ConnectionClosed
  <2>1. UNCHANGED <<layout, nextLayout, pendingRequest>>
    BY <1>7
       DEF SendQueuedMessages, ProcessRequestFileBlockHashes, PutFileWithoutBlocks,
           AddPendingTask, ProcessRequestDeleteFile, ProcessRequestWriteFile,
           ProcessSendFileData, ProcessRequestFinishWriteFile, NothingReceived,
           StopTaskProcessors, JoinTaskProcessors, NetworkStep, ConnectionEstablished,
           MessageReceivedConnect, MessageReceived, Disconnect, ConnectionClosed, Close,
           layouts
  <2>2. pc[Main] # "changed"  \/ pc'[Main] = pc[Main]
    BY <1>7
       DEF SendQueuedMessages, ProcessRequestFileBlockHashes, PutFileWithoutBlocks,
           AddPendingTask, ProcessRequestDeleteFile, ProcessRequestWriteFile,
           ProcessSendFileData, ProcessRequestFinishWriteFile, NothingReceived,
           StopTaskProcessors, JoinTaskProcessors, NetworkStep, ConnectionEstablished,
           MessageReceivedConnect, MessageReceived, Disconnect, ConnectionClosed, Close,
           Receives, threads
  <2>3. Range(pending) \subseteq Range(pending')
    <3>1. pending' = pending \/ \E e \in ServerRequests : pending' = Append(pending, e)
      <4>1. CASE SendQueuedMessages \/ ProcessRequestFileBlockHashes \/ PutFileWithoutBlocks
                 \/ ProcessRequestWriteFile \/ NothingReceived
                 \/ StopTaskProcessors \/ JoinTaskProcessors
                 \/ NetworkStep \/ Disconnect \/ ConnectionClosed
        BY <4>1
           DEF SendQueuedMessages, ProcessRequestFileBlockHashes, PutFileWithoutBlocks,
               ProcessRequestWriteFile, NothingReceived, StopTaskProcessors,
               JoinTaskProcessors, NetworkStep, ConnectionEstablished,
               MessageReceivedConnect, MessageReceived, Disconnect, ConnectionClosed, Close
      <4>2. CASE AddPendingTask
        BY <4>2 DEF AddPendingTask, Typed, ThreadsTyped
      <4>3. CASE ProcessRequestDeleteFile
        BY <4>3, FirstReceived DEF ProcessRequestDeleteFile, Typed
      <4>4. CASE ProcessSendFileData
        <5> DEFINE r == Head(queueReceived)
                   a == writeTasks[r.path]
        <5>1. r \in ServerRequests /\ r.kind = "data"
          BY <4>4, FirstReceived DEF ProcessSendFileData, Typed
        <5>2. \/ pending' = pending
              \/ /\ r.path \in DOMAIN writeTasks
                 /\ ~ (r.index > 1 /\ r.index > SizeToWrite([r EXCEPT !.at = a]))
                 /\ pending' = Append(pending, BlockTask(r, a))
          BY <4>4, Zenon DEF ProcessSendFileData
        <5>3. ASSUME r.path \in DOMAIN writeTasks,
                     ~ (r.index > 1 /\ r.index > SizeToWrite([r EXCEPT !.at = a]))
              PROVE  BlockTask(r, a) \in ServerRequests
          <6>1. a \in Attempts /\ r.path \in DOMAIN ServerDirs[a]
            BY <5>3 DEF Typed, WritesTyped
          <6>2. r.index \in BlocksOf(ServerDirs[a][r.path])
            BY <5>1, <5>3, <6>1, BlockInside
          <6> QED
            BY <5>1, <6>1, <6>2, AttemptReplaced DEF BlockTask
        <5> QED
          BY <5>2, <5>3
      <4>5. CASE ProcessRequestFinishWriteFile
        <5> DEFINE r == Head(queueReceived)
                   a == writeTasks[r.path]
                   e == [r EXCEPT !.at = a]
        <5>1. r \in ServerRequests /\ r.kind = "finish"
          BY <4>5, FirstReceived DEF ProcessRequestFinishWriteFile, Typed
        <5>2. r.path \in DOMAIN writeTasks => e \in ServerRequests
          BY <5>1, AttemptReplaced DEF Typed, WritesTyped
        <5>3. pending' = pending
                \/ (r.path \in DOMAIN writeTasks /\ pending' = Append(pending, e))
          BY <4>5, Zenon DEF ProcessRequestFinishWriteFile
        <5> QED
          BY <5>2, <5>3
      <4> QED
        BY <1>7, <4>1, <4>2, <4>3, <4>4, <4>5
    <3> QED
      BY <3>1, AppendKeeps DEF Typed, QueuesTyped
  <2> QED
    BY <1>2, <1>3, <2>1, <2>2, <2>3, StillServed DEF ServedInv
<1> QED
  BY <1>4, <1>5, <1>6, <1>7 DEF UpdateStep

LEMMA ConnectServes ==
    ASSUME Typed, ServedInv, ConnectTo
    PROVE  ServedInv'
<1>0. \A p \in Procs : p # Main /\ p \in Threads
  BY ThreadsAssumption DEF Threads
<1>1. \A p \in Procs : /\ pc[p] # "off" => pc'[p] = pc[p]
                       /\ pc[p] = "off" => pc'[p] = "idle"
  BY <1>0 DEF ConnectTo
<1>2. /\ pc[Main] # "changed"
      /\ UNCHANGED <<layout, nextLayout, pendingRequest, pending, job, disk>>
  BY DEF ConnectTo, layouts
<1>3. AnsweredWhenPresent' /\ LayoutRequestServed'
  BY <1>1, <1>2, StillServed DEF ServedInv, Busy
<1>4. ListedFilesThere'
  BY <1>1, <1>2 DEF ServedInv, ListedFilesThere
<1> QED
  BY <1>3, <1>4 DEF ServedInv

\* The only processor goes on with its task.
LEMMA ProcGoesOn ==
    ASSUME ThreadsTyped, ServedInv, \A q, s \in Procs : q = s,
           NEW p \in Procs, NEW to, to \notin {"off", "idle"}, Goto(p, to),
           UNCHANGED <<layout, nextLayout, pendingRequest, pending>>,
           job'[p].req = job[p].req,
           to = "hashing" => job'[p].todo \subseteq DOMAIN disk',
           to = "publish" => job'[p].ok
    PROVE  ServedInv'
<1>1. pc'[Main] = pc[Main] /\ pc'[p] = to
  BY ThreadsAssumption DEF Threads, ThreadsTyped, Goto
<1>2. \A q \in Procs : q = p
  OBVIOUS
<1>3. AnsweredWhenPresent' /\ LayoutRequestServed'
  BY <1>1, <1>2, StillServed DEF ServedInv, Busy
<1>4. ListedFilesThere'
  BY <1>1, <1>2 DEF ListedFilesThere
<1> QED
  BY <1>3, <1>4 DEF ServedInv

LEMMA ProcWentOn ==
    ASSUME ThreadsTyped, ServedInv, \A q, s \in Procs : q = s,
           NEW p \in Procs, NEW to, to \notin {"off", "idle", "hashing"}, NEW ok,
           UNCHANGED <<layout, nextLayout, pendingRequest, pending>>,
           Went(p, ok, to), to = "publish" => ok
    PROVE  ServedInv'
<1>1. p \in Threads
  BY DEF Threads
<1>2. job'[p].req = job[p].req /\ job'[p].ok = ok
  BY <1>1 DEF ThreadsTyped, IsJob, NoJob, Went
<1> QED
  BY <1>2, ProcGoesOn DEF Went

LEMMA TakeTaskServes ==
    ASSUME Typed, ServedInv, \A q, s \in Procs : q = s, NEW p \in Procs, TakeTask(p)
    PROVE  ServedInv'
<1>1. p \in Threads /\ p # Main /\ \A q \in Procs : q = p
  BY ThreadsAssumption DEF Threads
<1>2. PICK i \in DOMAIN pending :
          /\ pending' = Erased(i)
          /\ Goto(p, pending[i].kind)
          /\ job' = [job EXCEPT ![p] = JobOf(pending[i])]
  BY DEF TakeTask
<1> DEFINE r == pending[i]
<1>3. r \in ServerRequests
  BY EraseFromSequence DEF Typed, QueuesTyped
<1>4. /\ pc'[Main] = pc[Main] /\ pc'[p] = r.kind /\ job'[p].req = r
      /\ pc[p] = "idle"
      /\ UNCHANGED <<layout, nextLayout, pendingRequest, disk>>
  BY <1>1, <1>2, <1>3, JobsTyped DEF TakeTask, Goto, Typed, ThreadsTyped, layouts
<1>5. r.kind \in Kinds \cup {"layout"}
  BY <1>3, RequestFields
<1>6. AnsweredWhenPresent'
  BY <1>4 DEF ServedInv, AnsweredWhenPresent
<1>7. ListedFilesThere'
  BY <1>1, <1>4, <1>5 DEF ListedFilesThere, Kinds
<1>8. LayoutRequestServed'
  <2> SUFFICES ASSUME pendingRequest, nextLayout = None
               PROVE  LayoutRequestServed'
    BY <1>4 DEF LayoutRequestServed
  <2>1. PICK e \in Range(pending) : e.kind = "layout"
    BY <1>1, <1>4 DEF ServedInv, LayoutRequestServed, Busy
  <2>2. PICK k \in DOMAIN pending : pending[k] = e
    BY DEF Range
  <2>3. CASE k = i
    <3>1. Busy(p)' /\ job'[p].req.kind = "layout"
      BY <1>4, <2>1, <2>2, <2>3 DEF Busy
    <3> QED
      BY <3>1 DEF LayoutRequestServed
  <2>4. CASE k # i
    <3>1. e \in Range(pending')
      BY <1>2, <2>2, <2>4, EraseKeepsOthers DEF Typed, QueuesTyped, Erased, RemoveAt
    <3> QED
      BY <2>1, <3>1 DEF LayoutRequestServed
  <2> QED
    BY <2>3, <2>4
<1> QED
  BY <1>6, <1>7, <1>8 DEF ServedInv

LEMMA LayoutTaskServes ==
    ASSUME Typed, ServedInv, \A q, s \in Procs : q = s, "build" \notin Faults,
           NEW p \in Procs,
           ListFiles(p) \/ AddFileToLayout(p) \/ LayoutBuilt(p) \/ SetFileLayout(p)
    PROVE  ServedInv'
<1>1. p \in Threads /\ p # Main /\ \A q \in Procs : q = p
  BY ThreadsAssumption DEF Threads
<1>2. /\ job[p].req \in ServerRequests /\ DOMAIN job[p] = DOMAIN NoJob
      /\ job[p].req.kind = "layout"
  BY <1>1, BusyProc
     DEF Typed, ThreadsTyped, IsJob, ListFiles, AddFileToLayout, LayoutBuilt, SetFileLayout,
         Busy, Fits
<1>3. CASE ListFiles(p)
  <2>1. /\ job'[p].req = job[p].req /\ job'[p].todo = DOMAIN disk
        /\ Goto(p, "hashing")
        /\ UNCHANGED <<layout, nextLayout, pendingRequest, pending, disk>>
    BY <1>1, <1>2, <1>3 DEF ListFiles, NoJob, Typed, ThreadsTyped
  <2> QED
    BY <2>1, ProcGoesOn DEF Typed
<1>4. CASE AddFileToLayout(p)
  <2>1. /\ pc[p] = "hashing" /\ job[p].todo \subseteq DOMAIN disk
        /\ UNCHANGED <<layout, nextLayout, pendingRequest, pending, disk>>
    BY <1>4 DEF AddFileToLayout, ServedInv, ListedFilesThere
  <2>2. PICK path \in job[p].todo :
            job' = [job EXCEPT ![p].todo = @ \ {path}] /\ UNCHANGED pc
    BY <1>4, <2>1 DEF AddFileToLayout
  <2>3. job'[p].req = job[p].req /\ job'[p].todo \subseteq DOMAIN disk
    BY <1>1, <1>2, <2>1, <2>2 DEF NoJob, Typed, ThreadsTyped
  <2>4. ListedFilesThere'
    BY <1>1, <2>1, <2>2, <2>3 DEF ListedFilesThere
  <2>5. AnsweredWhenPresent' /\ LayoutRequestServed'
    BY <1>1, <2>1, <2>2, <2>3, StillServed DEF ServedInv, Busy
  <2> QED
    BY <2>4, <2>5 DEF ServedInv
<1>5. CASE LayoutBuilt(p)
  BY <1>5, ProcWentOn DEF Typed, LayoutBuilt, layouts
<1>6. CASE SetFileLayout(p)
  <2>1. /\ nextLayout' = job[p].req.at
        /\ pc' = [pc EXCEPT ![p] = "idle"]
        /\ UNCHANGED <<layout, pendingRequest>>
    BY <1>6 DEF ServedInv, ListedFilesThere, SetFileLayout, Published, Return, Goto
  <2>2. nextLayout' # None
    BY <1>2, <2>1, RequestFields DEF Attempts, None
  <2>3. pc'[Main] = pc[Main] /\ pc'[p] = "idle"
    BY <1>1, <2>1 DEF Typed, ThreadsTyped
  <2> QED
    BY <1>1, <2>1, <2>2, <2>3
       DEF ServedInv, AnsweredWhenPresent, ListedFilesThere, LayoutRequestServed
<1> QED
  BY <1>3, <1>4, <1>5, <1>6

LEMMA OtherTaskServes ==
    ASSUME Typed, ServedInv, \A q, s \in Procs : q = s, NEW p \in Procs,
           \/ CalcFileBlockHashes(p) \/ StoreFileBlockHashes(p)
           \/ DeleteFile(p) \/ RemoveFileIfPresent(p)
           \/ WriteFile(p) \/ LookForFile(p) \/ OpenFile(p) \/ WriteBlock(p)
           \/ FinishWriteFile(p) \/ AddFile(p) \/ SetDirtyFileLayout(p)
    PROVE  ServedInv'
<1>1. p \in Threads /\ DOMAIN job[p] = DOMAIN NoJob /\ DOMAIN job = Threads
  BY DEF Threads, Typed, ThreadsTyped, IsJob
<1>2. UNCHANGED <<layout, nextLayout, pendingRequest, pending>>
  BY DEF CalcFileBlockHashes, StoreFileBlockHashes, DeleteFile, RemoveFileIfPresent,
         WriteFile, LookForFile, OpenFile, WriteBlock, FinishWriteFile, AddFile,
         SetDirtyFileLayout, layouts
<1>3. PICK to \in ProcPC \ {"off", "idle", "hashing", "publish"} :
          Goto(p, to) /\ job'[p].req = job[p].req
  <2>1. CASE CalcFileBlockHashes(p) \/ StoreFileBlockHashes(p) \/ DeleteFile(p)
    BY <1>1, <2>1
       DEF CalcFileBlockHashes, StoreFileBlockHashes, DeleteFile, Succeeded, Failed, Went,
           ProcPC, NoJob
  <2>2. CASE WriteFile(p) \/ WriteBlock(p) \/ FinishWriteFile(p) \/ AddFile(p)
    BY <1>1, <2>2
       DEF WriteFile, WriteBlock, FinishWriteFile, AddFile, Succeeded, Failed, Went,
           ProcPC, NoJob
  <2>3. CASE RemoveFileIfPresent(p)
    BY <2>3 DEF RemoveFileIfPresent, Continue, ProcPC
  <2>4. CASE LookForFile(p) \/ SetDirtyFileLayout(p)
    BY <2>4 DEF LookForFile, SetDirtyFileLayout, Continue, ProcPC
  <2>5. CASE OpenFile(p)
    BY <1>1, <2>5 DEF OpenFile, Continue, Failed, Went, ProcPC, NoJob
  <2> QED
    BY <2>1, <2>2, <2>3, <2>4, <2>5
<1> QED
  BY <1>2, <1>3, ProcGoesOn DEF Typed

LEMMA ProcServes ==
    ASSUME Typed, ServedInv, \A q, s \in Procs : q = s, "build" \notin Faults,
           NEW p \in Procs, ProcStep(p)
    PROVE  ServedInv'
<1>1. CASE TakeTask(p)
  BY <1>1, TakeTaskServes
<1>2. CASE ExitRun(p) \/ SendResponse(p)
  <2>1. p \in Threads /\ p # Main /\ \A q \in Procs : q = p
    BY ThreadsAssumption DEF Threads
  <2>2. ~ (Busy(p) /\ job[p].req.kind = "layout")
    BY <1>2, BusyProc DEF Typed, ExitRun, SendResponse, Busy, Fits, Kinds
  <2>3. /\ pc'[Main] = pc[Main] /\ pc'[p] \in {"off", "idle"}
        /\ UNCHANGED <<layout, nextLayout, pendingRequest, pending>>
    <3>1. Goto(p, "off") \/ Goto(p, "idle")
      BY <1>2 DEF ExitRun, SendResponse, Continue, Return
    <3>2. UNCHANGED <<layout, nextLayout, pendingRequest, pending>>
      BY <1>2 DEF ExitRun, SendResponse, layouts
    <3> QED
      BY <2>1, <3>1, <3>2 DEF Typed, ThreadsTyped, Threads, Goto
  <2>4. ListedFilesThere'
    BY <2>1, <2>3 DEF ListedFilesThere
  <2>5. AnsweredWhenPresent' /\ LayoutRequestServed'
    BY <2>1, <2>2, <2>3, StillServed DEF ServedInv
  <2> QED
    BY <2>4, <2>5 DEF ServedInv
<1>3. CASE ListFiles(p) \/ AddFileToLayout(p) \/ LayoutBuilt(p) \/ SetFileLayout(p)
  BY <1>3, LayoutTaskServes
<1>4. CASE \/ CalcFileBlockHashes(p) \/ StoreFileBlockHashes(p)
           \/ DeleteFile(p) \/ RemoveFileIfPresent(p)
           \/ WriteFile(p) \/ LookForFile(p) \/ OpenFile(p) \/ WriteBlock(p)
           \/ FinishWriteFile(p) \/ AddFile(p) \/ SetDirtyFileLayout(p)
  BY <1>4, OtherTaskServes
<1> QED
  BY <1>1, <1>2, <1>3, <1>4 DEF ProcStep, RunTaskStep

LEMMA InitServed == Init => ServedInv
<1> SUFFICES ASSUME Init
             PROVE  ServedInv
  OBVIOUS
<1>1. ~ pendingRequest
  BY DEF Init
<1>2. \A p \in Procs : pc[p] = "off"
  BY ThreadsAssumption DEF Init, Threads
<1> QED
  BY <1>1, <1>2
     DEF ServedInv, AnsweredWhenPresent, LayoutRequestServed, ListedFilesThere

LEMMA NextServes ==
    ASSUME Typed, ServedInv, [Next]_vars, \A p, q \in Procs : p = q, "build" \notin Faults
    PROVE  ServedInv'
<1>1. CASE UNCHANGED vars
  BY <1>1
     DEF vars, layouts, threads, ServedInv, AnsweredWhenPresent, LayoutRequestServed,
         ListedFilesThere, Busy
<1>2. CASE \E p \in Procs : ProcStep(p)
  BY <1>2, ProcServes
<1> QED
  BY <1>1, <1>2, ConnectServes, UpdateServes DEF Next

(* A request for the layout that the launcher could not answer at once is not forgotten:
   until the layout is there, the task to build it is queued or runs, or its result waits
   for Update(), whatever happens to the connection and to the processor meanwhile.  The
   launcher starts one processor; with two, a file deleted by one while the other hashes
   ends the task without a layout, as does a file that cannot be read. *)
THEOREM RequestServed ==
    ASSUME \A p, q \in Procs : p = q, "build" \notin Faults
    PROVE  Spec => []LayoutRequestServed
<1>1. Typed /\ ServedInv /\ [Next]_vars => ServedInv'
  BY NextServes
<1>2. ServedInv => LayoutRequestServed
  BY DEF ServedInv
<1> QED
  BY <1>1, <1>2, InitTyped, NextTyped, InitServed, PTL DEF Spec

-------------------------------------------------------------------------------
(* What a queue holds *)

Has(q, r) == \E i \in DOMAIN q : q[i] = r
AtMostOne(q, r) == \A i, j \in DOMAIN q : q[i] = r /\ q[j] = r => i = j

HasAnswer(q, r) == \E i \in DOMAIN q : q[i].req = r
AtMostOneAnswer(q, r) == \A i, j \in DOMAIN q : q[i].req = r /\ q[j].req = r => i = j

\* An answer reporting success.
HasOk(q, r) == \E i \in DOMAIN q : q[i].req = r /\ q[i].ok

LEMMA HasAppended ==
    ASSUME NEW S, NEW q \in Seq(S), NEW e \in S, NEW r
    PROVE  /\ Has(Append(q, e), r) <=> Has(q, r) \/ e = r
           /\ AtMostOne(q, r) /\ (e = r => ~ Has(q, r)) => AtMostOne(Append(q, e), r)
<1> DEFINE u == Append(q, e)
<1>1. Len(q) \in Nat /\ DOMAIN q = 1 .. Len(q)
  BY LenProperties
<1>2. /\ u \in Seq(S) /\ Len(u) = Len(q) + 1
      /\ \A k \in 1 .. Len(q) : u[k] = q[k]
      /\ u[Len(q) + 1] = e
  BY AppendProperties
<1> HIDE DEF u
<1>3. DOMAIN u = 1 .. Len(q) + 1
  BY <1>2, LenProperties
<1>4. Has(u, r) <=> Has(q, r) \/ e = r
  BY <1>1, <1>2, <1>3 DEF Has
<1>5. AtMostOne(q, r) /\ (e = r => ~ Has(q, r)) => AtMostOne(u, r)
  BY <1>1, <1>2, <1>3 DEF Has, AtMostOne
<1> QED
  BY <1>4, <1>5 DEF u

LEMMA HasTail ==
    ASSUME NEW S, NEW q \in Seq(S), q # <<>>, NEW r
    PROVE  /\ Head(q) = r => Has(q, r)
           /\ AtMostOne(q, r) =>
                 /\ Has(Tail(q), r) <=> Has(q, r) /\ Head(q) # r
                 /\ AtMostOne(Tail(q), r)
<1> DEFINE u == Tail(q)
<1>1. Len(q) \in Nat /\ DOMAIN q = 1 .. Len(q) /\ Len(q) > 0 /\ Head(q) = q[1]
  BY LenProperties, EmptySeq
<1>2. /\ u \in Seq(S) /\ Len(u) = Len(q) - 1
      /\ \A k \in 1 .. Len(q) - 1 : u[k] = q[k + 1]
  BY <1>1, HeadTailProperties
<1> HIDE DEF u
<1>3. DOMAIN u = 1 .. Len(q) - 1
  BY <1>2, LenProperties
<1>4. ASSUME AtMostOne(q, r)
      PROVE  Has(u, r) <=> Has(q, r) /\ q[1] # r
  <2>1. ASSUME Has(u, r)
        PROVE  Has(q, r) /\ q[1] # r
    BY <1>1, <1>2, <1>3, <1>4, <2>1 DEF Has, AtMostOne
  <2>2. ASSUME NEW i \in DOMAIN q, q[i] = r, q[1] # r
        PROVE  Has(u, r)
    <3>1. i - 1 \in 1 .. Len(q) - 1 /\ (i - 1) + 1 = i
      BY <1>1, <2>2
    <3>2. u[i - 1] = r /\ i - 1 \in DOMAIN u
      BY <1>2, <1>3, <2>2, <3>1
    <3> QED
      BY <3>2 DEF Has
  <2> QED
    BY <2>1, <2>2 DEF Has
<1>5. ASSUME AtMostOne(q, r)
      PROVE  AtMostOne(u, r)
  <2>1. \A k \in DOMAIN u : k + 1 \in DOMAIN q /\ u[k] = q[k + 1]
    BY <1>1, <1>2, <1>3
  <2>2. ASSUME NEW i \in DOMAIN u, NEW j \in DOMAIN u, u[i] = r, u[j] = r
        PROVE  i = j
    <3>1. i + 1 = j + 1
      BY <1>5, <2>1, <2>2 DEF AtMostOne
    <3> QED
      BY <1>1, <1>3, <2>2, <3>1
  <2> QED
    BY <2>2 DEF AtMostOne
<1>6. Head(q) = r => Has(q, r)
  BY <1>1 DEF Has
<1> QED
  BY <1>1, <1>4, <1>5, <1>6 DEF u

LEMMA HasErased ==
    ASSUME NEW S, NEW q \in Seq(S), NEW i \in DOMAIN q, NEW r, AtMostOne(q, r)
    PROVE  LET rest == RemoveAt(q, i) IN
           /\ Has(rest, r) <=> Has(q, r) /\ q[i] # r
           /\ AtMostOne(rest, r)
<1> DEFINE rest == SubSeq(q, 1, i - 1) \o SubSeq(q, i + 1, Len(q))
<1>1. /\ Len(q) \in Nat /\ i \in 1 .. Len(q) /\ DOMAIN q = 1 .. Len(q)
      /\ DOMAIN rest = 1 .. Len(q) - 1
      /\ \A n \in 1 .. i - 1 : rest[n] = q[n]
      /\ \A n \in i .. Len(q) - 1 : rest[n] = q[n + 1]
  BY EraseShifts
<1>2. \A k \in DOMAIN q : k # i => q[k] \in Range(rest)
  BY EraseKeepsOthers
<1> HIDE DEF rest
<1>3. \A n \in DOMAIN rest :
         \/ n < i /\ n \in DOMAIN q /\ rest[n] = q[n]
         \/ n >= i /\ n + 1 \in DOMAIN q /\ rest[n] = q[n + 1]
  BY <1>1
<1>4. Has(rest, r) => Has(q, r) /\ q[i] # r
  BY <1>1, <1>3 DEF Has, AtMostOne
<1>5. Has(q, r) /\ q[i] # r => Has(rest, r)
  BY <1>2 DEF Has, Range
<1>6. AtMostOne(rest, r)
  BY <1>1, <1>3 DEF AtMostOne
<1> QED
  BY <1>4, <1>5, <1>6 DEF rest, RemoveAt

LEMMA ErasedHas ==
    ASSUME NEW S, NEW q \in Seq(S), NEW i \in DOMAIN q, NEW r, Has(RemoveAt(q, i), r)
    PROVE  Has(q, r)
<1> DEFINE rest == SubSeq(q, 1, i - 1) \o SubSeq(q, i + 1, Len(q))
<1>1. /\ Len(q) \in Nat /\ i \in 1 .. Len(q) /\ DOMAIN q = 1 .. Len(q)
      /\ DOMAIN rest = 1 .. Len(q) - 1
      /\ \A n \in 1 .. i - 1 : rest[n] = q[n]
      /\ \A n \in i .. Len(q) - 1 : rest[n] = q[n + 1]
  BY EraseShifts
<1> HIDE DEF rest
<1>2. \A n \in DOMAIN rest : \E k \in DOMAIN q : rest[n] = q[k]
  BY <1>1
<1>3. Has(rest, r)
  BY DEF RemoveAt, rest
<1> QED
  BY <1>2, <1>3 DEF Has

LEMMA AnswersAppended ==
    ASSUME NEW S, NEW q \in Seq(S), NEW e \in S, NEW r
    PROVE  /\ HasAnswer(Append(q, e), r) <=> HasAnswer(q, r) \/ e.req = r
           /\ AtMostOneAnswer(q, r) /\ (e.req = r => ~ HasAnswer(q, r))
                 => AtMostOneAnswer(Append(q, e), r)
<1> DEFINE u == Append(q, e)
<1>1. Len(q) \in Nat /\ DOMAIN q = 1 .. Len(q)
  BY LenProperties
<1>2. /\ u \in Seq(S) /\ Len(u) = Len(q) + 1
      /\ \A k \in 1 .. Len(q) : u[k] = q[k]
      /\ u[Len(q) + 1] = e
  BY AppendProperties
<1> HIDE DEF u
<1>3. DOMAIN u = 1 .. Len(q) + 1
  BY <1>2, LenProperties
<1>4. HasAnswer(u, r) <=> HasAnswer(q, r) \/ e.req = r
  BY <1>1, <1>2, <1>3 DEF HasAnswer
<1>5. AtMostOneAnswer(q, r) /\ (e.req = r => ~ HasAnswer(q, r)) => AtMostOneAnswer(u, r)
  BY <1>1, <1>2, <1>3 DEF HasAnswer, AtMostOneAnswer
<1> QED
  BY <1>4, <1>5 DEF u

LEMMA AnswersTail ==
    ASSUME NEW S, NEW q \in Seq(S), q # <<>>, NEW r
    PROVE  /\ Head(q).req = r => HasAnswer(q, r)
           /\ AtMostOneAnswer(q, r) =>
                 /\ HasAnswer(Tail(q), r) <=> HasAnswer(q, r) /\ Head(q).req # r
                 /\ AtMostOneAnswer(Tail(q), r)
<1> DEFINE u == Tail(q)
<1>1. Len(q) \in Nat /\ DOMAIN q = 1 .. Len(q) /\ Len(q) > 0 /\ Head(q) = q[1]
  BY LenProperties, EmptySeq
<1>2. /\ u \in Seq(S) /\ Len(u) = Len(q) - 1
      /\ \A k \in 1 .. Len(q) - 1 : u[k] = q[k + 1]
  BY <1>1, HeadTailProperties
<1> HIDE DEF u
<1>3. DOMAIN u = 1 .. Len(q) - 1
  BY <1>2, LenProperties
<1>4. ASSUME AtMostOneAnswer(q, r)
      PROVE  HasAnswer(u, r) <=> HasAnswer(q, r) /\ q[1].req # r
  <2>1. ASSUME HasAnswer(u, r)
        PROVE  HasAnswer(q, r) /\ q[1].req # r
    BY <1>1, <1>2, <1>3, <1>4, <2>1 DEF HasAnswer, AtMostOneAnswer
  <2>2. ASSUME NEW i \in DOMAIN q, q[i].req = r, q[1].req # r
        PROVE  HasAnswer(u, r)
    <3>1. i - 1 \in 1 .. Len(q) - 1 /\ (i - 1) + 1 = i
      BY <1>1, <2>2
    <3>2. u[i - 1] = q[i] /\ i - 1 \in DOMAIN u
      BY <1>2, <1>3, <3>1
    <3> QED
      BY <2>2, <3>2 DEF HasAnswer
  <2> QED
    BY <2>1, <2>2 DEF HasAnswer
<1>5. ASSUME AtMostOneAnswer(q, r)
      PROVE  AtMostOneAnswer(u, r)
  <2>1. \A k \in DOMAIN u : k + 1 \in DOMAIN q /\ u[k] = q[k + 1]
    BY <1>1, <1>2, <1>3
  <2>2. ASSUME NEW i \in DOMAIN u, NEW j \in DOMAIN u, u[i].req = r, u[j].req = r
        PROVE  i = j
    <3>1. i + 1 = j + 1
      BY <1>5, <2>1, <2>2 DEF AtMostOneAnswer
    <3> QED
      BY <1>1, <1>3, <2>2, <3>1
  <2> QED
    BY <2>2 DEF AtMostOneAnswer
<1>6. Head(q).req = r => HasAnswer(q, r)
  BY <1>1 DEF HasAnswer
<1> QED
  BY <1>1, <1>4, <1>5, <1>6 DEF u

-------------------------------------------------------------------------------
(* What the server may have asked for *)

\* A thread that has no request at hand has forgotten the last one.
HandsEmpty ==
    /\ \A p \in Procs : ~ Busy(p) => job[p].req = NoRequest
    /\ pc[Main] \notin {"recut", "push"} => job[Main].req = NoRequest

\* What was asked for is asked for in the order of the protocol: the layout, then
\* hashes, and for a file to write, blocks that differ, then the end.
AskedInOrder ==
    /\ \A r \in srv.sent : r.kind # "layout" => Answered(LayoutRequest(1))
    /\ \A r \in srv.sent : r.kind = "hashes" => r \in HashRequests
    /\ \A r \in srv.sent :
          r.kind \in {"delete", "write", "data", "finish"} =>
              \A h \in HashRequests : Answered(h)
    /\ \A r \in srv.sent : r.kind \in {"write", "finish"} => r.index = 0
    /\ \A r \in srv.sent : r.kind = "data" => r \in DataRequests(r.path)
    /\ \A r \in srv.sent :
          r.kind \in {"data", "finish"} => Answered(Ask("write", r.path, 0))
    /\ \A r \in srv.sent :
          r.kind = "finish" => \A d \in DataRequests(r.path) : Answered(d)

\* Whoever asks is connected; who has lost the connection waits for nothing.
AskInv ==
    /\ srv.state # "idle" => srv.attempt = 1 /\ conn = "accepted" /\ AskedInOrder
    /\ srv.state = "idle" => srv.open = {}

-------------------------------------------------------------------------------
(* Where a request is *)

Held(r) == \E t \in Threads : job[t].req = r
HeldOnce(r) == \A t, u \in Threads : job[t].req = r /\ job[u].req = r => t = u

Somewhere(r) ==
    Has(queueReceived, r) \/ Has(pending, r) \/ Held(r) \/ HasAnswer(queueSend, r)

\* Nowhere twice.
NotTwice(r) ==
    /\ AtMostOne(queueReceived, r) /\ AtMostOne(pending, r)
    /\ HeldOnce(r) /\ AtMostOneAnswer(queueSend, r)
    /\ Has(queueReceived, r) => ~ Has(pending, r) /\ ~ Held(r) /\ ~ HasAnswer(queueSend, r)
    /\ Has(pending, r) => ~ Held(r) /\ ~ HasAnswer(queueSend, r)
    /\ Held(r) => ~ HasAnswer(queueSend, r)

\* The attempt has not begun, or goes on.
Live == srv.state # "idle" \/ srv.attempt = None

PlacesInv ==
    Live => \A r \in ServerRequests :
                r.kind \in Kinds => NotTwice(r) /\ (r \in srv.open <=> Somewhere(r))

-------------------------------------------------------------------------------
(* What the launcher relies on when blocks and the end of a file come *)

\* The file is being written.
WrittenAtPresent(p) ==
    p \in DOMAIN writeTasks /\ fileWrite[<<1, p>>].status = "processing"

\* The server relies on the file being written: it has sent blocks or the end, will send
\* them, or is about to be told that it may.
BlocksCome(p) ==
    \E r \in ServerRequests :
        r.kind \in {"data", "finish"} /\ r.path = p /\ Has(queueReceived, r)

BlocksWanted(p) ==
    srv.state = "work" /\ Answered(Ask("write", p, 0)) /\ Ask("finish", p, 0) \notin srv.sent

ToldToSend(p) ==
    \E w \in ServerRequests : w.kind = "write" /\ w.path = p /\ HasOk(queueSend, w)

AboutToTell(p) ==
    \E t \in Procs :
        job[t].req.kind = "write" /\ job[t].req.path = p /\ pc[t] # "write" /\ job[t].ok

Relied(p) == BlocksCome(p) \/ BlocksWanted(p) \/ ToldToSend(p) \/ AboutToTell(p)

WriteInv ==
    srv.state # "idle" =>
        /\ \A p \in Paths : Relied(p) => WrittenAtPresent(p)
        /\ \A r \in ServerRequests :
              r.kind = "write" /\ (Has(pending, r) \/ Held(r)) => r.path \in DOMAIN writeTasks

-------------------------------------------------------------------------------
(* The processors at work *)

\* A step of a task, but for the one that ends it.
AtWork(p) ==
    \/ ListFiles(p) \/ AddFileToLayout(p) \/ LayoutBuilt(p)
    \/ CalcFileBlockHashes(p) \/ StoreFileBlockHashes(p)
    \/ DeleteFile(p) \/ RemoveFileIfPresent(p)
    \/ WriteFile(p) \/ LookForFile(p) \/ OpenFile(p) \/ WriteBlock(p)
    \/ FinishWriteFile(p) \/ AddFile(p) \/ SetDirtyFileLayout(p)

LEMMA WorkGoesOn ==
    ASSUME Typed, NEW p \in Procs, AtWork(p)
    PROVE  /\ p \in Threads /\ p # Main /\ Busy(p) /\ Busy(p)'
           /\ \A t \in Threads : job'[t].req = job[t].req
           /\ \A t \in Threads \ {p} : pc'[t] = pc[t] /\ job'[t] = job[t]
           /\ UNCHANGED <<queueReceived, pending, queueSend, srv, conn, writeTasks>>
<1>1. /\ p \in Threads /\ p # Main
      /\ DOMAIN job[p] = DOMAIN NoJob /\ DOMAIN job = Threads /\ DOMAIN pc = Threads
  BY ThreadsAssumption DEF Threads, Typed, ThreadsTyped, IsJob
<1>2. UNCHANGED <<queueReceived, pending, queueSend, srv, conn, writeTasks>>
  <2>1. CASE ListFiles(p) \/ AddFileToLayout(p) \/ LayoutBuilt(p)
    BY <2>1 DEF ListFiles, AddFileToLayout, LayoutBuilt, queues, connection, writing
  <2>2. CASE CalcFileBlockHashes(p) \/ StoreFileBlockHashes(p)
             \/ DeleteFile(p) \/ RemoveFileIfPresent(p)
    BY <2>2 DEF CalcFileBlockHashes, StoreFileBlockHashes, DeleteFile, RemoveFileIfPresent,
                queues, connection, writing
  <2>3. CASE WriteFile(p) \/ LookForFile(p) \/ OpenFile(p) \/ WriteBlock(p)
    BY <2>3 DEF WriteFile, LookForFile, OpenFile, WriteBlock, queues, connection, writing
  <2>4. CASE FinishWriteFile(p) \/ AddFile(p) \/ SetDirtyFileLayout(p)
    BY <2>4 DEF FinishWriteFile, AddFile, SetDirtyFileLayout, queues, connection, writing
  <2> QED
    BY <2>1, <2>2, <2>3, <2>4 DEF AtWork
<1>3. Busy(p)
  BY DEF AtWork, ListFiles, AddFileToLayout, LayoutBuilt, CalcFileBlockHashes,
         StoreFileBlockHashes, DeleteFile, RemoveFileIfPresent, WriteFile, LookForFile,
         OpenFile, WriteBlock, FinishWriteFile, AddFile, SetDirtyFileLayout, Busy
<1>4. /\ \A t \in Threads \ {p} : pc'[t] = pc[t] /\ job'[t] = job[t]
      /\ pc'[p] \notin {"off", "idle"} /\ job'[p].req = job[p].req
  <2>1. CASE CalcFileBlockHashes(p) \/ StoreFileBlockHashes(p) \/ DeleteFile(p)
    BY <1>1, <2>1
       DEF CalcFileBlockHashes, StoreFileBlockHashes, DeleteFile, Succeeded, Failed, Went,
           Goto, NoJob
  <2>2. CASE WriteFile(p) \/ WriteBlock(p) \/ FinishWriteFile(p) \/ AddFile(p)
    BY <1>1, <2>2
       DEF WriteFile, WriteBlock, FinishWriteFile, AddFile, Succeeded, Failed, Went,
           Goto, NoJob
  <2>3. CASE RemoveFileIfPresent(p)
    BY <1>1, <2>3 DEF RemoveFileIfPresent, Continue, Goto
  <2>4. CASE LookForFile(p) \/ SetDirtyFileLayout(p)
    BY <1>1, <2>4 DEF LookForFile, SetDirtyFileLayout, Continue, Goto
  <2>5. CASE OpenFile(p)
    BY <1>1, <2>5 DEF OpenFile, Continue, Failed, Went, Goto, NoJob
  <2>6. CASE ListFiles(p) \/ LayoutBuilt(p)
    BY <1>1, <2>6 DEF ListFiles, LayoutBuilt, Went, Goto, NoJob
  <2>7. CASE AddFileToLayout(p)
    <3>1. /\ pc[p] = "hashing"
          /\ \/ \E path \in job[p].todo :
                   job' = [job EXCEPT ![p].todo = @ \ {path}] /\ UNCHANGED pc
             \/ Went(p, FALSE, "publish")
      BY <2>7 DEF AddFileToLayout
    <3> QED
      BY <1>1, <3>1 DEF Went, Goto, NoJob
  <2> QED
    BY <2>1, <2>2, <2>3, <2>4, <2>5, <2>6, <2>7 DEF AtWork
<1>5. Busy(p)'
  BY <1>4 DEF Busy
<1>6. \A t \in Threads : job'[t].req = job[t].req
  BY <1>4
<1> QED
  BY <1>1, <1>2, <1>3, <1>4, <1>5, <1>6

\* The steps that leave every request and the server where they are.
LEMMA ProcSteps ==
    ASSUME NEW p \in Procs, ProcStep(p)
    PROVE  TakeTask(p) \/ ExitRun(p) \/ SetFileLayout(p) \/ SendResponse(p) \/ AtWork(p)
BY DEF ProcStep, RunTaskStep, AtWork

-------------------------------------------------------------------------------
(* Hands are empty between two requests *)

LEMMA HandsEmptyKept ==
    ASSUME Typed, HandsEmpty, [Next]_vars
    PROVE  HandsEmpty'
<1>0. \A p \in Procs : p # Main /\ p \in Threads
  BY ThreadsAssumption DEF Threads
<1>1. CASE UNCHANGED vars
  BY <1>1 DEF vars, threads, HandsEmpty, Busy
<1>2. CASE ConnectTo
  <2>1. /\ job' = job /\ pc[Main] = "layout"
        /\ \A p \in Procs : ~ Busy(p)' => ~ Busy(p)
    BY <1>0, <1>2 DEF ConnectTo, Busy, Typed, ThreadsTyped
  <2> QED
    BY <2>1 DEF HandsEmpty
<1>3. CASE UpdateStep \/ NetworkStep \/ Disconnect \/ ConnectionClosed
  <2>1. \A p \in Procs : pc'[p] = pc[p] /\ job'[p] = job[p]
    BY <1>3, OthersMoveMain DEF Typed
  <2>2. pc'[Main] \notin {"recut", "push"} => job'[Main].req = NoRequest
    <3> USE DEF HandsEmpty, Goto, MainGoto, threads, Typed, ThreadsTyped
    <3>1. CASE Disconnect \/ ConnectionClosed \/ NetworkStep
      BY <3>1
         DEF Disconnect, ConnectionClosed, Close, NetworkStep, ConnectionEstablished,
             MessageReceivedConnect, MessageReceived
    <3>2. CASE UpdateLayoutChanged \/ OnFileLayoutChanged \/ SendQueuedMessages
               \/ ProcessRequestLayout \/ PutFileWithoutBlocks
      <4>1. CASE UpdateLayoutChanged
        BY <4>1, Zenon DEF UpdateLayoutChanged
      <4>2. CASE OnFileLayoutChanged \/ PutFileWithoutBlocks
        BY <4>2 DEF OnFileLayoutChanged, PutFileWithoutBlocks, Threads
      <4>3. CASE SendQueuedMessages \/ ProcessRequestLayout
        BY <4>3 DEF SendQueuedMessages, ProcessRequestLayout, Receives
      <4> QED
        BY <3>2, <4>1, <4>2, <4>3
    <3>3. CASE ProcessRequestFileBlockHashes \/ ProcessRequestWriteFile
      <4>1. pc[Main] = "receive" /\ (UNCHANGED threads \/ Goto(Main, "recut") \/ Goto(Main, "push"))
        BY <3>3 DEF ProcessRequestFileBlockHashes, ProcessRequestWriteFile, Receives
      <4> QED
        BY <4>1 DEF Threads
    <3>4. CASE AddPendingTask
      BY <3>4 DEF AddPendingTask, Threads, NoJob
    <3>5. CASE ProcessRequestDeleteFile \/ ProcessSendFileData \/ ProcessRequestFinishWriteFile
      BY <3>5
         DEF ProcessRequestDeleteFile, ProcessSendFileData, ProcessRequestFinishWriteFile,
             Receives
    <3>6. CASE NothingReceived \/ StopTaskProcessors \/ JoinTaskProcessors
      BY <3>6 DEF NothingReceived, StopTaskProcessors, JoinTaskProcessors
    <3> QED
      BY <1>3, <3>1, <3>2, <3>3, <3>4, <3>5, <3>6 DEF UpdateStep
  <2> QED
    BY <2>1, <2>2 DEF HandsEmpty, Busy
<1>4. ASSUME NEW p \in Procs, ProcStep(p)
      PROVE  HandsEmpty'
  <2>1. CASE AtWork(p)
    BY <1>0, <2>1, WorkGoesOn DEF HandsEmpty, Busy, Threads
  <2>2. CASE ExitRun(p)
    BY <1>0, <2>2 DEF ExitRun, Continue, Goto, HandsEmpty, Busy, Typed, ThreadsTyped
  <2>3. CASE SetFileLayout(p) \/ SendResponse(p)
    BY <1>0, <2>3
       DEF SetFileLayout, SendResponse, Return, Goto, HandsEmpty, Busy, Typed, ThreadsTyped,
           NoJob, Threads
  <2>4. CASE TakeTask(p)
    <3>1. PICK i \in DOMAIN pending :
             /\ pc' = [pc EXCEPT ![p] = pending[i].kind]
             /\ job' = [job EXCEPT ![p] = JobOf(pending[i])]
      BY <2>4, Zenon DEF TakeTask, Goto
    <3>2. pending[i].kind \in Kinds \cup {"layout"}
      BY EraseFromSequence, RequestFields DEF Typed, QueuesTyped
    <3> QED
      BY <1>0, <3>1, <3>2 DEF HandsEmpty, Busy, Kinds, Typed, ThreadsTyped, Threads
  <2> QED
    BY <1>4, <2>1, <2>2, <2>3, <2>4, ProcSteps
<1> QED
  BY <1>1, <1>2, <1>3, <1>4 DEF Next

-------------------------------------------------------------------------------
(* The server asks in order *)

\* There is one attempt.
LEMMA OneAttempt ==
    ASSUME MaxAttempts = 1, NEW r \in ServerRequests
    PROVE  /\ r.at = 1
           /\ r = Request(r.kind, 1, r.path, r.index)
           /\ r.kind = "layout" => r = LayoutRequest(1)
<1>1. r.at = 1 /\ r = Request(r.kind, 1, r.path, r.index)
  BY RequestFields DEF Attempts
<1>2. r.kind = "layout" => r = LayoutRequest(1)
  BY <1>1 DEF ServerRequests, Requests, LayoutRequest, Request, Kinds
<1> QED
  BY <1>1, <1>2

LEMMA WantedKept ==
    /\ srv'.layout = srv.layout /\ srv'.attempt = srv.attempt => HashRequests' = HashRequests
    /\ srv'.layout = srv.layout /\ srv'.attempt = srv.attempt /\ srv'.hashes = srv.hashes
           => \A p : DataRequests(p)' = DataRequests(p)
    /\ \A k, p, i : srv'.attempt = srv.attempt => Ask(k, p, i)' = Ask(k, p, i)
BY DEF HashRequests, DataRequests, HashPaths, WritePaths, WriteBlocks, SameSize, SyncedDir, Ask

\* What the requests an answer is for are.
Matching(m) ==
    {r \in srv.open : r.kind = m.req.kind /\ r.path = m.req.path /\ r.index = m.req.index}

LEMMA AnswerEffect ==
    ASSUME ServerTyped, NEW m, srv' = AnswerReceived(m)
    PROVE  /\ srv'.attempt = srv.attempt /\ srv'.sent = srv.sent
           /\ srv'.open = srv.open \ Matching(m)
           /\ srv'.state = srv.state \/ (srv'.state = "failed" /\ Matching(m) # {})
           /\ Matching(m) # {} /\ ~ m.ok /\ m.req.kind # "hashes" => srv'.state = "failed"
           /\ srv'.layout = srv.layout \/ (m.req.kind = "layout" /\ Matching(m) # {})
           /\ srv'.hashes = srv.hashes \/ (m.req.kind = "hashes" /\ Matching(m) # {})
<1>1. DOMAIN srv = {"attempt", "state", "layout", "hashes", "sent", "open"}
  BY DEF ServerTyped, NewServer
<1>2. CASE Matching(m) = {}
  <2>1. srv' = srv
    BY <1>2, Zenon DEF AnswerReceived, Matching
  <2>2. srv.open \ Matching(m) = srv.open
    BY <1>2
  <2> QED
    BY <1>2, <2>1, <2>2
<1>3. CASE Matching(m) # {}
  <2>1. srv' = [srv EXCEPT
                  !.open = @ \ Matching(m),
                  !.state = IF m.ok \/ m.req.kind = "hashes" THEN @ ELSE "failed",
                  !.layout = IF m.req.kind = "layout" THEN m.body ELSE @,
                  !.hashes = IF m.req.kind = "hashes" THEN With(@, m.req.path, m.body)
                                                      ELSE @]
    BY <1>3, Zenon DEF AnswerReceived, Matching
  <2> DEFINE M == Matching(m)
  <2> HIDE DEF M
  <2>2. /\ srv'.attempt = srv.attempt /\ srv'.sent = srv.sent
        /\ srv'.open = srv.open \ M
        /\ srv'.state = IF m.ok \/ m.req.kind = "hashes" THEN srv.state ELSE "failed"
        /\ srv'.layout = IF m.req.kind = "layout" THEN m.body ELSE srv.layout
        /\ srv'.hashes = IF m.req.kind = "hashes" THEN With(srv.hashes, m.req.path, m.body)
                                                  ELSE srv.hashes
    BY <1>1, <2>1 DEF M
  <2> QED
    BY <1>3, <2>2 DEF M
<1> QED
  BY <1>2, <1>3

LEMMA AnswerKeepsOrder ==
    ASSUME MaxAttempts = 1, ServerTyped, AskInv, srv.state # "idle", NEW m,
           srv' = AnswerReceived(m)
    PROVE  AskedInOrder'
<1>1. AskedInOrder /\ srv.attempt = 1
  BY DEF AskInv
<1>2. /\ srv'.attempt = 1 /\ srv'.sent = srv.sent
      /\ srv'.open \subseteq srv.open
      /\ srv'.layout = srv.layout \/ (m.req.kind = "layout" /\ Matching(m) # {})
      /\ srv'.hashes = srv.hashes \/ (m.req.kind = "hashes" /\ Matching(m) # {})
  BY <1>1, AnswerEffect
<1>3. \A x : Answered(x) => Answered(x)'
  BY <1>2 DEF Answered
<1>4. \A x \in srv.open : ~ Answered(x) /\ x \in ServerRequests /\ x \in srv.sent
  BY DEF Answered, ServerTyped
<1>5. \A k, p, i : Ask(k, p, i)' = Ask(k, p, i)
  BY <1>1, <1>2, WantedKept
<1>6. CASE m.req.kind = "layout" /\ Matching(m) # {}
  <2>1. LayoutRequest(1) \in srv.open
    BY <1>4, <1>6, OneAttempt DEF Matching
  <2>2. \A r \in srv.sent : r.kind = "layout"
    BY <1>1, <1>4, <2>1 DEF AskedInOrder
  <2> QED
    BY <1>2, <2>2 DEF AskedInOrder
<1>7. CASE srv'.layout = srv.layout /\ m.req.kind = "hashes" /\ Matching(m) # {}
  <2>1. PICK h \in srv.open : h.kind = "hashes"
    BY <1>7 DEF Matching
  <2>2. h \in HashRequests /\ ~ Answered(h)
    BY <1>1, <1>4, <2>1 DEF AskedInOrder
  <2>3. \A r \in srv.sent : r.kind \notin {"delete", "write", "data", "finish"}
    BY <1>1, <2>2 DEF AskedInOrder
  <2>4. HashRequests' = HashRequests
    BY <1>1, <1>2, <1>7, WantedKept
  <2>5. /\ \A r \in srv.sent : r.kind # "layout" => Answered(LayoutRequest(1))'
        /\ \A r \in srv.sent : r.kind = "hashes" => r \in HashRequests'
    BY <1>1, <1>3, <2>4 DEF AskedInOrder
  <2> QED
    BY <1>2, <2>3, <2>5 DEF AskedInOrder
<1>8. CASE srv'.layout = srv.layout /\ srv'.hashes = srv.hashes
  <2>1. HashRequests' = HashRequests /\ \A p : DataRequests(p)' = DataRequests(p)
    BY <1>1, <1>2, <1>8, WantedKept
  <2> QED
    BY <1>1, <1>2, <1>3, <1>5, <2>1 DEF AskedInOrder
<1> QED
  BY <1>2, <1>6, <1>7, <1>8

\* A request the server may want, by its kind.
LEMMA WantedByKind ==
    ASSUME NEW r \in WantedRequests
    PROVE  /\ Answered(LayoutRequest(srv.attempt))
           /\ r.kind \in {"hashes", "delete", "write", "data", "finish"}
           /\ r.kind = "hashes" => r \in HashRequests
           /\ r.kind # "hashes" => \A h \in HashRequests : Answered(h)
           /\ r.kind \in {"write", "finish"} => r.index = 0
           /\ r.kind = "data" => r \in DataRequests(r.path)
           /\ r.kind \in {"data", "finish"} => Answered(Ask("write", r.path, 0))
           /\ r.kind = "finish" => \A d \in DataRequests(r.path) : Answered(d)
<1>1. Answered(LayoutRequest(srv.attempt))
  BY DEF WantedRequests
<1>2. CASE r \in HashRequests
  BY <1>1, <1>2 DEF HashRequests, Ask, Request
<1>3. CASE r \notin HashRequests
  <2>1. /\ \A h \in HashRequests : Answered(h)
        /\ \/ r \in {Ask("delete", p, 0) : p \in DeletePaths}
           \/ \E p \in WritePaths : r \in FileRequests(p)
    BY <1>1, <1>3, Zenon DEF WantedRequests
  <2>2. CASE r \in {Ask("delete", p, 0) : p \in DeletePaths}
    BY <1>1, <2>1, <2>2 DEF Ask, Request
  <2>3. ASSUME NEW p \in WritePaths, r \in FileRequests(p)
        PROVE  /\ r.kind \in {"write", "data", "finish"} /\ r.path = p
               /\ r.kind \in {"write", "finish"} => r.index = 0
               /\ r.kind = "data" => r \in DataRequests(p)
               /\ r.kind \in {"data", "finish"} => Answered(Ask("write", p, 0))
               /\ r.kind = "finish" => \A d \in DataRequests(p) : Answered(d)
    <3>1. \/ r = Ask("write", p, 0)
          \/ r \in DataRequests(p) /\ Answered(Ask("write", p, 0))
          \/ /\ r = Ask("finish", p, 0)
             /\ Answered(Ask("write", p, 0))
             /\ \A d \in DataRequests(p) : Answered(d)
      BY <2>3, Zenon DEF FileRequests
    <3>2. ASSUME r \in DataRequests(p)
          PROVE  r.kind = "data" /\ r.path = p
      BY <3>2 DEF DataRequests, Ask, Request
    <3>3. CASE r = Ask("write", p, 0)
      BY <3>3 DEF Ask, Request
    <3>4. CASE r \in DataRequests(p) /\ Answered(Ask("write", p, 0))
      BY <3>2, <3>4
    <3>5. CASE /\ r = Ask("finish", p, 0)
               /\ Answered(Ask("write", p, 0))
               /\ \A d \in DataRequests(p) : Answered(d)
      <4>1. r.kind = "finish" /\ r.path = p /\ r.index = 0
        BY <3>5 DEF Ask, Request
      <4> QED
        BY <3>5, <4>1
    <3> QED
      BY <3>1, <3>3, <3>4, <3>5
  <2> QED
    BY <1>1, <2>1, <2>2, <2>3
<1> QED
  BY <1>2, <1>3

\* One request more.
Asks(r) ==
    /\ r \in WantedRequests /\ r \notin srv.sent
    /\ srv.state = "work"
    /\ queueReceived' = Append(queueReceived, r)
    /\ srv'.state = "work"
    /\ srv'.attempt = srv.attempt
    /\ srv'.layout = srv.layout /\ srv'.hashes = srv.hashes
    /\ srv'.sent = srv.sent \cup {r} /\ srv'.open = srv.open \cup {r}

LEMMA SendsOne ==
    ASSUME ServerTyped, SendRequest
    PROVE  \E r : Asks(r)
<1>1. PICK r \in WantedRequests \ srv.sent :
          /\ srv' = [srv EXCEPT !.sent = @ \cup {r}, !.open = @ \cup {r}]
          /\ queueReceived' = Append(queueReceived, r)
  BY DEF SendRequest
<1>2. DOMAIN srv = {"attempt", "state", "layout", "hashes", "sent", "open"}
  BY DEF ServerTyped, NewServer
<1>3. Asks(r)
  BY <1>1, <1>2 DEF Asks, SendRequest
<1> QED
  BY <1>3

LEMMA AskKeepsOrder ==
    ASSUME ServerTyped, srv.attempt = 1, AskedInOrder, NEW r, Asks(r)
    PROVE  AskedInOrder'
<1>1. /\ HashRequests' = HashRequests /\ \A p : DataRequests(p)' = DataRequests(p)
      /\ \A k, p, i : Ask(k, p, i)' = Ask(k, p, i)
  BY WantedKept DEF Asks
<1>2. \A x : Answered(x) => Answered(x)'
  BY DEF Answered, Asks
<1>3. /\ Answered(LayoutRequest(1))
      /\ r.kind = "hashes" => r \in HashRequests
      /\ r.kind # "hashes" => \A h \in HashRequests : Answered(h)
      /\ r.kind \in {"write", "finish"} => r.index = 0
      /\ r.kind = "data" => r \in DataRequests(r.path)
      /\ r.kind \in {"data", "finish"} => Answered(Ask("write", r.path, 0))
      /\ r.kind = "finish" => \A d \in DataRequests(r.path) : Answered(d)
  BY WantedByKind DEF Asks
<1>4. srv'.sent = srv.sent \cup {r}
  BY DEF Asks
<1> QED
  BY <1>1, <1>2, <1>3, <1>4 DEF AskedInOrder

\* The attempt begins.
LEMMA BeginsOne ==
    ASSUME ServerTyped, MaxAttempts = 1, BeginAttempt
    PROVE  /\ srv.attempt = 0
           /\ queueReceived' = Append(queueReceived, LayoutRequest(1))
           /\ srv'.state = "work" /\ srv'.attempt = 1
           /\ srv'.sent = {LayoutRequest(1)} /\ srv'.open = {LayoutRequest(1)}
<1>1. srv.attempt = 0
  BY DEF ServerTyped, BeginAttempt
<1> QED
  BY <1>1 DEF BeginAttempt, NewServer

\* Most steps have nothing to do with the server.
LEMMA ServerLeftAlone ==
    ASSUME Typed, [Next]_vars
    PROVE  \/ UNCHANGED <<srv, conn>>
           \/ ConnectTo \/ Disconnect \/ ConnectionClosed
           \/ SendQueuedMessages \/ NetworkStep
<1>1. CASE UNCHANGED vars
  BY <1>1 DEF vars, connection
<1>2. CASE UpdateStep
  <2>1. CASE UpdateLayoutChanged \/ OnFileLayoutChanged \/ ProcessRequestLayout
             \/ ProcessRequestFileBlockHashes \/ PutFileWithoutBlocks
    BY <2>1
       DEF UpdateLayoutChanged, OnFileLayoutChanged, ProcessRequestLayout,
           ProcessRequestFileBlockHashes, PutFileWithoutBlocks, connection
  <2>2. CASE AddPendingTask \/ ProcessRequestDeleteFile \/ ProcessRequestWriteFile
             \/ ProcessSendFileData \/ ProcessRequestFinishWriteFile
    BY <2>2
       DEF AddPendingTask, ProcessRequestDeleteFile, ProcessRequestWriteFile,
           ProcessSendFileData, ProcessRequestFinishWriteFile, connection
  <2>3. CASE NothingReceived \/ StopTaskProcessors \/ JoinTaskProcessors
    BY <2>3 DEF NothingReceived, StopTaskProcessors, JoinTaskProcessors, connection
  <2> QED
    BY <1>2, <2>1, <2>2, <2>3 DEF UpdateStep
<1>3. ASSUME NEW p \in Procs, ProcStep(p)
      PROVE  UNCHANGED <<srv, conn>>
  <2>1. CASE TakeTask(p) \/ ExitRun(p) \/ SetFileLayout(p) \/ SendResponse(p)
    BY <2>1 DEF TakeTask, ExitRun, SetFileLayout, SendResponse, connection
  <2>2. CASE AtWork(p)
    BY <2>2, WorkGoesOn
  <2> QED
    BY <1>3, <2>1, <2>2, ProcSteps
<1> QED
  BY <1>1, <1>2, <1>3 DEF Next

LEMMA CloseResets ==
    ASSUME Disconnect \/ ConnectionClosed
    PROVE  /\ conn' = "disconnected"
           /\ srv'.state = "idle" /\ srv'.attempt = srv.attempt
           /\ srv'.open = {} /\ srv'.sent = {}
BY DEF Disconnect, ConnectionClosed, Close, NewServer

LEMMA AskInvKept ==
    ASSUME MaxAttempts = 1, Typed, AskInv, [Next]_vars
    PROVE  AskInv'
<1>1. CASE UNCHANGED <<srv, conn>>
  <2>1. /\ HashRequests' = HashRequests /\ \A p : DataRequests(p)' = DataRequests(p)
        /\ \A k, p, i : Ask(k, p, i)' = Ask(k, p, i)
    BY <1>1, WantedKept
  <2>2. \A x : Answered(x)' <=> Answered(x)
    BY <1>1 DEF Answered
  <2>3. AskedInOrder => AskedInOrder'
    BY <1>1, <2>1, <2>2 DEF AskedInOrder
  <2> QED
    BY <1>1, <2>3 DEF AskInv
<1>2. CASE ConnectTo
  BY <1>2 DEF ConnectTo, AskInv
<1>3. CASE Disconnect \/ ConnectionClosed
  BY <1>3, CloseResets DEF AskInv
<1>4. CASE SendQueuedMessages
  <2>1. CASE UNCHANGED srv
    BY <1>1, <1>4, <2>1 DEF SendQueuedMessages, connection
  <2>2. CASE srv' # srv
    <3>1. /\ srv' = AnswerReceived(Head(queueSend)) /\ conn' = conn
          /\ ServerTyped
      BY <1>4, <2>2 DEF SendQueuedMessages, connection, Typed
    <3>2. /\ srv'.attempt = srv.attempt /\ srv'.open \subseteq srv.open
          /\ srv.state = "idle" => srv'.state = "idle" \/ Matching(Head(queueSend)) # {}
      BY <3>1, AnswerEffect
    <3>3. CASE srv.state # "idle"
      <4>1. srv'.state # "idle"
        BY <3>1, <3>3, AnswerEffect
      <4> QED
        BY <3>1, <3>2, <3>3, <4>1, AnswerKeepsOrder DEF AskInv
    <3>4. CASE srv.state = "idle"
      <4>1. Matching(Head(queueSend)) = {}
        BY <3>4 DEF AskInv, Matching
      <4> QED
        BY <3>2, <3>4, <4>1 DEF AskInv
    <3> QED
      BY <3>3, <3>4
  <2> QED
    BY <2>1, <2>2
<1>5. CASE NetworkStep
  <2>1. CASE ConnectionEstablished \/ MessageReceivedConnect
    BY <2>1 DEF ConnectionEstablished, MessageReceivedConnect, AskInv
  <2>2. CASE MessageReceived /\ BeginAttempt
    <3>1. /\ srv'.state = "work" /\ srv'.attempt = 1 /\ srv'.sent = {LayoutRequest(1)}
          /\ conn' = "accepted"
      BY <2>2, BeginsOne DEF Typed, MessageReceived, connection
    <3>2. LayoutRequest(1).kind = "layout"
      BY DEF LayoutRequest, Request
    <3> QED
      BY <3>1, <3>2 DEF AskInv, AskedInOrder
  <2>3. CASE MessageReceived /\ SendRequest
    <3>1. PICK r : Asks(r)
      BY <2>3, SendsOne DEF Typed
    <3>2. srv.attempt = 1 /\ AskedInOrder /\ conn' = "accepted"
      BY <2>3, <3>1 DEF AskInv, Asks, MessageReceived, connection
    <3> QED
      BY <3>1, <3>2, AskKeepsOrder DEF Asks, AskInv, Typed
  <2> QED
    BY <1>5, <2>1, <2>2, <2>3 DEF NetworkStep, MessageReceived
<1> QED
  BY <1>1, <1>2, <1>3, <1>4, <1>5, ServerLeftAlone

-------------------------------------------------------------------------------
(* How requests move *)

\* A request about a file, and not one for the layout.
FileRequest(r) == r \in ServerRequests /\ r.kind \in Kinds

LEMMA TakenInHand ==
    ASSUME NEW t \in Threads, NEW x, job[t].req = NoRequest, job'[t].req = x,
           \A u \in Threads \ {t} : job'[u].req = job[u].req,
           NEW r, FileRequest(r)
    PROVE  /\ Held(r)' <=> Held(r) \/ x = r
           /\ HeldOnce(r) /\ (x = r => ~ Held(r)) => HeldOnce(r)'
<1>1. r # NoRequest
  BY DEF FileRequest, NoRequest, Request, Kinds
<1> QED
  BY <1>1 DEF Held, HeldOnce

LEMMA LetGo ==
    ASSUME NEW t \in Threads, job'[t].req = NoRequest,
           \A u \in Threads \ {t} : job'[u].req = job[u].req,
           NEW r, FileRequest(r)
    PROVE  /\ job[t].req = r => Held(r)
           /\ HeldOnce(r) => (Held(r)' <=> Held(r) /\ job[t].req # r) /\ HeldOnce(r)'
<1>1. r # NoRequest
  BY DEF FileRequest, NoRequest, Request, Kinds
<1> QED
  BY <1>1 DEF Held, HeldOnce

HandsKept == \A t \in Threads : job'[t].req = job[t].req

LEMMA HeldKept ==
    ASSUME HandsKept, NEW r
    PROVE  (Held(r)' <=> Held(r)) /\ (HeldOnce(r)' <=> HeldOnce(r))
BY DEF HandsKept, Held, HeldOnce

\* What a step has to do to every request about a file.
Kept(r) == NotTwice(r)' /\ (Somewhere(r)' <=> Somewhere(r))

LEMMA NothingMoved ==
    ASSUME UNCHANGED <<queueReceived, pending, queueSend>>, HandsKept, NEW r, NotTwice(r)
    PROVE  Kept(r)
BY HeldKept DEF Kept, NotTwice, Somewhere

LEMMA ReceivedToPending ==
    ASSUME QueuesTyped, queueReceived # <<>>, queueReceived' = Tail(queueReceived),
           pending' = Append(pending, Head(queueReceived)),
           UNCHANGED queueSend, HandsKept, NEW r, NotTwice(r)
    PROVE  Kept(r)
<1> DEFINE x == Head(queueReceived)
<1>1. x \in ServerRequests
  BY HeadTailProperties DEF QueuesTyped
<1>2. /\ x = r => Has(queueReceived, r)
      /\ AtMostOne(queueReceived, r) =>
            /\ Has(queueReceived', r) <=> Has(queueReceived, r) /\ x # r
            /\ AtMostOne(queueReceived', r)
  BY HasTail DEF QueuesTyped
<1>3. /\ Has(pending', r) <=> Has(pending, r) \/ x = r
      /\ AtMostOne(pending, r) /\ (x = r => ~ Has(pending, r)) => AtMostOne(pending', r)
  BY <1>1, HasAppended DEF QueuesTyped
<1>4. /\ Held(r)' <=> Held(r)
      /\ HeldOnce(r)' <=> HeldOnce(r)
  BY HeldKept
<1> HIDE DEF x
<1> QED
  BY <1>2, <1>3, <1>4 DEF Kept, NotTwice, Somewhere

LEMMA ReceivedToHand ==
    ASSUME QueuesTyped, queueReceived # <<>>, queueReceived' = Tail(queueReceived),
           job[Main].req = NoRequest, job'[Main].req = Head(queueReceived),
           \A u \in Threads \ {Main} : job'[u].req = job[u].req,
           UNCHANGED <<pending, queueSend>>, NEW r, FileRequest(r), NotTwice(r)
    PROVE  Kept(r)
<1> DEFINE x == Head(queueReceived)
<1>1. Main \in Threads
  BY DEF Threads
<1>2. /\ x = r => Has(queueReceived, r)
      /\ AtMostOne(queueReceived, r) =>
            /\ Has(queueReceived', r) <=> Has(queueReceived, r) /\ x # r
            /\ AtMostOne(queueReceived', r)
  BY HasTail DEF QueuesTyped
<1>3. /\ Held(r)' <=> Held(r) \/ x = r
      /\ HeldOnce(r) /\ (x = r => ~ Held(r)) => HeldOnce(r)'
  BY <1>1, TakenInHand
<1> HIDE DEF x
<1> QED
  BY <1>2, <1>3 DEF Kept, NotTwice, Somewhere

LEMMA ReceivedToAnswers ==
    ASSUME QueuesTyped, queueReceived # <<>>, queueReceived' = Tail(queueReceived),
           NEW m, m.req = Head(queueReceived), queueSend' = Append(queueSend, m),
           UNCHANGED pending, HandsKept, NEW r, NotTwice(r)
    PROVE  Kept(r)
<1> DEFINE x == Head(queueReceived)
<1>1. /\ x = r => Has(queueReceived, r)
      /\ AtMostOne(queueReceived, r) =>
            /\ Has(queueReceived', r) <=> Has(queueReceived, r) /\ x # r
            /\ AtMostOne(queueReceived', r)
  BY HasTail DEF QueuesTyped
<1>2. /\ HasAnswer(queueSend', r) <=> HasAnswer(queueSend, r) \/ x = r
      /\ AtMostOneAnswer(queueSend, r) /\ (x = r => ~ HasAnswer(queueSend, r))
            => AtMostOneAnswer(queueSend', r)
  <2> DEFINE S == Range(queueSend) \cup {m}
  <2>1. queueSend \in Seq(S) /\ m \in S
    BY SeqMonotonic DEF QueuesTyped
  <2> HIDE DEF S
  <2> QED
    BY <2>1, AnswersAppended
<1>3. /\ Held(r)' <=> Held(r)
      /\ HeldOnce(r)' <=> HeldOnce(r)
  BY HeldKept
<1> HIDE DEF x
<1> QED
  BY <1>1, <1>2, <1>3 DEF Kept, NotTwice, Somewhere

LEMMA HandToPending ==
    ASSUME QueuesTyped, job[Main].req \in ServerRequests, job'[Main].req = NoRequest,
           \A u \in Threads \ {Main} : job'[u].req = job[u].req,
           pending' = Append(pending, job[Main].req),
           UNCHANGED <<queueReceived, queueSend>>, NEW r, FileRequest(r), NotTwice(r)
    PROVE  Kept(r)
<1> DEFINE x == job[Main].req
<1>1. Main \in Threads
  BY DEF Threads
<1>2. /\ x = r => Held(r)
      /\ HeldOnce(r) => (Held(r)' <=> Held(r) /\ x # r) /\ HeldOnce(r)'
  BY <1>1, LetGo
<1>3. /\ Has(pending', r) <=> Has(pending, r) \/ x = r
      /\ AtMostOne(pending, r) /\ (x = r => ~ Has(pending, r)) => AtMostOne(pending', r)
  BY HasAppended DEF QueuesTyped
<1> HIDE DEF x
<1> QED
  BY <1>2, <1>3 DEF Kept, NotTwice, Somewhere

LEMMA PendingToHand ==
    ASSUME QueuesTyped, NEW t \in Threads, NEW i \in DOMAIN pending,
           pending' = RemoveAt(pending, i),
           job[t].req = NoRequest, job'[t].req = pending[i],
           \A u \in Threads \ {t} : job'[u].req = job[u].req,
           UNCHANGED <<queueReceived, queueSend>>, NEW r, FileRequest(r), NotTwice(r)
    PROVE  Kept(r)
<1> DEFINE x == pending[i]
<1>1. /\ x = r => Has(pending, r)
      /\ Has(pending', r) <=> Has(pending, r) /\ x # r
      /\ AtMostOne(pending', r)
  <2>1. AtMostOne(pending, r)
    BY DEF NotTwice
  <2> QED
    BY <2>1, HasErased DEF QueuesTyped, Has
<1>2. /\ Held(r)' <=> Held(r) \/ x = r
      /\ HeldOnce(r) /\ (x = r => ~ Held(r)) => HeldOnce(r)'
  BY TakenInHand
<1> HIDE DEF x
<1> QED
  BY <1>1, <1>2 DEF Kept, NotTwice, Somewhere

LEMMA HandToAnswers ==
    ASSUME QueuesTyped, NEW t \in Threads, job'[t].req = NoRequest,
           \A u \in Threads \ {t} : job'[u].req = job[u].req,
           NEW m, m.req = job[t].req, queueSend' = Append(queueSend, m),
           UNCHANGED <<queueReceived, pending>>, NEW r, FileRequest(r), NotTwice(r)
    PROVE  Kept(r)
<1> DEFINE x == job[t].req
<1>1. /\ x = r => Held(r)
      /\ HeldOnce(r) => (Held(r)' <=> Held(r) /\ x # r) /\ HeldOnce(r)'
  BY LetGo
<1>2. /\ HasAnswer(queueSend', r) <=> HasAnswer(queueSend, r) \/ x = r
      /\ AtMostOneAnswer(queueSend, r) /\ (x = r => ~ HasAnswer(queueSend, r))
            => AtMostOneAnswer(queueSend', r)
  <2> DEFINE S == Range(queueSend) \cup {m}
  <2>1. queueSend \in Seq(S) /\ m \in S
    BY SeqMonotonic DEF QueuesTyped
  <2> HIDE DEF S
  <2> QED
    BY <2>1, AnswersAppended
<1> HIDE DEF x
<1> QED
  BY <1>1, <1>2 DEF Kept, NotTwice, Somewhere

-------------------------------------------------------------------------------
(* The requests stay in their places *)

LEMMA PlacesKept ==
    ASSUME PlacesInv, UNCHANGED srv,
           Live => \A r : FileRequest(r) /\ NotTwice(r) => Kept(r)
    PROVE  PlacesInv'
BY DEF PlacesInv, Live, Kept, FileRequest

LEMMA LayoutMoved ==
    ASSUME QueuesTyped, NEW e, NEW m, e.kind = "layout", m.req.kind = "layout",
           pending' \in {pending, Append(pending, e)},
           queueSend' \in {queueSend, Append(queueSend, m)},
           UNCHANGED queueReceived, HandsKept, NEW r, FileRequest(r), NotTwice(r)
    PROVE  Kept(r)
<1>1. e # r /\ m.req # r
  BY DEF FileRequest, Kinds
<1>2. /\ Has(Append(pending, e), r) <=> Has(pending, r)
      /\ AtMostOne(pending, r) => AtMostOne(Append(pending, e), r)
  <2> DEFINE S == ServerRequests \cup {e}
  <2>1. pending \in Seq(S) /\ e \in S
    BY SeqMonotonic DEF QueuesTyped
  <2> HIDE DEF S
  <2> QED
    BY <1>1, <2>1, HasAppended
<1>3. /\ HasAnswer(Append(queueSend, m), r) <=> HasAnswer(queueSend, r)
      /\ AtMostOneAnswer(queueSend, r) => AtMostOneAnswer(Append(queueSend, m), r)
  <2> DEFINE S == Range(queueSend) \cup {m}
  <2>1. queueSend \in Seq(S) /\ m \in S
    BY SeqMonotonic DEF QueuesTyped
  <2> HIDE DEF S
  <2> QED
    BY <1>1, <2>1, AnswersAppended
<1>4. /\ Held(r)' <=> Held(r)
      /\ HeldOnce(r)' <=> HeldOnce(r)
  BY HeldKept
<1>5. /\ Has(pending', r) <=> Has(pending, r)
      /\ AtMostOne(pending, r) => AtMostOne(pending', r)
  BY <1>2
<1>6. /\ HasAnswer(queueSend', r) <=> HasAnswer(queueSend, r)
      /\ AtMostOneAnswer(queueSend, r) => AtMostOneAnswer(queueSend', r)
  BY <1>3
<1> QED
  BY <1>4, <1>5, <1>6 DEF Kept, NotTwice, Somewhere

LEMMA LayoutReceived ==
    ASSUME QueuesTyped, queueReceived # <<>>, Head(queueReceived).kind = "layout",
           queueReceived' = Tail(queueReceived),
           pending' \in {pending, Append(pending, Head(queueReceived))},
           NEW m, m.req = Head(queueReceived), queueSend' \in {queueSend, Append(queueSend, m)},
           HandsKept, NEW r, FileRequest(r), NotTwice(r)
    PROVE  Kept(r)
<1> DEFINE e == Head(queueReceived)
<1>1. e # r /\ m.req = e
  BY DEF FileRequest, Kinds
<1>2. /\ Has(queueReceived', r) <=> Has(queueReceived, r)
      /\ AtMostOne(queueReceived', r)
  BY <1>1, HasTail DEF QueuesTyped, NotTwice
<1>3. e \in ServerRequests
  BY HeadTailProperties DEF QueuesTyped
<1>4. /\ Has(Append(pending, e), r) <=> Has(pending, r)
      /\ AtMostOne(pending, r) => AtMostOne(Append(pending, e), r)
  BY <1>1, <1>3, HasAppended DEF QueuesTyped
<1>5. /\ HasAnswer(Append(queueSend, m), r) <=> HasAnswer(queueSend, r)
      /\ AtMostOneAnswer(queueSend, r) => AtMostOneAnswer(Append(queueSend, m), r)
  <2> DEFINE S == Range(queueSend) \cup {m}
  <2>1. queueSend \in Seq(S) /\ m \in S
    BY SeqMonotonic DEF QueuesTyped
  <2> HIDE DEF S
  <2> QED
    BY <1>1, <2>1, AnswersAppended
<1>6. /\ Held(r)' <=> Held(r)
      /\ HeldOnce(r)' <=> HeldOnce(r)
  BY HeldKept
<1>7. /\ Has(pending', r) <=> Has(pending, r)
      /\ AtMostOne(pending, r) => AtMostOne(pending', r)
  BY <1>4
<1>8. /\ HasAnswer(queueSend', r) <=> HasAnswer(queueSend, r)
      /\ AtMostOneAnswer(queueSend, r) => AtMostOneAnswer(queueSend', r)
  BY <1>5
<1> HIDE DEF e
<1> QED
  BY <1>2, <1>6, <1>7, <1>8 DEF Kept, NotTwice, Somewhere

LEMMA QuietPlaces ==
    ASSUME PlacesInv, UNCHANGED <<queueReceived, pending, queueSend, srv>>, HandsKept
    PROVE  PlacesInv'
BY PlacesKept, NothingMoved

\* Requests are received over a connection only.
LEMMA ReceivesConnected ==
    ASSUME Typed, AskInv, Live, queueReceived # <<>>
    PROVE  srv.state # "idle" /\ srv.attempt = 1 /\ Connected /\ AskedInOrder
BY DEF Typed, ServerTyped, AskInv, Live, Connected, None

\* A block comes for a file that is being written, and is one of the file's.
LEMMA BlockExpected ==
    ASSUME MaxAttempts = 1, Typed, AskInv, PlacesInv, WriteInv, Live, ProcessSendFileData
    PROVE  /\ pending' = Append(pending, Head(queueReceived))
           /\ UNCHANGED fileWrite
<1> DEFINE r == Head(queueReceived)
           a == writeTasks[r.path]
<1>1. queueReceived # <<>> /\ r.kind = "data" /\ r \in ServerRequests /\ Has(queueReceived, r)
  <2>1. queueReceived # <<>> /\ r.kind = "data" /\ r \in ServerRequests
    BY FirstReceived DEF Typed, ProcessSendFileData, Receives
  <2> QED
    BY <2>1, HasTail DEF Typed, QueuesTyped
<1>2. srv.state # "idle" /\ srv.attempt = 1 /\ AskedInOrder
  BY <1>1, ReceivesConnected
<1>3. r.kind \in Kinds /\ r.path \in Paths /\ r.at = 1
  BY <1>1, RequestFields, OneAttempt DEF Kinds
<1>4. r.path \in DOMAIN writeTasks /\ a = 1
  <2>1. Relied(r.path)
    BY <1>1, Zenon DEF Relied, BlocksCome
  <2>2. r.path \in DOMAIN writeTasks
    BY <1>2, <1>3, <2>1 DEF WriteInv, WrittenAtPresent
  <2> QED
    BY <2>2 DEF Typed, WritesTyped, Attempts
<1>5. [r EXCEPT !.at = a] = r
  BY <1>1, <1>3, <1>4, RequestFields DEF Request
<1>6. ~ (r.index > 1 /\ r.index > SizeToWrite(r))
  <2>1. r \in srv.sent
    BY <1>1, <1>3 DEF PlacesInv, Somewhere, Typed, ServerTyped
  <2>2. r \in DataRequests(r.path)
    BY <1>1, <1>2, <2>1 DEF AskedInOrder
  <2>3. r.index \in BlocksOf(ServerDirs[1][r.path])
    <3>1. PICK i \in WriteBlocks(r.path) : r = Ask("data", r.path, i)
      BY <2>2, Zenon DEF DataRequests
    <3>2. r.index = i
      BY <3>1 DEF Ask, Request
    <3> QED
      BY <1>2, <3>2 DEF WriteBlocks, SyncedDir
  <2>4. ServerDirs[1][r.path] \in Seq(Blocks)
    BY <1>1, <1>3, RequestFields, ServerFiles DEF HasFile
  <2>5. Len(ServerDirs[1][r.path]) \in Nat
    BY <2>4, LenProperties
  <2>6. SizeToWrite(r) = Len(ServerDirs[1][r.path])
    BY <1>3 DEF SizeToWrite
  <2> QED
    BY <2>3, <2>5, <2>6 DEF BlocksOf
<1>7. /\ pending' = Append(pending, BlockTask(r, a)) /\ UNCHANGED fileWrite
  <2>1. /\ r.path \in DOMAIN writeTasks
        /\ ~ (r.index > 1 /\ r.index > SizeToWrite([r EXCEPT !.at = a]))
    BY <1>4, <1>5, <1>6
  <2> QED
    BY <2>1, Zenon DEF ProcessSendFileData, r
<1> QED
  BY <1>5, <1>7 DEF BlockTask

\* So does the end of a file.
LEMMA FinishExpected ==
    ASSUME MaxAttempts = 1, Typed, AskInv, PlacesInv, WriteInv, Live,
           ProcessRequestFinishWriteFile
    PROVE  LET r == Head(queueReceived) IN
           /\ pending' = Append(pending, r)
           /\ fileWrite' = [fileWrite EXCEPT ![<<1, r.path>>].status = "finishing"]
           /\ writeTasks' = Without(writeTasks, r.path)
<1> DEFINE r == Head(queueReceived)
           a == writeTasks[r.path]
<1>1. queueReceived # <<>> /\ r.kind = "finish" /\ r \in ServerRequests /\ Has(queueReceived, r)
  <2>1. queueReceived # <<>> /\ r.kind = "finish" /\ r \in ServerRequests
    BY FirstReceived DEF Typed, ProcessRequestFinishWriteFile, Receives
  <2> QED
    BY <2>1, HasTail DEF Typed, QueuesTyped
<1>2. srv.state # "idle" /\ srv.attempt = 1
  BY <1>1, ReceivesConnected
<1>3. r.path \in Paths /\ r.at = 1
  BY <1>1, RequestFields, OneAttempt DEF Kinds
<1>4. r.path \in DOMAIN writeTasks /\ a = 1 /\ fileWrite[<<1, r.path>>].status = "processing"
  <2>1. Relied(r.path)
    BY <1>1, Zenon DEF Relied, BlocksCome
  <2>2. WrittenAtPresent(r.path)
    BY <1>2, <1>3, <2>1 DEF WriteInv
  <2> QED
    BY <2>2 DEF Typed, WritesTyped, Attempts, WrittenAtPresent
<1>5. [r EXCEPT !.at = a] = r
  BY <1>1, <1>3, <1>4, RequestFields DEF Request
<1>6. /\ fileWrite' = [fileWrite EXCEPT ![<<a, r.path>>].status = "finishing"]
      /\ pending' = Append(pending, [r EXCEPT !.at = a])
      /\ writeTasks' = Without(writeTasks, r.path)
  <2>1. r.path \in DOMAIN writeTasks /\ fileWrite[a, r.path].status = "processing"
    BY <1>4
  <2> QED
    BY <2>1, Zenon DEF ProcessRequestFinishWriteFile, r
<1> QED
  BY <1>4, <1>5, <1>6

LEMMA PlacesUpdateKept ==
    ASSUME MaxAttempts = 1, Typed, HandsEmpty, AskInv, PlacesInv, WriteInv, UpdateStep,
           ~ SendQueuedMessages
    PROVE  PlacesInv'
<1> DEFINE x == Head(queueReceived)
<1>1. CASE UpdateLayoutChanged \/ PutFileWithoutBlocks \/ NothingReceived
           \/ StopTaskProcessors \/ JoinTaskProcessors
  <2>1. UNCHANGED <<queueReceived, pending, queueSend, srv, job>>
    BY <1>1
       DEF UpdateLayoutChanged, PutFileWithoutBlocks, NothingReceived, StopTaskProcessors,
           JoinTaskProcessors, MainGoto, queues
  <2>2. HandsKept
    BY <2>1 DEF HandsKept
  <2> QED
    BY <2>1, <2>2, QuietPlaces
<1>2. CASE OnFileLayoutChanged
  <2> DEFINE e == LayoutRequest(srv.attempt)
             m == Answer(e, TRUE, content[layout])
  <2>1. /\ pending' \in {pending, Append(pending, e)}
        /\ queueSend' \in {queueSend, Append(queueSend, m)}
        /\ UNCHANGED <<queueReceived, srv, job>>
    BY <1>2 DEF OnFileLayoutChanged, Queued, MainGoto
  <2>2. e.kind = "layout" /\ m.req.kind = "layout" /\ HandsKept
    BY <2>1 DEF LayoutRequest, Request, Answer, HandsKept
  <2> HIDE DEF e, m
  <2> QED
    BY <2>1, <2>2, PlacesKept, LayoutMoved DEF Typed
<1>3. CASE ProcessRequestLayout
  <2> DEFINE m == Answer(x, TRUE, content[layout])
  <2>1. /\ queueReceived # <<>> /\ x.kind = "layout" /\ queueReceived' = Tail(queueReceived)
        /\ pending' \in {pending, Append(pending, x)}
        /\ queueSend' \in {queueSend, Append(queueSend, m)}
        /\ UNCHANGED <<srv, job>>
    BY <1>3 DEF ProcessRequestLayout, Receives, Queued, threads
  <2>2. m.req = x /\ HandsKept
    BY <2>1 DEF Answer, HandsKept
  <2> HIDE DEF m
  <2> QED
    BY <2>1, <2>2, PlacesKept, LayoutReceived DEF Typed
<1>4. CASE ProcessRequestFileBlockHashes \/ ProcessRequestWriteFile
  <2>1. /\ queueReceived # <<>> /\ queueReceived' = Tail(queueReceived)
        /\ pc[Main] = "receive"
        /\ UNCHANGED <<srv, pending>>
    BY <1>4 DEF ProcessRequestFileBlockHashes, ProcessRequestWriteFile, Receives
  <2>2. \/ \E j : job' = [job EXCEPT ![Main] = j] /\ j.req = x /\ UNCHANGED queueSend
        \/ /\ queueSend' = Queued(Answer(x, FALSE, <<>>))
           /\ UNCHANGED job
    <3>1. CASE ProcessRequestFileBlockHashes
      <4> DEFINE j == [JobOf(x) EXCEPT !.layout = layout, !.body = content[layout][x.path]]
      <4>1. \/ job' = [job EXCEPT ![Main] = j] /\ UNCHANGED queueSend
            \/ queueSend' = Queued(Answer(x, FALSE, <<>>)) /\ UNCHANGED job
        BY <3>1, Zenon DEF ProcessRequestFileBlockHashes, threads
      <4>2. j.req = x
        BY DEF JobOf, NoJob
      <4> QED
        BY <4>1, <4>2
    <3>2. CASE ProcessRequestWriteFile
      <4>1. \/ job' = [job EXCEPT ![Main] = JobOf(x)] /\ UNCHANGED queueSend
            \/ queueSend' = Queued(Answer(x, FALSE, <<>>)) /\ UNCHANGED job
        BY <3>2, Zenon DEF ProcessRequestWriteFile, threads
      <4>2. JobOf(x).req = x
        BY DEF JobOf, NoJob
      <4> QED
        BY <4>1, <4>2
    <3> QED
      BY <1>4, <3>1, <3>2
  <2>3. CASE \E j : job' = [job EXCEPT ![Main] = j] /\ j.req = x /\ UNCHANGED queueSend
    <3>1. /\ job[Main].req = NoRequest /\ job'[Main].req = x
          /\ \A u \in Threads \ {Main} : job'[u].req = job[u].req
      BY <2>1, <2>3 DEF HandsEmpty, Typed, ThreadsTyped, Threads
    <3>2. UNCHANGED <<pending, queueSend>>
      BY <2>1, <2>3
    <3> QED
      BY <2>1, <3>1, <3>2, PlacesKept, ReceivedToHand DEF Typed
  <2>4. CASE queueSend' = Queued(Answer(x, FALSE, <<>>)) /\ UNCHANGED job
    <3> DEFINE m == Answer(x, FALSE, <<>>)
    <3>1. HandsKept /\ m.req = x
      BY <2>4 DEF HandsKept, Answer
    <3>2. Live => queueSend' = Append(queueSend, m)
      BY <2>1, <2>4, ReceivesConnected DEF Queued
    <3> HIDE DEF m
    <3> QED
      BY <2>1, <3>1, <3>2, PlacesKept, ReceivedToAnswers DEF Typed
  <2> QED
    BY <2>2, <2>3, <2>4
<1>5. CASE ProcessRequestDeleteFile \/ ProcessSendFileData \/ ProcessRequestFinishWriteFile
  <2>1. /\ queueReceived # <<>> /\ queueReceived' = Tail(queueReceived)
        /\ UNCHANGED <<srv, job, queueSend>>
    BY <1>5
       DEF ProcessRequestDeleteFile, ProcessSendFileData, ProcessRequestFinishWriteFile,
           Receives, threads
  <2>2. Live => pending' = Append(pending, x)
    BY <1>5, BlockExpected, FinishExpected DEF ProcessRequestDeleteFile
  <2>3. HandsKept
    BY <2>1 DEF HandsKept
  <2> QED
    BY <2>1, <2>2, <2>3, PlacesKept, ReceivedToPending DEF Typed
<1>6. CASE AddPendingTask
  <2>1. /\ pc[Main] = "push" /\ pending' = Append(pending, job[Main].req)
        /\ job' = [job EXCEPT ![Main] = NoJob]
        /\ UNCHANGED <<queueReceived, queueSend, srv>>
    BY <1>6 DEF AddPendingTask, queues
  <2>2. /\ job[Main].req \in ServerRequests /\ job'[Main].req = NoRequest
        /\ \A u \in Threads \ {Main} : job'[u].req = job[u].req
    BY <2>1 DEF Typed, ThreadsTyped, Threads, NoJob
  <2> QED
    BY <2>1, <2>2, PlacesKept, HandToPending DEF Typed
<1> QED
  BY <1>1, <1>2, <1>3, <1>4, <1>5, <1>6 DEF UpdateStep

LEMMA PlacesProcKept ==
    ASSUME Typed, HandsEmpty, AskInv, PlacesInv, NEW p \in Procs, ProcStep(p)
    PROVE  PlacesInv'
<1>0. p \in Threads /\ p # Main /\ DOMAIN job = Threads
  BY ThreadsAssumption DEF Threads, Typed, ThreadsTyped
<1>1. CASE AtWork(p) \/ ExitRun(p)
  <2>1. UNCHANGED <<queueReceived, pending, queueSend, srv>> /\ HandsKept
    BY <1>1, WorkGoesOn DEF ExitRun, Continue, queues, HandsKept
  <2> QED
    BY <2>1, QuietPlaces
<1>2. CASE TakeTask(p)
  <2>1. PICK i \in DOMAIN pending :
           /\ pending' = Erased(i)
           /\ job' = [job EXCEPT ![p] = JobOf(pending[i])]
    BY <1>2, Zenon DEF TakeTask
  <2>2. /\ job[p].req = NoRequest /\ job'[p].req = pending[i]
        /\ \A u \in Threads \ {p} : job'[u].req = job[u].req
    BY <1>0, <1>2, <2>1 DEF TakeTask, HandsEmpty, Busy, JobOf, NoJob
  <2>3. pending' = RemoveAt(pending, i) /\ UNCHANGED <<queueReceived, queueSend, srv>>
    BY <1>2, <2>1 DEF TakeTask, Erased, queues
  <2> QED
    BY <1>0, <2>2, <2>3, PlacesKept, PendingToHand DEF Typed
<1>3. CASE SetFileLayout(p)
  <2>1. /\ job[p].req.kind = "layout" /\ job'[p].req = NoRequest
        /\ \A u \in Threads \ {p} : job'[u].req = job[u].req
        /\ UNCHANGED <<queueReceived, pending, queueSend, srv>>
    BY <1>0, <1>3
       DEF SetFileLayout, Return, Typed, ThreadsTyped, Fits, Busy, NoJob, queues
  <2>2. ASSUME NEW r, FileRequest(r), NotTwice(r)
        PROVE  Kept(r)
    <3>1. job[p].req # r
      BY <2>1, <2>2 DEF FileRequest, Kinds
    <3>2. (Held(r)' <=> Held(r)) /\ HeldOnce(r)'
      BY <1>0, <2>1, <2>2, <3>1, LetGo DEF NotTwice
    <3> QED
      BY <2>1, <2>2, <3>2 DEF Kept, NotTwice, Somewhere
  <2> QED
    BY <2>1, <2>2, PlacesKept
<1>4. CASE SendResponse(p)
  <2> DEFINE m == Answer(job[p].req, job[p].ok, job[p].body)
  <2>1. /\ queueSend' = Queued(m) /\ job'[p].req = NoRequest /\ m.req = job[p].req
        /\ \A u \in Threads \ {p} : job'[u].req = job[u].req
        /\ UNCHANGED <<queueReceived, pending, srv>>
    BY <1>0, <1>4 DEF SendResponse, Return, Answer, NoJob
  <2>2. job[p].req \in ServerRequests /\ job[p].req.kind \in Kinds /\ Held(job[p].req)
    BY <1>0, <1>4 DEF SendResponse, Typed, ThreadsTyped, Busy, Fits, Held
  <2>3. Live => Connected
    <3>1. Live => job[p].req \in srv.open
      BY <2>2 DEF PlacesInv, Somewhere
    <3> QED
      BY <3>1 DEF AskInv, Connected
  <2>4. Live => queueSend' = Append(queueSend, m)
    BY <2>1, <2>3 DEF Queued
  <2> HIDE DEF m
  <2> QED
    BY <1>0, <2>1, <2>4, PlacesKept, HandToAnswers DEF Typed
<1> QED
  BY <1>1, <1>2, <1>3, <1>4, ProcSteps

LEMMA OneAttemptOnly ==
    ASSUME MaxAttempts = 1, NEW x \in Requests
    PROVE  x = Request(x.kind, 1, x.path, x.index)
<1>1. \A a \in Attempts : a = 1
  BY DEF Attempts
<1>2. CASE x \in {LayoutRequest(a) : a \in Attempts}
  <2>1. PICK a \in Attempts : x = LayoutRequest(a)
    BY <1>2
  <2> QED
    BY <1>1, <2>1 DEF LayoutRequest, Request
<1>3. CASE x \in {Request(k, a, p, i) : k \in Kinds, a \in Attempts, p \in Paths, i \in Indices}
  <2>1. PICK k \in Kinds, a \in Attempts, p \in Paths, i \in Indices : x = Request(k, a, p, i)
    BY <1>3
  <2> QED
    BY <1>1, <2>1 DEF Request
<1> QED
  BY <1>2, <1>3 DEF Requests

\* An answer is for one request about a file.
LEMMA MatchingOne ==
    ASSUME MaxAttempts = 1, ServerTyped, NEW x \in ServerRequests, NEW m, m.req = x,
           NEW r, FileRequest(r)
    PROVE  r \in Matching(m) <=> r \in srv.open /\ r = x
<1>1. /\ r = Request(r.kind, 1, r.path, r.index)
      /\ x = Request(x.kind, 1, x.path, x.index)
  BY OneAttempt DEF FileRequest
<1>2. (r.kind = x.kind /\ r.path = x.path /\ r.index = x.index) <=> r = x
  BY <1>1
<1> QED
  BY <1>2 DEF Matching

LEMMA PlacesSendKept ==
    ASSUME MaxAttempts = 1, Typed, AskInv, PlacesInv, SendQueuedMessages
    PROVE  PlacesInv'
<1>1. HandsKept /\ UNCHANGED <<queueReceived, pending>>
  BY DEF SendQueuedMessages, threads, MainGoto, HandsKept
<1>2. CASE queueSend = <<>>
  <2>1. UNCHANGED <<queueSend, srv>>
    BY <1>2 DEF SendQueuedMessages
  <2> QED
    BY <1>1, <2>1, QuietPlaces
<1>3. CASE queueSend # <<>>
  <2> DEFINE m == Head(queueSend)
  <2>1. /\ queueSend' = Tail(queueSend)
        /\ srv' = AnswerReceived(m) \/ (~ Connected /\ UNCHANGED srv)
    BY <1>3 DEF SendQueuedMessages
  <2>2. IsAnswer(m)
    <3>1. m \in Range(queueSend)
      BY <1>3, HeadTailProperties DEF Typed, QueuesTyped
    <3> QED
      BY <3>1 DEF Typed, QueuesTyped, AnswersServer
  <2>3. ASSUME NEW r, FileRequest(r), NotTwice(r)
        PROVE  NotTwice(r)' /\ (Somewhere(r)' <=> Somewhere(r) /\ m.req # r)
    <3>1. /\ m.req = r => HasAnswer(queueSend, r)
          /\ HasAnswer(queueSend', r) <=> HasAnswer(queueSend, r) /\ m.req # r
          /\ AtMostOneAnswer(queueSend', r)
      BY <1>3, <2>1, <2>3, AnswersTail DEF Typed, QueuesTyped, NotTwice
    <3>2. /\ Held(r)' <=> Held(r)
          /\ HeldOnce(r)' <=> HeldOnce(r)
      BY <1>1, HeldKept
    <3> HIDE DEF m
    <3> QED
      BY <1>1, <2>3, <3>1, <3>2 DEF NotTwice, Somewhere
  <2>4. CASE ~ Connected /\ UNCHANGED srv
    <3>1. ASSUME Live, NEW r, FileRequest(r)
          PROVE  ~ Somewhere(r)
      BY <2>4, <3>1 DEF AskInv, PlacesInv, FileRequest, Connected
    <3>2. Live => \A r : FileRequest(r) /\ NotTwice(r) => Kept(r)
      BY <2>3, <3>1 DEF Kept
    <3> QED
      BY <2>4, <3>2, PlacesKept
  <2>5. CASE srv' = AnswerReceived(m)
    <3>1. /\ srv'.attempt = srv.attempt /\ srv'.open = srv.open \ Matching(m)
          /\ srv'.state = srv.state \/ (srv'.state = "failed" /\ Matching(m) # {})
      BY <2>5, AnswerEffect DEF Typed
    <3>2. Live' => Live
      BY <3>1 DEF Live, AskInv, Matching
    <3>3. ASSUME NEW r, FileRequest(r)
          PROVE  r \in srv'.open <=> r \in srv.open /\ m.req # r
      <4>1. CASE m.req \in ServerRequests
        <5>1. r \in Matching(m) <=> r \in srv.open /\ r = m.req
          BY <3>3, <4>1, MatchingOne DEF Typed
        <5> QED
          BY <3>1, <5>1
      <4>2. CASE m.req \notin ServerRequests
        <5>1. r # m.req
          BY <3>3, <4>2 DEF FileRequest
        <5>2. r \notin Matching(m)
          <6>1. m.req \in Requests /\ r.at = 1 /\ r = Request(r.kind, 1, r.path, r.index)
            BY <2>2, <3>3, OneAttempt DEF IsAnswer, FileRequest
          <6>2. m.req = Request(m.req.kind, 1, m.req.path, m.req.index)
            BY <6>1, OneAttemptOnly
          <6> QED
            BY <5>1, <6>1, <6>2 DEF Matching
        <5> QED
          BY <3>1, <5>1, <5>2
      <4> QED
        BY <4>1, <4>2
    <3> HIDE DEF m
    <3> QED
      BY <2>3, <3>2, <3>3 DEF PlacesInv, FileRequest
  <2> QED
    BY <2>1, <2>4, <2>5
<1> QED
  BY <1>2, <1>3

\* A request not yet sent is nowhere, and so is any before the attempt.
LEMMA PlacesAskKept ==
    ASSUME Typed, AskInv, PlacesInv, MessageReceived, NEW r, srv.state = "work", Asks(r)
    PROVE  PlacesInv'
<1>1. /\ UNCHANGED <<pending, queueSend, job>>
      /\ queueReceived' = Append(queueReceived, r)
      /\ srv'.open = srv.open \cup {r}
  BY DEF MessageReceived, threads, Asks
<1>2. HandsKept
  BY <1>1 DEF HandsKept
<1>3. Live
  BY DEF Live
<1>4. r \in ServerRequests /\ r \notin srv.open /\ r.kind \in Kinds
  <2>1. r \in ServerRequests
    BY WantedAreRequests DEF Typed, ServerTyped, Asks, None
  <2>2. r \notin srv.open
    BY DEF Typed, ServerTyped, Asks
  <2>3. r.kind \in Kinds
    BY WantedByKind DEF Asks, Kinds
  <2> QED
    BY <2>1, <2>2, <2>3
<1>5. ~ Somewhere(r)
  BY <1>3, <1>4 DEF PlacesInv
<1>6. ASSUME NEW y \in ServerRequests, y.kind \in Kinds
      PROVE  NotTwice(y)' /\ (y \in srv'.open <=> Somewhere(y)')
  <2>1. /\ Has(queueReceived', y) <=> Has(queueReceived, y) \/ r = y
        /\ AtMostOne(queueReceived, y) /\ (r = y => ~ Has(queueReceived, y))
              => AtMostOne(queueReceived', y)
    BY <1>1, <1>4, HasAppended DEF Typed, QueuesTyped
  <2>2. NotTwice(y) /\ (y \in srv.open <=> Somewhere(y))
    BY <1>3, <1>6 DEF PlacesInv
  <2>3. /\ Held(y)' <=> Held(y)
        /\ HeldOnce(y)' <=> HeldOnce(y)
    BY <1>2, HeldKept
  <2> QED
    BY <1>1, <1>5, <2>1, <2>2, <2>3 DEF NotTwice, Somewhere
<1> QED
  BY <1>6 DEF PlacesInv

LEMMA PlacesBeginKept ==
    ASSUME MaxAttempts = 1, Typed, AskInv, PlacesInv, MessageReceived, BeginAttempt
    PROVE  PlacesInv'
<1> DEFINE e == LayoutRequest(1)
<1>1. /\ UNCHANGED <<pending, queueSend, job>>
      /\ srv.attempt = 0 /\ queueReceived' = Append(queueReceived, e) /\ srv'.open = {e}
  BY BeginsOne DEF Typed, MessageReceived, threads
<1>2. Live /\ srv.open = {} /\ e \in ServerRequests /\ e.kind = "layout"
  <2>1. srv.state = "idle"
    BY <1>1 DEF AskInv
  <2>2. e \in ServerRequests /\ e.kind = "layout"
    BY RequestsOfServer DEF Attempts, LayoutRequest, Request
  <2> QED
    BY <1>1, <2>1, <2>2 DEF Live, AskInv, None
<1>3. HandsKept
  BY <1>1 DEF HandsKept
<1> HIDE DEF e
<1>4. ASSUME NEW y \in ServerRequests, y.kind \in Kinds
      PROVE  NotTwice(y)' /\ (y \in srv'.open <=> Somewhere(y)')
  <2>0. e # y
    BY <1>2, <1>4 DEF Kinds
  <2>1. /\ Has(queueReceived', y) <=> Has(queueReceived, y)
        /\ AtMostOne(queueReceived, y) => AtMostOne(queueReceived', y)
    BY <1>1, <1>2, <2>0, HasAppended DEF Typed, QueuesTyped
  <2>2. NotTwice(y) /\ ~ Somewhere(y)
    BY <1>2, <1>4 DEF PlacesInv
  <2>3. /\ Held(y)' <=> Held(y)
        /\ HeldOnce(y)' <=> HeldOnce(y)
    BY <1>3, HeldKept
  <2> QED
    BY <1>1, <2>0, <2>1, <2>2, <2>3 DEF NotTwice, Somewhere
<1> QED
  BY <1>4 DEF PlacesInv

\* Once the connection is lost the server waits for nothing.
LEMMA PlacesCloseKept ==
    ASSUME Typed, AskInv, PlacesInv, Disconnect \/ ConnectionClosed
    PROVE  PlacesInv'
<1>1. /\ srv'.state = "idle" /\ srv'.attempt = srv.attempt /\ srv'.open = {}
      /\ UNCHANGED <<queueReceived, pending, queueSend, job>>
  BY CloseResets DEF Disconnect, ConnectionClosed, Close, queues, threads
<1>2. HandsKept
  BY <1>1 DEF HandsKept
<1>3. ASSUME Live'
      PROVE  Live /\ srv.open = {}
  BY <1>1, <1>3 DEF Live, AskInv, None
<1>4. ASSUME Live', NEW y \in ServerRequests, y.kind \in Kinds
      PROVE  NotTwice(y)' /\ (y \in srv'.open <=> Somewhere(y)')
  <2>1. NotTwice(y) /\ ~ Somewhere(y)
    BY <1>3, <1>4 DEF PlacesInv
  <2>2. Kept(y)
    BY <1>1, <1>2, <2>1, NothingMoved
  <2> QED
    BY <1>1, <2>1, <2>2 DEF Kept
<1> QED
  BY <1>4 DEF PlacesInv

LEMMA PlacesInvKept ==
    ASSUME MaxAttempts = 1, Typed, HandsEmpty, AskInv, PlacesInv, WriteInv, [Next]_vars
    PROVE  PlacesInv'
<1>1. CASE UNCHANGED vars
  <2>1. UNCHANGED <<queueReceived, pending, queueSend, srv>> /\ HandsKept
    BY <1>1 DEF vars, queues, threads, HandsKept
  <2> QED
    BY <2>1, QuietPlaces
<1>2. CASE ConnectTo \/ ConnectionEstablished \/ MessageReceivedConnect
  <2>1. UNCHANGED <<queueReceived, pending, queueSend, srv>> /\ HandsKept
    BY <1>2
       DEF ConnectTo, ConnectionEstablished, MessageReceivedConnect, queues, threads,
           HandsKept
  <2> QED
    BY <2>1, QuietPlaces
<1>3. CASE MessageReceived
  <2>1. CASE BeginAttempt
    BY <1>3, <2>1, PlacesBeginKept
  <2>2. CASE SendRequest
    <3>1. PICK r : Asks(r)
      BY <2>2, SendsOne DEF Typed
    <3> QED
      BY <1>3, <3>1, PlacesAskKept DEF Asks
  <2> QED
    BY <1>3, <2>1, <2>2 DEF MessageReceived
<1> QED
  BY <1>1, <1>2, <1>3, PlacesCloseKept, PlacesSendKept, PlacesUpdateKept, PlacesProcKept
     DEF Next, NetworkStep

-------------------------------------------------------------------------------
(* What an unanswered request says of the others for its file *)

LEMMA OkAppended ==
    ASSUME NEW S, NEW q \in Seq(S), NEW e \in S, NEW w
    PROVE  HasOk(Append(q, e), w) <=> HasOk(q, w) \/ (e.req = w /\ e.ok)
<1> DEFINE u == Append(q, e)
<1>1. Len(q) \in Nat /\ DOMAIN q = 1 .. Len(q)
  BY LenProperties
<1>2. /\ u \in Seq(S) /\ Len(u) = Len(q) + 1
      /\ \A k \in 1 .. Len(q) : u[k] = q[k]
      /\ u[Len(q) + 1] = e
  BY AppendProperties
<1> HIDE DEF u
<1>3. DOMAIN u = 1 .. Len(q) + 1
  BY <1>2, LenProperties
<1>4. ASSUME HasOk(u, w)
      PROVE  HasOk(q, w) \/ (e.req = w /\ e.ok)
  <2>1. PICK i \in DOMAIN u : u[i].req = w /\ u[i].ok
    BY <1>4 DEF HasOk
  <2>2. i \in DOMAIN q \/ i = Len(q) + 1
    BY <1>1, <1>3
  <2> QED
    BY <1>1, <1>2, <2>1, <2>2 DEF HasOk
<1>5. ASSUME HasOk(q, w) \/ (e.req = w /\ e.ok)
      PROVE  HasOk(u, w)
  <2>1. CASE HasOk(q, w)
    <3>1. PICK i \in DOMAIN q : q[i].req = w /\ q[i].ok
      BY <2>1 DEF HasOk
    <3>2. i \in DOMAIN u /\ u[i] = q[i]
      BY <1>1, <1>2, <1>3
    <3> QED
      BY <3>1, <3>2 DEF HasOk
  <2>2. CASE e.req = w /\ e.ok
    <3>1. Len(q) + 1 \in DOMAIN u
      BY <1>1, <1>3
    <3> QED
      BY <1>2, <2>2, <3>1 DEF HasOk
  <2> QED
    BY <1>5, <2>1, <2>2
<1> QED
  BY <1>4, <1>5 DEF u

LEMMA FirstGone ==
    ASSUME NEW S, NEW q \in Seq(S), q # <<>>
    PROVE  /\ \A r : Has(Tail(q), r) => Has(q, r)
           /\ \A w : HasOk(Tail(q), w) => HasOk(q, w)
           /\ Head(q).ok => HasOk(q, Head(q).req)
           /\ Has(q, Head(q))
<1> DEFINE u == Tail(q)
<1>1. Len(q) \in Nat /\ DOMAIN q = 1 .. Len(q) /\ Len(q) > 0 /\ Head(q) = q[1]
  BY LenProperties, EmptySeq
<1>2. /\ u \in Seq(S) /\ Len(u) = Len(q) - 1
      /\ \A k \in 1 .. Len(q) - 1 : u[k] = q[k + 1]
  BY <1>1, HeadTailProperties
<1> HIDE DEF u
<1>3. \A i \in DOMAIN u : i + 1 \in DOMAIN q /\ u[i] = q[i + 1]
  BY <1>1, <1>2, LenProperties
<1>4. \A r : Has(u, r) => Has(q, r)
  BY <1>3 DEF Has
<1>5. \A w : HasOk(u, w) => HasOk(q, w)
  BY <1>3 DEF HasOk
<1>6. 1 \in DOMAIN q
  BY <1>1
<1>7. (q[1].ok => HasOk(q, q[1].req)) /\ Has(q, q[1])
  BY <1>6 DEF Has, HasOk
<1> QED
  BY <1>1, <1>4, <1>5, <1>7 DEF u

\* What is somewhere is unanswered.
LEMMA Unanswered ==
    ASSUME Typed, PlacesInv, Live, NEW r \in ServerRequests, r.kind \in Kinds, Somewhere(r)
    PROVE  r \in srv.open /\ r \in srv.sent /\ ~ Answered(r) /\ NotTwice(r)
BY DEF PlacesInv, Typed, ServerTyped, Answered

LEMMA OkSomewhere ==
    ASSUME NEW w, HasOk(queueSend, w)
    PROVE  HasAnswer(queueSend, w) /\ Somewhere(w)
BY DEF HasOk, HasAnswer, Somewhere

LEMMA ToldSomewhere ==
    ASSUME Typed, NEW t \in Procs, job[t].req.kind = "write"
    PROVE  job[t].req \in ServerRequests /\ Held(job[t].req) /\ Somewhere(job[t].req)
<1>1. t \in Threads
  BY DEF Threads
<1>2. job[t].req \in ServerRequests
  BY <1>1 DEF Typed, ThreadsTyped, IsJob, NoRequest, Request
<1> QED
  BY <1>1, <1>2 DEF Held, Somewhere

\* While the request to write a file is unanswered it is the only one, and there are no
\* blocks of the file.
LEMMA WriteAlone ==
    ASSUME MaxAttempts = 1, Typed, AskInv, PlacesInv, srv.state # "idle",
           NEW w \in ServerRequests, w.kind = "write", Somewhere(w)
    PROVE  /\ ~ BlocksCome(w.path) /\ ~ BlocksWanted(w.path)
           /\ \A v \in ServerRequests :
                 v.kind = "write" /\ v.path = w.path /\ Somewhere(v) => v = w
<1>1. Live /\ srv.attempt = 1 /\ AskedInOrder
  BY DEF Live, AskInv
<1>2. \A v \in ServerRequests :
         v.kind = "write" /\ Somewhere(v) => v = Ask("write", v.path, 0) /\ ~ Answered(v)
  <2>1. SUFFICES ASSUME NEW v \in ServerRequests, v.kind = "write", Somewhere(v)
                 PROVE  v = Ask("write", v.path, 0) /\ ~ Answered(v)
    OBVIOUS
  <2>2. v \in srv.sent /\ ~ Answered(v)
    BY <1>1, <2>1, Unanswered DEF Kinds
  <2>3. v.index = 0 /\ v = Request("write", 1, v.path, v.index)
    BY <1>1, <2>1, <2>2, OneAttempt DEF AskedInOrder
  <2> QED
    BY <1>1, <2>2, <2>3 DEF Ask
<1>3. ~ BlocksWanted(w.path)
  BY <1>2 DEF BlocksWanted
<1>4. ~ BlocksCome(w.path)
  <2>1. SUFFICES ASSUME NEW r \in ServerRequests, r.kind \in {"data", "finish"},
                        r.path = w.path, Has(queueReceived, r)
                 PROVE  FALSE
    BY DEF BlocksCome
  <2>2. r \in srv.sent
    BY <1>1, <2>1, Unanswered DEF Kinds, Somewhere
  <2>3. Answered(Ask("write", w.path, 0))
    BY <1>1, <2>1, <2>2 DEF AskedInOrder
  <2> QED
    BY <1>2, <2>3
<1> QED
  BY <1>2, <1>3, <1>4

\* While the end of a file is unanswered nothing else is for the file.
LEMMA FinishAlone ==
    ASSUME MaxAttempts = 1, Typed, AskInv, PlacesInv, srv.state # "idle",
           NEW f \in ServerRequests, f.kind = "finish", Somewhere(f)
    PROVE  /\ ~ BlocksWanted(f.path)
           /\ \A r \in ServerRequests :
                 r.kind \in {"data", "finish"} /\ r.path = f.path /\ Somewhere(r) => r = f
           /\ \A v \in ServerRequests :
                 v.kind = "write" /\ v.path = f.path => ~ Somewhere(v)
<1>1. Live /\ srv.attempt = 1 /\ AskedInOrder
  BY DEF Live, AskInv
<1>2. f \in srv.sent
  BY <1>1, Unanswered DEF Kinds
<1>3. /\ Answered(Ask("write", f.path, 0))
      /\ \A d \in DataRequests(f.path) : Answered(d)
      /\ f.index = 0
  BY <1>1, <1>2 DEF AskedInOrder
<1>4. f = Ask("finish", f.path, 0)
  BY <1>1, <1>3, OneAttempt DEF Ask
<1>5. ~ BlocksWanted(f.path)
  BY <1>2, <1>4 DEF BlocksWanted
<1>6. ASSUME NEW r \in ServerRequests, r.kind \in {"data", "finish"}, r.path = f.path,
             Somewhere(r)
      PROVE  r = f
  <2>1. r \in srv.sent /\ ~ Answered(r)
    BY <1>1, <1>6, Unanswered DEF Kinds
  <2>2. r.kind # "data"
    BY <1>1, <1>3, <1>6, <2>1 DEF AskedInOrder
  <2>3. r.index = 0 /\ r = Request("finish", 1, f.path, 0)
    BY <1>1, <1>6, <2>1, <2>2, OneAttempt DEF AskedInOrder
  <2> QED
    BY <1>1, <1>4, <2>3 DEF Ask
<1>7. ASSUME NEW v \in ServerRequests, v.kind = "write", v.path = f.path, Somewhere(v)
      PROVE  FALSE
  <2>1. v \in srv.sent /\ ~ Answered(v)
    BY <1>1, <1>7, Unanswered DEF Kinds
  <2>2. v.index = 0 /\ v = Request("write", 1, f.path, v.index)
    BY <1>1, <1>7, <2>1, OneAttempt DEF AskedInOrder
  <2> QED
    BY <1>1, <1>3, <2>1, <2>2 DEF Ask
<1> QED
  BY <1>5, <1>6, <1>7

-------------------------------------------------------------------------------
(* The launcher keeps what is relied on *)

\* Nobody relies on more than before.
NoMoreRelied == \A p \in Paths : Relied(p)' => Relied(p)

\* No more requests to write a file are queued or in hand.
NoMoreWrites ==
    \A w \in ServerRequests :
        w.kind = "write" /\ (Has(pending', w) \/ Held(w)') => Has(pending, w) \/ Held(w)

LEMMA WriteKept ==
    ASSUME WriteInv, UNCHANGED <<srv, writing>>, NoMoreRelied, NoMoreWrites
    PROVE  WriteInv'
<1>1. \A p : WrittenAtPresent(p)' <=> WrittenAtPresent(p)
  BY DEF WrittenAtPresent, writing
<1> QED
  BY <1>1 DEF WriteInv, NoMoreRelied, NoMoreWrites, writing

LEMMA ReliedKept ==
    ASSUME UNCHANGED srv,
           \A r : Has(queueReceived', r) => Has(queueReceived, r),
           \A w : w.kind = "write" /\ HasOk(queueSend', w) => HasOk(queueSend, w),
           \A p \in Paths : AboutToTell(p)' => AboutToTell(p)
    PROVE  NoMoreRelied
<1>1. \A p : BlocksCome(p)' => BlocksCome(p)
  BY DEF BlocksCome
<1>2. \A p : BlocksWanted(p)' => BlocksWanted(p)
  BY DEF BlocksWanted, Answered, Ask
<1>3. \A p : ToldToSend(p)' => ToldToSend(p)
  BY DEF ToldToSend
<1> QED
  BY <1>1, <1>2, <1>3 DEF NoMoreRelied, Relied

\* A step of the thread calling Update() tells nothing.
LEMMA MainTellsNothing ==
    ASSUME \A t \in Procs : job'[t] = job[t] /\ (pc'[t] # "write" => pc[t] # "write")
    PROVE  \A p : AboutToTell(p)' => AboutToTell(p)
BY DEF AboutToTell

\* Nobody relies on a file the launcher begins to write.
LEMMA NotReliedWhileAsked ==
    ASSUME MaxAttempts = 1, Typed, AskInv, PlacesInv, srv.state # "idle",
           NEW w \in ServerRequests, w.kind = "write", Has(queueReceived, w)
    PROVE  ~ Relied(w.path)
<1>1. Somewhere(w) /\ Live
  BY DEF Somewhere, Live
<1>2. NotTwice(w)
  BY <1>1, Unanswered DEF Kinds
<1>3. /\ ~ BlocksCome(w.path) /\ ~ BlocksWanted(w.path)
      /\ \A v \in ServerRequests :
            v.kind = "write" /\ v.path = w.path /\ Somewhere(v) => v = w
  BY <1>1, WriteAlone
<1>4. ~ ToldToSend(w.path)
  BY <1>2, <1>3, OkSomewhere DEF ToldToSend, NotTwice
<1>5. ~ AboutToTell(w.path)
  BY <1>2, <1>3, ToldSomewhere DEF AboutToTell, NotTwice
<1> QED
  BY <1>3, <1>4, <1>5 DEF Relied

LEMMA WriteReceiveKept ==
    ASSUME MaxAttempts = 1, Typed, AskInv, PlacesInv, WriteInv, ProcessRequestWriteFile
    PROVE  WriteInv'
<1> DEFINE x == Head(queueReceived)
<1>1. /\ queueReceived # <<>> /\ x.kind = "write" /\ x \in ServerRequests
      /\ queueReceived' = Tail(queueReceived) /\ pc[Main] = "receive"
      /\ UNCHANGED <<srv, pending>>
  BY FirstReceived DEF Typed, ProcessRequestWriteFile, Receives
<1>2. /\ Has(queueReceived, x)
      /\ \A r : Has(queueReceived', r) => Has(queueReceived, r)
  BY <1>1, FirstGone DEF Typed, QueuesTyped
<1>3. x.path \in Paths /\ x.at = 1
  BY <1>1, RequestFields, OneAttempt DEF Kinds
<1>4. \A t \in Procs : job'[t] = job[t] /\ pc'[t] = pc[t]
  BY OthersMoveMain DEF Typed, UpdateStep
<1>5. \A w : w.kind = "write" /\ HasOk(queueSend', w) => HasOk(queueSend, w)
  <2> DEFINE m == Answer(x, FALSE, <<>>)
  <2>1. queueSend' \in {queueSend, Append(queueSend, m)}
    BY Zenon DEF ProcessRequestWriteFile, Queued
  <2>2. ~ m.ok
    BY DEF Answer
  <2> DEFINE S == Range(queueSend) \cup {m}
  <2>3. queueSend \in Seq(S) /\ m \in S
    BY SeqMonotonic DEF Typed, QueuesTyped
  <2> HIDE DEF m, S
  <2> QED
    BY <2>1, <2>2, <2>3, OkAppended
<1>6. NoMoreRelied
  BY <1>1, <1>2, <1>4, <1>5, MainTellsNothing, ReliedKept
<1>7. CASE layout = None
  <2>1. UNCHANGED <<writing, job>>
    BY <1>7 DEF ProcessRequestWriteFile, threads
  <2>2. NoMoreWrites
    BY <1>1, <2>1 DEF NoMoreWrites, Held
  <2> QED
    BY <1>1, <1>6, <2>1, <2>2, WriteKept
<1>8. CASE layout # None
  <2>1. /\ \E file : fileWrite' = [fileWrite EXCEPT ![<<x.at, x.path>>] = file]
        /\ writeTasks' = With(writeTasks, x.path, x.at)
        /\ job' = [job EXCEPT ![Main] = JobOf(x)]
    BY <1>8 DEF ProcessRequestWriteFile
  <2>2. /\ DOMAIN writeTasks' = DOMAIN writeTasks \cup {x.path}
        /\ \A p \in Paths : p # x.path /\ WrittenAtPresent(p) => WrittenAtPresent(p)'
    BY <1>3, <2>1 DEF With, WrittenAtPresent, Typed, WritesTyped
  <2>3. \A w : Held(w)' => Held(w) \/ w = x
    BY <2>1 DEF Held, JobOf, NoJob, Typed, ThreadsTyped
  <2>4. srv.state # "idle" => ~ Relied(x.path)
    BY <1>1, <1>2, NotReliedWhileAsked
  <2> QED
    BY <1>1, <1>3, <1>6, <2>2, <2>3, <2>4 DEF WriteInv, NoMoreRelied
<1> QED
  BY <1>7, <1>8

LEMMA WriteFinishKept ==
    ASSUME MaxAttempts = 1, Typed, AskInv, PlacesInv, WriteInv,
           ProcessRequestFinishWriteFile
    PROVE  WriteInv'
<1> SUFFICES ASSUME srv.state # "idle"
             PROVE  WriteInv'
  BY DEF WriteInv, ProcessRequestFinishWriteFile
<1> DEFINE x == Head(queueReceived)
<1>1. /\ queueReceived # <<>> /\ x.kind = "finish" /\ x \in ServerRequests
      /\ queueReceived' = Tail(queueReceived)
      /\ UNCHANGED <<srv, queueSend, job, pc>>
  BY FirstReceived DEF Typed, ProcessRequestFinishWriteFile, Receives, threads
<1>2. /\ Has(queueReceived, x)
      /\ \A r : Has(queueReceived', r) => Has(queueReceived, r)
  BY <1>1, FirstGone DEF Typed, QueuesTyped
<1>3. Live /\ Somewhere(x) /\ NotTwice(x)
  BY <1>1, <1>2, Unanswered DEF Live, Somewhere, Kinds
<1>4. /\ pending' = Append(pending, x)
      /\ fileWrite' = [fileWrite EXCEPT ![<<1, x.path>>].status = "finishing"]
      /\ writeTasks' = Without(writeTasks, x.path)
  BY <1>3, FinishExpected
<1>5. x.path \in Paths
  BY <1>1, RequestFields DEF Kinds
<1>6. /\ DOMAIN writeTasks' = DOMAIN writeTasks \ {x.path}
      /\ \A p \in Paths : p # x.path /\ WrittenAtPresent(p) => WrittenAtPresent(p)'
  BY <1>4, <1>5 DEF Without, Restrict, WrittenAtPresent, Typed, WritesTyped
<1>7. NoMoreRelied
  BY <1>1, <1>2, MainTellsNothing, ReliedKept
<1>8. \A w \in ServerRequests : w.kind = "write" /\ Has(pending', w) => Has(pending, w)
  BY <1>1, <1>4, HasAppended DEF Typed, QueuesTyped
<1>9. \A w : Held(w)' <=> Held(w)
  BY <1>1 DEF Held
<1>10. /\ ~ BlocksWanted(x.path)
       /\ \A r \in ServerRequests :
             r.kind \in {"data", "finish"} /\ r.path = x.path /\ Somewhere(r) => r = x
       /\ \A v \in ServerRequests :
             v.kind = "write" /\ v.path = x.path => ~ Somewhere(v)
  BY <1>1, <1>3, FinishAlone
<1>11. ASSUME NEW p, p = x.path
       PROVE  ~ Relied(p)'
  <2>1. ~ BlocksCome(p)'
    <3>1. ~ Has(queueReceived', x)
      BY <1>1, <1>3, HasTail DEF Typed, QueuesTyped, NotTwice
    <3>2. \A r \in ServerRequests :
             r.kind \in {"data", "finish"} /\ r.path = p => ~ Has(queueReceived', r)
      BY <1>2, <1>10, <1>11, <3>1 DEF Somewhere
    <3> QED
      BY <3>2 DEF BlocksCome
  <2>2. ~ BlocksWanted(p)'
    BY <1>1, <1>10, <1>11 DEF BlocksWanted, Answered, Ask
  <2>3. ~ ToldToSend(p)'
    BY <1>1, <1>10, <1>11, OkSomewhere DEF ToldToSend
  <2>4. ~ AboutToTell(p)'
    BY <1>1, <1>10, <1>11, ToldSomewhere DEF AboutToTell
  <2> QED
    BY <2>1, <2>2, <2>3, <2>4 DEF Relied
<1>12. \A w \in ServerRequests :
          w.kind = "write" /\ (Has(pending', w) \/ Held(w)') =>
              /\ Has(pending, w) \/ Held(w)
              /\ w.path # x.path
  BY <1>8, <1>9, <1>10 DEF Somewhere
<1>13. ASSUME NEW p \in Paths, Relied(p)'
       PROVE  WrittenAtPresent(p)'
  BY <1>6, <1>7, <1>11, <1>13 DEF WriteInv, NoMoreRelied
<1>14. ASSUME NEW w \in ServerRequests, w.kind = "write", Has(pending', w) \/ Held(w)'
       PROVE  w.path \in DOMAIN writeTasks'
  BY <1>6, <1>12, <1>14 DEF WriteInv
<1> QED
  BY <1>13, <1>14 DEF WriteInv

LEMMA WriteUpdateKept ==
    ASSUME MaxAttempts = 1, Typed, AskInv, PlacesInv, WriteInv, UpdateStep,
           ~ SendQueuedMessages
    PROVE  WriteInv'
<1> DEFINE x == Head(queueReceived)
<1>0. \A t \in Procs : job'[t] = job[t] /\ pc'[t] = pc[t]
  BY OthersMoveMain DEF Typed
<1>1. CASE UpdateLayoutChanged \/ PutFileWithoutBlocks \/ NothingReceived
           \/ StopTaskProcessors \/ JoinTaskProcessors
  <2>1. UNCHANGED <<queueReceived, pending, queueSend, srv, job, writing>>
    BY <1>1
       DEF UpdateLayoutChanged, PutFileWithoutBlocks, NothingReceived, StopTaskProcessors,
           JoinTaskProcessors, MainGoto, queues
  <2>2. NoMoreRelied
    BY <1>0, <2>1, MainTellsNothing, ReliedKept
  <2>3. NoMoreWrites
    BY <2>1 DEF NoMoreWrites, Held
  <2> QED
    BY <2>1, <2>2, <2>3, WriteKept
<1>2. CASE OnFileLayoutChanged \/ ProcessRequestLayout
  <2>1. /\ \A r : Has(queueReceived', r) => Has(queueReceived, r)
        /\ \E e, m : /\ e.kind = "layout" /\ m.req = e
                     /\ pending' \in {pending, Append(pending, e)}
                     /\ queueSend' \in {queueSend, Append(queueSend, m)}
        /\ UNCHANGED <<srv, job, writing>>
    <3>1. CASE OnFileLayoutChanged
      <4> DEFINE e == LayoutRequest(srv.attempt)
                 m == Answer(e, TRUE, content[layout])
      <4>1. /\ pending' \in {pending, Append(pending, e)}
            /\ queueSend' \in {queueSend, Append(queueSend, m)}
            /\ UNCHANGED <<queueReceived, srv, job, writing>>
        BY <3>1 DEF OnFileLayoutChanged, Queued, MainGoto
      <4>2. e.kind = "layout" /\ m.req = e
        BY DEF LayoutRequest, Request, Answer
      <4> QED
        BY <4>1, <4>2
    <3>2. CASE ProcessRequestLayout
      <4> DEFINE m == Answer(x, TRUE, content[layout])
      <4>1. /\ queueReceived # <<>> /\ x.kind = "layout" /\ queueReceived' = Tail(queueReceived)
            /\ pending' \in {pending, Append(pending, x)}
            /\ queueSend' \in {queueSend, Append(queueSend, m)}
            /\ UNCHANGED <<srv, job, writing>>
        BY <3>2 DEF ProcessRequestLayout, Receives, Queued, threads
      <4>2. m.req = x
        BY DEF Answer
      <4>3. \A r : Has(queueReceived', r) => Has(queueReceived, r)
        BY <4>1, FirstGone DEF Typed, QueuesTyped
      <4> QED
        BY <4>1, <4>2, <4>3
    <3> QED
      BY <1>2, <3>1, <3>2
  <2>2. PICK e, m : /\ e.kind = "layout" /\ m.req = e
                    /\ pending' \in {pending, Append(pending, e)}
                    /\ queueSend' \in {queueSend, Append(queueSend, m)}
    BY <2>1
  <2>3. \A w : w.kind = "write" /\ HasOk(queueSend', w) => HasOk(queueSend, w)
    <3> DEFINE S == Range(queueSend) \cup {m}
    <3>1. queueSend \in Seq(S) /\ m \in S
      BY SeqMonotonic DEF Typed, QueuesTyped
    <3> HIDE DEF S
    <3>2. \A w : HasOk(Append(queueSend, m), w) => HasOk(queueSend, w) \/ m.req = w
      BY <3>1, OkAppended
    <3> QED
      BY <2>2, <3>2
  <2>4. \A w : w.kind = "write" /\ Has(pending', w) => Has(pending, w)
    <3> DEFINE S == ServerRequests \cup {e}
    <3>1. pending \in Seq(S) /\ e \in S
      BY SeqMonotonic DEF Typed, QueuesTyped
    <3> HIDE DEF S
    <3>2. \A w : Has(Append(pending, e), w) => Has(pending, w) \/ e = w
      BY <3>1, HasAppended
    <3> QED
      BY <2>2, <3>2
  <2>5. NoMoreRelied
    BY <1>0, <2>1, <2>3, MainTellsNothing, ReliedKept
  <2>6. NoMoreWrites
    BY <2>1, <2>4 DEF NoMoreWrites, Held
  <2> QED
    BY <2>1, <2>5, <2>6, WriteKept
<1>3. CASE ProcessRequestFileBlockHashes
  <2>1. /\ queueReceived # <<>> /\ queueReceived' = Tail(queueReceived)
        /\ x.kind = "hashes"
        /\ UNCHANGED <<srv, pending, writing>>
    BY <1>3 DEF ProcessRequestFileBlockHashes, Receives
  <2>2. \A r : Has(queueReceived', r) => Has(queueReceived, r)
    BY <2>1, FirstGone DEF Typed, QueuesTyped
  <2>3. \A w : w.kind = "write" /\ HasOk(queueSend', w) => HasOk(queueSend, w)
    <3> DEFINE m == Answer(x, FALSE, <<>>)
               S == Range(queueSend) \cup {m}
    <3>1. queueSend' \in {queueSend, Append(queueSend, m)}
      BY <1>3, Zenon DEF ProcessRequestFileBlockHashes, Queued
    <3>2. ~ m.ok
      BY DEF Answer
    <3>3. queueSend \in Seq(S) /\ m \in S
      BY SeqMonotonic DEF Typed, QueuesTyped
    <3> HIDE DEF m, S
    <3> QED
      BY <3>1, <3>2, <3>3, OkAppended
  <2>4. \A w : w.kind = "write" /\ Held(w)' => Held(w)
    <3> DEFINE j == [JobOf(x) EXCEPT !.layout = layout, !.body = content[layout][x.path]]
    <3>1. job' = [job EXCEPT ![Main] = j] \/ job' = job
      BY <1>3, Zenon DEF ProcessRequestFileBlockHashes, threads
    <3>2. j.req = x
      BY DEF JobOf, NoJob
    <3> HIDE DEF j
    <3> QED
      BY <2>1, <3>1, <3>2 DEF Held, Typed, ThreadsTyped
  <2>5. NoMoreRelied
    BY <1>0, <2>1, <2>2, <2>3, MainTellsNothing, ReliedKept
  <2>6. NoMoreWrites
    BY <2>1, <2>4 DEF NoMoreWrites
  <2> QED
    BY <2>1, <2>5, <2>6, WriteKept
<1>4. CASE ProcessRequestDeleteFile
  <2>1. /\ queueReceived # <<>> /\ queueReceived' = Tail(queueReceived)
        /\ x.kind = "delete" /\ x \in ServerRequests /\ pending' = Append(pending, x)
        /\ UNCHANGED <<srv, writing, job, queueSend>>
    BY <1>4, FirstReceived DEF ProcessRequestDeleteFile, Receives, threads, Typed
  <2>2. \A r : Has(queueReceived', r) => Has(queueReceived, r)
    BY <2>1, FirstGone DEF Typed, QueuesTyped
  <2>3. NoMoreRelied
    BY <1>0, <2>1, <2>2, MainTellsNothing, ReliedKept
  <2>4. NoMoreWrites
    BY <2>1, HasAppended DEF NoMoreWrites, Held, Typed, QueuesTyped
  <2> QED
    BY <2>1, <2>3, <2>4, WriteKept
<1>5. CASE ProcessSendFileData
  <2>1. /\ queueReceived # <<>> /\ queueReceived' = Tail(queueReceived)
        /\ x.kind = "data" /\ x \in ServerRequests
        /\ UNCHANGED <<srv, writeTasks, job, queueSend>>
    BY <1>5, FirstReceived DEF ProcessSendFileData, Receives, threads, Typed
  <2>2. \A r : Has(queueReceived', r) => Has(queueReceived, r)
    BY <2>1, FirstGone DEF Typed, QueuesTyped
  <2>3. NoMoreRelied
    BY <1>0, <2>1, <2>2, MainTellsNothing, ReliedKept
  <2>4. CASE srv.state = "idle"
    BY <2>1, <2>4 DEF WriteInv
  <2>5. CASE srv.state # "idle"
    <3>1. pending' = Append(pending, x) /\ UNCHANGED fileWrite
      BY <1>5, <2>5, BlockExpected DEF Live
    <3>2. NoMoreWrites
      BY <2>1, <3>1, HasAppended DEF NoMoreWrites, Held, Typed, QueuesTyped
    <3> QED
      BY <2>1, <2>3, <3>1, <3>2, WriteKept DEF writing
  <2> QED
    BY <2>4, <2>5
<1>6. CASE AddPendingTask
  <2>1. /\ pc[Main] = "push" /\ pending' = Append(pending, job[Main].req)
        /\ job' = [job EXCEPT ![Main] = NoJob]
        /\ UNCHANGED <<queueReceived, queueSend, srv, writing>>
    BY <1>6 DEF AddPendingTask, queues
  <2>2. Main \in Threads /\ job[Main].req \in ServerRequests
    BY <2>1 DEF Typed, ThreadsTyped, Threads
  <2>3. NoMoreRelied
    BY <1>0, <2>1, MainTellsNothing, ReliedKept
  <2>4. NoMoreWrites
    <3>1. ASSUME NEW w, w.kind = "write", Held(w)'
          PROVE  Held(w)
      BY <2>1, <2>2, <3>1 DEF Held, NoJob, NoRequest, Request, Typed, ThreadsTyped
    <3>2. ASSUME NEW w, Has(pending', w)
          PROVE  Has(pending, w) \/ Held(w)
      BY <2>1, <2>2, <3>2, HasAppended DEF Held, Typed, QueuesTyped
    <3> QED
      BY <3>1, <3>2 DEF NoMoreWrites
  <2> QED
    BY <2>1, <2>3, <2>4, WriteKept
<1> QED
  BY <1>1, <1>2, <1>3, <1>4, <1>5, <1>6, WriteReceiveKept, WriteFinishKept DEF UpdateStep

LEMMA WriteSendKept ==
    ASSUME MaxAttempts = 1, Typed, AskInv, WriteInv, SendQueuedMessages
    PROVE  WriteInv'
<1>0. \A t \in Procs : job'[t] = job[t] /\ pc'[t] = pc[t]
  BY OthersMoveMain DEF Typed, UpdateStep
<1>1. /\ UNCHANGED <<queueReceived, pending, writing, job>>
  BY DEF SendQueuedMessages, threads, MainGoto
<1>2. NoMoreWrites
  BY <1>1 DEF NoMoreWrites, Held
<1>3. \A p : AboutToTell(p)' => AboutToTell(p)
  BY <1>0, MainTellsNothing
<1>4. CASE queueSend = <<>>
  <2>1. UNCHANGED <<queueSend, srv>>
    BY <1>4 DEF SendQueuedMessages
  <2> QED
    BY <1>1, <1>2, <1>3, <2>1, ReliedKept, WriteKept
<1>5. CASE queueSend # <<>>
  <2> DEFINE m == Head(queueSend)
  <2>1. /\ queueSend' = Tail(queueSend)
        /\ srv' = AnswerReceived(m) \/ UNCHANGED srv
    BY <1>5 DEF SendQueuedMessages
  <2>2. /\ \A w : HasOk(queueSend', w) => HasOk(queueSend, w)
        /\ m.ok => HasOk(queueSend, m.req)
    BY <1>5, <2>1, FirstGone DEF Typed, QueuesTyped
  <2>3. CASE UNCHANGED srv
    BY <1>1, <1>2, <1>3, <2>2, <2>3, ReliedKept, WriteKept
  <2>4. CASE srv' = AnswerReceived(m)
    <3>1. /\ srv'.attempt = srv.attempt /\ srv'.sent = srv.sent
          /\ srv'.open = srv.open \ Matching(m)
          /\ srv'.state = srv.state \/ (srv'.state = "failed" /\ Matching(m) # {})
          /\ Matching(m) # {} /\ ~ m.ok /\ m.req.kind # "hashes" => srv'.state = "failed"
      BY <2>4, AnswerEffect DEF Typed
    <3>2. srv'.state # "idle" => srv.state # "idle"
      BY <3>1 DEF AskInv, Matching
    <3>3. \A p : BlocksCome(p)' => BlocksCome(p)
      BY <1>1 DEF BlocksCome
    <3>4. \A p : ToldToSend(p)' => ToldToSend(p)
      BY <2>2 DEF ToldToSend
    <3>5. ASSUME NEW p, BlocksWanted(p)'
          PROVE  BlocksWanted(p) \/ ToldToSend(p)
      <4> DEFINE w == Ask("write", p, 0)
      <4>1. Ask("write", p, 0)' = w /\ Ask("finish", p, 0)' = Ask("finish", p, 0)
        BY <3>1 DEF Ask
      <4>2. /\ srv'.state = "work" /\ srv.state = "work"
            /\ w \in srv.sent /\ w \notin srv'.open
            /\ Ask("finish", p, 0) \notin srv.sent
        BY <3>1, <3>5, <4>1 DEF BlocksWanted, Answered
      <4>3. CASE w \notin srv.open
        BY <4>2, <4>3 DEF BlocksWanted, Answered
      <4>4. CASE w \in srv.open
        <5>1. w \in Matching(m) /\ w.kind = "write" /\ w.path = p
          BY <3>1, <4>2, <4>4 DEF Ask, Request
        <5>2. m.req.kind = "write" /\ m.req.path = p /\ m.req.index = w.index
          BY <5>1 DEF Matching
        <5>3. m.ok
          BY <3>1, <4>2, <5>1, <5>2
        <5>4. m.req = w
          <6>1. m.req \in Requests /\ w \in ServerRequests
            <7>1. m \in Range(queueSend)
              BY <1>5, HeadTailProperties DEF Typed, QueuesTyped
            <7> QED
              BY <4>4, <7>1 DEF Typed, QueuesTyped, AnswersServer, IsAnswer, ServerTyped
          <6>2. /\ m.req = Request(m.req.kind, 1, m.req.path, m.req.index)
                /\ w = Request(w.kind, 1, w.path, w.index)
            BY <6>1, OneAttemptOnly, OneAttempt
          <6> HIDE DEF m, w
          <6> QED
            BY <5>1, <5>2, <6>2
        <5>5. HasOk(queueSend, w) /\ w \in ServerRequests
          BY <2>2, <4>4, <5>3, <5>4 DEF Typed, ServerTyped
        <5> QED
          BY <5>1, <5>5, Zenon DEF ToldToSend
      <4> QED
        BY <4>3, <4>4
    <3>6. NoMoreRelied
      BY <1>3, <3>3, <3>4, <3>5 DEF NoMoreRelied, Relied
    <3>7. \A p : WrittenAtPresent(p)' <=> WrittenAtPresent(p)
      BY <1>1 DEF WrittenAtPresent, writing
    <3> QED
      BY <1>1, <1>2, <3>2, <3>6, <3>7 DEF WriteInv, NoMoreRelied, NoMoreWrites, writing
  <2> QED
    BY <2>1, <2>3, <2>4
<1> QED
  BY <1>4, <1>5

\* Blocks and the end of a file are asked for while they are wanted.
LEMMA WriteAskKept ==
    ASSUME MaxAttempts = 1, Typed, AskInv, WriteInv, MessageReceived, NEW r, Asks(r)
    PROVE  WriteInv'
<1>1. /\ UNCHANGED <<pending, queueSend, job, pc, writing>>
      /\ queueReceived' = Append(queueReceived, r)
      /\ srv'.sent = srv.sent \cup {r} /\ srv'.open = srv.open \cup {r}
      /\ srv'.attempt = srv.attempt /\ srv'.state = "work" /\ srv.state = "work"
      /\ r \notin srv.sent /\ r \in WantedRequests
  BY DEF MessageReceived, threads, Asks
<1>2. r \in ServerRequests /\ srv.attempt = 1 /\ AskedInOrder
  BY <1>1, WantedAreRequests DEF Typed, ServerTyped, AskInv, None
<1>3. \A p : BlocksWanted(p)' => BlocksWanted(p)
  <2>1. \A k, p : Ask(k, p, 0)' = Ask(k, p, 0)
    BY <1>1 DEF Ask
  <2> QED
    BY <1>1, <2>1 DEF BlocksWanted, Answered
<1>4. ASSUME NEW p, BlocksCome(p)'
      PROVE  BlocksCome(p) \/ BlocksWanted(p)
  <2>1. PICK y \in ServerRequests :
           y.kind \in {"data", "finish"} /\ y.path = p /\ Has(queueReceived', y)
    BY <1>4 DEF BlocksCome
  <2>2. CASE Has(queueReceived, y)
    BY <2>1, <2>2 DEF BlocksCome
  <2>3. CASE ~ Has(queueReceived, y)
    <3>1. r = y
      BY <1>1, <1>2, <2>1, <2>3, HasAppended DEF Typed, QueuesTyped
    <3>2. /\ r.kind = "finish" => r.index = 0
          /\ r.kind = "data" => r \in DataRequests(p)
          /\ Answered(Ask("write", p, 0))
      BY <1>1, <2>1, <3>1, WantedByKind
    <3>3. Ask("finish", p, 0) \notin srv.sent
      <4>1. CASE r.kind = "finish"
        <5>1. r = Request("finish", 1, p, 0)
          BY <1>2, <2>1, <3>1, <3>2, <4>1, OneAttempt
        <5> QED
          BY <1>1, <1>2, <5>1 DEF Ask
      <4>2. CASE r.kind = "data"
        <5>1. ~ Answered(r)
          BY <1>1 DEF Answered
        <5>2. \A f \in srv.sent : f.kind = "finish" => f.path # p
          BY <1>2, <3>2, <4>2, <5>1 DEF AskedInOrder
        <5> QED
          BY <5>2 DEF Ask, Request
      <4> QED
        BY <2>1, <3>1, <4>1, <4>2
    <3> QED
      BY <1>1, <3>2, <3>3 DEF BlocksWanted
  <2> QED
    BY <2>2, <2>3
<1>5. \A p : (ToldToSend(p)' => ToldToSend(p)) /\ (AboutToTell(p)' => AboutToTell(p))
  BY <1>1 DEF ToldToSend, AboutToTell
<1>6. NoMoreRelied
  BY <1>3, <1>4, <1>5 DEF NoMoreRelied, Relied
<1>7. NoMoreWrites
  BY <1>1 DEF NoMoreWrites, Held
<1>8. \A p : WrittenAtPresent(p)' <=> WrittenAtPresent(p)
  BY <1>1 DEF WrittenAtPresent, writing
<1> QED
  BY <1>1, <1>6, <1>7, <1>8 DEF WriteInv, NoMoreRelied, NoMoreWrites, writing

LEMMA WriteBeginKept ==
    ASSUME MaxAttempts = 1, Typed, AskInv, PlacesInv, MessageReceived, BeginAttempt
    PROVE  WriteInv'
<1> DEFINE e == LayoutRequest(1)
<1>1. /\ UNCHANGED <<pending, queueSend, job, pc>>
      /\ srv.attempt = 0 /\ queueReceived' = Append(queueReceived, e) /\ srv'.sent = {e}
      /\ srv'.attempt = 1
  BY BeginsOne DEF Typed, MessageReceived, threads
<1>2. Live /\ srv.open = {} /\ e \in ServerRequests /\ e.kind = "layout"
  <2>1. srv.state = "idle"
    BY <1>1 DEF AskInv
  <2>2. e \in ServerRequests /\ e.kind = "layout"
    BY RequestsOfServer DEF Attempts, LayoutRequest, Request
  <2> QED
    BY <1>1, <2>1, <2>2 DEF Live, AskInv, None
<1> HIDE DEF e
<1>3. \A r \in ServerRequests : r.kind \in Kinds => ~ Somewhere(r)
  BY <1>2 DEF PlacesInv
<1>4. \A p : ~ BlocksCome(p)'
  <2>1. ASSUME NEW r \in ServerRequests, r.kind \in {"data", "finish"}, Has(queueReceived', r)
        PROVE  FALSE
    BY <1>1, <1>2, <1>3, <2>1, HasAppended DEF Typed, QueuesTyped, Somewhere, Kinds
  <2> QED
    BY <2>1 DEF BlocksCome
<1>5. \A p : ~ BlocksWanted(p)'
  BY <1>1, <1>2 DEF BlocksWanted, Answered, Ask, Request
<1>6. \A p : ~ ToldToSend(p)'
  BY <1>1, <1>3, OkSomewhere DEF ToldToSend, Kinds
<1>7. \A p : ~ AboutToTell(p)'
  BY <1>1, <1>3, ToldSomewhere DEF AboutToTell, Kinds
<1>8. \A w \in ServerRequests : w.kind = "write" => ~ Has(pending', w) /\ ~ Held(w)'
  BY <1>1, <1>3 DEF Somewhere, Held, Kinds
<1> QED
  BY <1>4, <1>5, <1>6, <1>7, <1>8 DEF WriteInv, Relied

\* The status of a file changes at its beginning and at its end only.
LEMMA StatusKept ==
    ASSUME Typed, NEW p \in Procs, AtWork(p), ~ WriteFile(p)
    PROVE  /\ job[p].req.kind = "write" /\ pc'[p] # "write" /\ job'[p].ok
                 => pc[p] # "write" /\ job[p].ok
           /\ \/ UNCHANGED fileWrite
              \/ /\ job[p].req.kind = "finish"
                 /\ \E status : fileWrite' = [fileWrite EXCEPT
                       ![<<job[p].req.at, job[p].req.path>>].status = status]
<1>1. /\ p \in Threads /\ DOMAIN job = Threads
      /\ Busy(p) => Fits(job[p].req.kind, pc[p])
  BY DEF Threads, Typed, ThreadsTyped
<1>2. CASE SetDirtyFileLayout(p)
  BY <1>2 DEF SetDirtyFileLayout, Continue, writing
<1>3. CASE ~ SetDirtyFileLayout(p)
  <2>1. job[p].req.kind # "write"
    <3>1. CASE ListFiles(p) \/ AddFileToLayout(p) \/ LayoutBuilt(p)
               \/ CalcFileBlockHashes(p) \/ StoreFileBlockHashes(p)
               \/ DeleteFile(p) \/ RemoveFileIfPresent(p)
      BY <1>1, <3>1
         DEF ListFiles, AddFileToLayout, LayoutBuilt, CalcFileBlockHashes,
             StoreFileBlockHashes, DeleteFile, RemoveFileIfPresent, Fits, Busy
    <3>2. CASE LookForFile(p) \/ OpenFile(p) \/ WriteBlock(p)
               \/ FinishWriteFile(p) \/ AddFile(p)
      BY <1>1, <3>2
         DEF LookForFile, OpenFile, WriteBlock, FinishWriteFile, AddFile, Fits, Busy
    <3> QED
      BY <1>3, <3>1, <3>2 DEF AtWork
  <2>2. \/ UNCHANGED fileWrite
        \/ /\ job[p].req.kind = "finish"
           /\ \E status : fileWrite' = [fileWrite EXCEPT
                 ![<<job[p].req.at, job[p].req.path>>].status = status]
    <3>1. CASE ListFiles(p) \/ AddFileToLayout(p) \/ LayoutBuilt(p)
               \/ CalcFileBlockHashes(p) \/ StoreFileBlockHashes(p)
               \/ DeleteFile(p) \/ RemoveFileIfPresent(p)
      BY <3>1
         DEF ListFiles, AddFileToLayout, LayoutBuilt, CalcFileBlockHashes,
             StoreFileBlockHashes, DeleteFile, RemoveFileIfPresent, writing
    <3>2. CASE LookForFile(p) \/ OpenFile(p) \/ WriteBlock(p)
      BY <3>2 DEF LookForFile, OpenFile, WriteBlock, writing
    <3>3. CASE FinishWriteFile(p)
      <4>1. job[p].req.kind = "finish"
        BY <1>1, <3>3 DEF FinishWriteFile, Fits, Busy
      <4> QED
        BY <3>3, <4>1, Zenon DEF FinishWriteFile, SetStatus
    <3>4. CASE AddFile(p)
      <4>1. job[p].req.kind = "finish"
        BY <1>1, <3>4 DEF AddFile, Fits, Busy
      <4> QED
        BY <3>4, <4>1, Zenon DEF AddFile, SetStatus
    <3> QED
      BY <1>3, <3>1, <3>2, <3>3, <3>4 DEF AtWork
  <2> QED
    BY <2>1, <2>2
<1> QED
  BY <1>2, <1>3

LEMMA WriteWorkKept ==
    ASSUME MaxAttempts = 1, Typed, AskInv, PlacesInv, WriteInv, NEW p \in Procs, AtWork(p)
    PROVE  WriteInv'
<1> SUFFICES ASSUME srv.state # "idle"
             PROVE  WriteInv'
  BY WorkGoesOn DEF WriteInv
<1> DEFINE x == job[p].req
<1>1. /\ p \in Threads /\ x \in ServerRequests
      /\ \A t \in Threads : job'[t].req = job[t].req
      /\ \A t \in Threads \ {p} : pc'[t] = pc[t] /\ job'[t] = job[t]
      /\ UNCHANGED <<queueReceived, pending, queueSend, srv, writeTasks>>
  BY WorkGoesOn DEF Typed, ThreadsTyped
<1>2. \A w : Held(w)' <=> Held(w)
  BY <1>1 DEF Held
<1>3. NoMoreWrites
  BY <1>1, <1>2 DEF NoMoreWrites
<1>4. Live /\ Held(x) /\ Somewhere(x)
  BY <1>1 DEF Live, Held, Somewhere
<1>5. \A q : /\ BlocksCome(q)' <=> BlocksCome(q)
             /\ BlocksWanted(q)' <=> BlocksWanted(q)
             /\ ToldToSend(q)' <=> ToldToSend(q)
  BY <1>1 DEF BlocksCome, BlocksWanted, ToldToSend, Answered, Ask
<1>6. CASE ~ WriteFile(p)
  <2>1. \A q : AboutToTell(q)' => AboutToTell(q)
    BY <1>1, <1>6, StatusKept DEF AboutToTell, Threads
  <2>2. NoMoreRelied
    BY <1>5, <2>1 DEF NoMoreRelied, Relied
  <2>3. CASE UNCHANGED fileWrite
    BY <1>1, <1>3, <2>2, <2>3, WriteKept DEF writing
  <2>4. CASE /\ x.kind = "finish"
             /\ \E status : fileWrite' = [fileWrite EXCEPT ![<<x.at, x.path>>].status = status]
    <3>1. /\ ~ BlocksWanted(x.path)
          /\ \A r \in ServerRequests :
                r.kind \in {"data", "finish"} /\ r.path = x.path /\ Somewhere(r) => r = x
          /\ \A v \in ServerRequests :
                v.kind = "write" /\ v.path = x.path => ~ Somewhere(v)
      BY <1>1, <1>4, <2>4, FinishAlone
    <3>2. ~ Relied(x.path)
      <4>1. NotTwice(x)
        BY <1>1, <1>4, <2>4, Unanswered DEF Kinds
      <4>2. ~ Has(queueReceived, x)
        BY <1>4, <4>1 DEF NotTwice
      <4>3. ~ BlocksCome(x.path)
        BY <3>1, <4>2 DEF BlocksCome, Somewhere
      <4>4. ~ ToldToSend(x.path) /\ ~ AboutToTell(x.path)
        BY <3>1, OkSomewhere, ToldSomewhere DEF ToldToSend, AboutToTell
      <4> QED
        BY <3>1, <4>3, <4>4 DEF Relied
    <3>3. \A q \in Paths : q # x.path /\ WrittenAtPresent(q) => WrittenAtPresent(q)'
      BY <1>1, <2>4 DEF WrittenAtPresent, Typed, WritesTyped
    <3> QED
      BY <1>1, <1>3, <2>2, <3>2, <3>3 DEF WriteInv, NoMoreRelied, NoMoreWrites
  <2> QED
    BY <1>6, <2>3, <2>4, StatusKept
<1>7. CASE WriteFile(p)
  <2>1. x.kind = "write" /\ x.at = 1 /\ x.path \in Paths /\ x.path \in DOMAIN writeTasks
    <3>1. x.kind = "write"
      BY <1>1, <1>7 DEF WriteFile, Typed, ThreadsTyped, Fits, Busy
    <3>2. x.at = 1 /\ x.path \in Paths
      BY <1>1, <3>1, OneAttempt, RequestFields DEF Kinds
    <3> QED
      BY <1>1, <1>4, <3>1, <3>2 DEF WriteInv
  <2>2. \/ /\ fileWrite' = [fileWrite EXCEPT ![<<1, x.path>>].status = "processing"]
        \/ /\ fileWrite' = [fileWrite EXCEPT ![<<1, x.path>>].status = "failure"]
           /\ ~ job'[p].ok
    BY <1>1, <1>7, <2>1 DEF WriteFile, SetStatus, Failed, Went, Typed, ThreadsTyped, IsJob, NoJob
  <2>3. \A q \in Paths : q # x.path /\ WrittenAtPresent(q) => WrittenAtPresent(q)'
    BY <1>1, <2>1, <2>2 DEF WrittenAtPresent, Typed, WritesTyped
  <2>4. \A q \in Paths : q # x.path /\ AboutToTell(q)' => AboutToTell(q)
    BY <1>1 DEF AboutToTell, Threads
  <2>5. ASSUME NEW q \in Paths, q # x.path, Relied(q)'
        PROVE  WrittenAtPresent(q)'
    BY <1>5, <2>3, <2>4, <2>5 DEF WriteInv, Relied
  <2>6. ASSUME NEW q \in Paths, q = x.path, Relied(q)'
        PROVE  WrittenAtPresent(q)'
    <3>1. CASE fileWrite' = [fileWrite EXCEPT ![<<1, x.path>>].status = "processing"]
      BY <1>1, <2>1, <2>6, <3>1 DEF WrittenAtPresent, Typed, WritesTyped, Attempts
    <3>2. CASE ~ job'[p].ok
      <4>1. /\ ~ BlocksCome(q) /\ ~ BlocksWanted(q)
            /\ \A v \in ServerRequests :
                  v.kind = "write" /\ v.path = q /\ Somewhere(v) => v = x
        BY <1>1, <1>4, <2>1, <2>6, WriteAlone
      <4>2. NotTwice(x)
        BY <1>1, <1>4, <2>1, Unanswered DEF Kinds
      <4>3. ~ ToldToSend(q)
        BY <1>4, <4>1, <4>2, OkSomewhere DEF ToldToSend, NotTwice
      <4>4. ~ AboutToTell(q)'
        <5>1. SUFFICES ASSUME NEW t \in Procs, job'[t].req.kind = "write",
                              job'[t].req.path = q, job'[t].ok
                       PROVE  FALSE
          BY DEF AboutToTell
        <5>2. t \in Threads /\ t # p /\ job[t].req.kind = "write" /\ job[t].req.path = q
          BY <1>1, <3>2, <5>1 DEF Threads
        <5>3. job[t].req = x
          BY <4>1, <5>2, ToldSomewhere
        <5> QED
          BY <1>1, <4>2, <5>2, <5>3 DEF NotTwice, HeldOnce
      <4> QED
        BY <1>5, <2>6, <4>1, <4>3, <4>4 DEF Relied
    <3> QED
      BY <2>2, <3>1, <3>2
  <2> QED
    BY <1>1, <1>3, <2>5, <2>6 DEF WriteInv, NoMoreWrites
<1> QED
  BY <1>6, <1>7

LEMMA WriteProcKept ==
    ASSUME MaxAttempts = 1, Typed, HandsEmpty, AskInv, PlacesInv, WriteInv,
           NEW p \in Procs, ProcStep(p)
    PROVE  WriteInv'
<1>0. p \in Threads /\ DOMAIN job = Threads /\ DOMAIN pc = Threads /\ \A t \in Procs : t \in Threads
  BY DEF Threads, Typed, ThreadsTyped
<1>1. CASE AtWork(p)
  BY <1>1, WriteWorkKept
<1>2. CASE ExitRun(p)
  <2>1. /\ UNCHANGED <<queueReceived, pending, queueSend, srv, job, writing>>
        /\ \A t \in Procs : pc'[t] # "write" => pc[t] # "write"
    BY <1>0, <1>2 DEF ExitRun, Continue, Goto, queues
  <2>2. NoMoreRelied
    BY <2>1, MainTellsNothing, ReliedKept
  <2>3. NoMoreWrites
    BY <2>1 DEF NoMoreWrites, Held
  <2> QED
    BY <2>1, <2>2, <2>3, WriteKept
<1>3. CASE TakeTask(p)
  <2>1. PICK i \in DOMAIN pending :
           /\ pending' = Erased(i)
           /\ pc' = [pc EXCEPT ![p] = pending[i].kind]
           /\ job' = [job EXCEPT ![p] = JobOf(pending[i])]
    BY <1>3, Zenon DEF TakeTask, Goto
  <2>2. UNCHANGED <<queueReceived, queueSend, srv, writing>>
    BY <1>3 DEF TakeTask, queues
  <2>3. /\ job'[p].req = pending[i] /\ pc'[p] = pending[i].kind
        /\ \A t \in Threads \ {p} : job'[t] = job[t] /\ pc'[t] = pc[t]
    BY <1>0, <2>1 DEF JobOf, NoJob
  <2>4. \A q : AboutToTell(q)' => AboutToTell(q)
    BY <1>0, <2>3 DEF AboutToTell
  <2>5. NoMoreRelied
    BY <2>2, <2>4, ReliedKept
  <2>6. NoMoreWrites
    <3>1. ASSUME NEW w, Has(pending', w)
          PROVE  Has(pending, w)
      <4>1. Has(RemoveAt(pending, i), w)
        BY <2>1, <3>1 DEF Erased
      <4> QED
        BY <4>1, ErasedHas DEF Typed, QueuesTyped
    <3>2. ASSUME NEW w, Held(w)'
          PROVE  Has(pending, w) \/ Held(w)
      BY <2>3, <3>2 DEF Held, Has
    <3> QED
      BY <3>1, <3>2 DEF NoMoreWrites
  <2> QED
    BY <2>2, <2>5, <2>6, WriteKept
<1>4. CASE SetFileLayout(p) \/ SendResponse(p)
  <2>1. /\ Return(p) /\ UNCHANGED <<queueReceived, pending, srv, writing>>
        /\ UNCHANGED queueSend \/ SendResponse(p)
    BY <1>4 DEF SetFileLayout, SendResponse, queues
  <2>2. /\ job'[p] = NoJob
        /\ \A t \in Threads \ {p} : job'[t] = job[t] /\ pc'[t] = pc[t]
    BY <1>0, <2>1 DEF Return, Goto
  <2>3. \A q : AboutToTell(q)' => AboutToTell(q)
    BY <1>0, <2>2 DEF AboutToTell, NoJob, NoRequest, Request
  <2>4. NoMoreWrites
    <3>1. ASSUME NEW w, w.kind = "write", Held(w)'
          PROVE  Held(w)
      BY <2>2, <3>1 DEF Held, NoJob, NoRequest, Request
    <3> QED
      BY <2>1, <3>1 DEF NoMoreWrites
  <2>5. NoMoreRelied
    <3>1. CASE UNCHANGED queueSend
      BY <2>1, <2>3, <3>1, ReliedKept
    <3>2. CASE SendResponse(p)
      <4> DEFINE m == Answer(job[p].req, job[p].ok, job[p].body)
      <4>1. /\ pc[p] = "answer" /\ queueSend' \in {queueSend, Append(queueSend, m)}
            /\ m.req = job[p].req /\ m.ok = job[p].ok
        BY <3>2 DEF SendResponse, Queued, Answer
      <4>2. \A w : HasOk(queueSend', w) => HasOk(queueSend, w) \/ (job[p].req = w /\ job[p].ok)
        <5> DEFINE S == Range(queueSend) \cup {m}
        <5>1. queueSend \in Seq(S) /\ m \in S
          BY SeqMonotonic DEF Typed, QueuesTyped
        <5> HIDE DEF m, S
        <5> QED
          BY <4>1, <5>1, OkAppended
      <4>3. \A q : ToldToSend(q)' => ToldToSend(q) \/ AboutToTell(q)
        BY <4>1, <4>2 DEF ToldToSend, AboutToTell
      <4>4. \A q : (BlocksCome(q)' => BlocksCome(q)) /\ (BlocksWanted(q)' => BlocksWanted(q))
        BY <2>1 DEF BlocksCome, BlocksWanted, Answered, Ask
      <4> QED
        BY <2>3, <4>3, <4>4 DEF NoMoreRelied, Relied
    <3> QED
      BY <2>1, <3>1, <3>2
  <2> QED
    BY <2>1, <2>4, <2>5, WriteKept
<1> QED
  BY <1>1, <1>2, <1>3, <1>4, ProcSteps

LEMMA WriteInvKept ==
    ASSUME MaxAttempts = 1, Typed, HandsEmpty, AskInv, PlacesInv, WriteInv, [Next]_vars
    PROVE  WriteInv'
<1>1. CASE UNCHANGED vars
  <2>1. UNCHANGED <<queueReceived, pending, queueSend, srv, writing, job, pc>>
    BY <1>1 DEF vars, queues, threads
  <2>2. NoMoreRelied
    BY <2>1, MainTellsNothing, ReliedKept
  <2>3. NoMoreWrites
    BY <2>1 DEF NoMoreWrites, Held
  <2> QED
    BY <2>1, <2>2, <2>3, WriteKept
<1>2. CASE ConnectTo \/ ConnectionEstablished \/ MessageReceivedConnect
  <2>1. /\ UNCHANGED <<queueReceived, pending, queueSend, srv, writing, job>>
        /\ \A t \in Procs : pc'[t] # "write" => pc[t] # "write"
    <3>1. CASE ConnectTo
      <4>1. UNCHANGED <<queueReceived, pending, queueSend, srv, writing, job>>
        BY <3>1 DEF ConnectTo, queues
      <4> DEFINE started == [t \in Threads |-> IF pc[t] = "off" THEN "idle" ELSE pc[t]]
      <4>2. pc' = started \/ pc' = [started EXCEPT ![Main] = "join"]
        BY <3>1, Zenon DEF ConnectTo
      <4>3. \A t \in Procs : pc'[t] = started[t] /\ t \in Threads
        BY <4>2, ThreadsAssumption DEF Threads
      <4> QED
        BY <4>1, <4>3
    <3>2. CASE ConnectionEstablished \/ MessageReceivedConnect
      BY <3>2 DEF ConnectionEstablished, MessageReceivedConnect, queues, threads
    <3> QED
      BY <1>2, <3>1, <3>2
  <2>2. NoMoreRelied
    BY <2>1, MainTellsNothing, ReliedKept
  <2>3. NoMoreWrites
    BY <2>1 DEF NoMoreWrites, Held
  <2> QED
    BY <2>1, <2>2, <2>3, WriteKept
<1>3. CASE MessageReceived
  <2>1. CASE BeginAttempt
    BY <1>3, <2>1, WriteBeginKept
  <2>2. CASE SendRequest
    <3>1. PICK r : Asks(r)
      BY <2>2, SendsOne DEF Typed
    <3> QED
      BY <1>3, <3>1, WriteAskKept
  <2> QED
    BY <1>3, <2>1, <2>2 DEF MessageReceived
<1>4. CASE Disconnect \/ ConnectionClosed
  BY <1>4, CloseResets DEF WriteInv
<1> QED
  BY <1>1, <1>2, <1>3, <1>4, WriteSendKept, WriteUpdateKept, WriteProcKept
     DEF Next, NetworkStep

-------------------------------------------------------------------------------
(* One request, one place *)

RequestsInv == HandsEmpty /\ AskInv /\ PlacesInv /\ WriteInv

LEMMA InitRequests == Init => RequestsInv
<1> SUFFICES ASSUME Init
             PROVE  RequestsInv
  OBVIOUS
<1>1. \A t \in Threads : job[t].req = NoRequest
  BY DEF Init, NoJob
<1>2. HandsEmpty
  BY <1>1 DEF HandsEmpty, Threads
<1>3. srv.state = "idle" /\ srv.open = {}
  BY DEF Init, NewServer
<1>4. AskInv /\ WriteInv
  BY <1>3 DEF AskInv, WriteInv
<1>5. queueReceived = <<>> /\ pending = <<>> /\ queueSend = <<>>
  BY DEF Init
<1>6. ASSUME NEW r \in ServerRequests, r.kind \in Kinds
      PROVE  NotTwice(r) /\ ~ Somewhere(r)
  <2>1. r # NoRequest
    BY <1>6 DEF NoRequest, Request, Kinds
  <2>2. ~ Held(r) /\ HeldOnce(r)
    BY <1>1, <2>1 DEF Held, HeldOnce
  <2> QED
    BY <1>5, <2>2 DEF NotTwice, Somewhere, Has, HasAnswer, AtMostOne, AtMostOneAnswer
<1>7. PlacesInv
  BY <1>3, <1>6 DEF PlacesInv
<1> QED
  BY <1>2, <1>4, <1>7 DEF RequestsInv

LEMMA InOnePlace ==
    ASSUME Typed, RequestsInv
    PROVE  RequestInOnePlace
<1> SUFFICES ASSUME NEW r \in srv.open, r.kind # "layout"
             PROVE  Places(r) = 1
  BY DEF RequestInOnePlace
<1>1. r \in ServerRequests /\ r.kind \in Kinds
  <2>1. r \in ServerRequests
    BY DEF Typed, ServerTyped
  <2> QED
    BY <2>1, RequestFields
<1>2. Live
  BY DEF RequestsInv, AskInv, Live
<1>3. NotTwice(r) /\ Somewhere(r)
  BY <1>1, <1>2 DEF RequestsInv, PlacesInv
<1> DEFINE A == {i \in DOMAIN queueReceived : queueReceived[i] = r}
           B == {i \in DOMAIN pending : pending[i] = r}
           C == {t \in Threads : job[t].req = r}
           D == {i \in DOMAIN queueSend : queueSend[i].req = r}
<1>4. /\ Has(queueReceived, r) => \E i : A = {i}
      /\ ~ Has(queueReceived, r) => A = {}
  BY <1>3 DEF NotTwice, Has, AtMostOne
<1>5. /\ Has(pending, r) => \E i : B = {i}
      /\ ~ Has(pending, r) => B = {}
  BY <1>3 DEF NotTwice, Has, AtMostOne
<1>6. /\ Held(r) => \E t : C = {t}
      /\ ~ Held(r) => C = {}
  BY <1>3 DEF NotTwice, Held, HeldOnce
<1>7. /\ HasAnswer(queueSend, r) => \E i : D = {i}
      /\ ~ HasAnswer(queueSend, r) => D = {}
  BY <1>3 DEF NotTwice, HasAnswer, AtMostOneAnswer
<1> HIDE DEF A, B, C, D
<1>8. /\ Cardinality(A) = IF Has(queueReceived, r) THEN 1 ELSE 0
      /\ Cardinality(B) = IF Has(pending, r) THEN 1 ELSE 0
      /\ Cardinality(C) = IF Held(r) THEN 1 ELSE 0
      /\ Cardinality(D) = IF HasAnswer(queueSend, r) THEN 1 ELSE 0
  BY <1>4, <1>5, <1>6, <1>7, FS_EmptySet, FS_Singleton
<1>9. Cardinality(A) + Cardinality(B) + Cardinality(C) + Cardinality(D) = 1
  BY <1>3, <1>8 DEF NotTwice, Somewhere
<1> QED
  BY <1>9 DEF Places, A, B, C, D

(* In one attempt to synchronise a request of the server that is not answered yet is in one
   place: it waits in the queue of received messages, is in the hands of Update() or of a
   task processor, is queued as a task or as an answer, and nowhere a second time. *)
THEOREM RequestsInOnePlace ==
    ASSUME MaxAttempts = 1
    PROVE  Spec => []RequestInOnePlace
<1>1. Init => Typed /\ RequestsInv
  BY InitTyped, InitRequests
<1>2. Typed /\ RequestsInv /\ [Next]_vars => (Typed /\ RequestsInv)'
  BY NextTyped, HandsEmptyKept, AskInvKept, PlacesInvKept, WriteInvKept DEF RequestsInv
<1>3. Typed /\ RequestsInv => RequestInOnePlace
  BY InOnePlace
<1> QED
  BY <1>1, <1>2, <1>3, PTL DEF Spec

-------------------------------------------------------------------------------
(* From here on a single attempt, which may lose its connection, with any number of
   processors: what the launcher says is true.  First, where the request for the
   layout is. *)

TheLayout == LayoutRequest(1)

LayoutAsked == Has(queueReceived, TheLayout)
LayoutTold == HasAnswer(queueSend, TheLayout)
Building == Has(pending, TheLayout) \/ Held(TheLayout)

\* The server waits for the layout, or the answer is on its way.
LayoutDue == LayoutAsked \/ pendingRequest \/ LayoutTold

\* There is one request for the layout, and one task to build it while it waits.
LayoutOnce ==
    /\ NotTwice(TheLayout)
    /\ LayoutAsked => ~ pendingRequest
    /\ pendingRequest => ~ LayoutTold
    /\ Building => pendingRequest
    /\ pc[Main] = "push" => job[Main].req.kind # "layout"

\* The layout is built once, and answers the request when Update() finds it.
LayoutSlots ==
    /\ Building \/ LayoutAsked => nextLayout = None
    /\ layout # None => nextLayout = layout
    /\ nextLayout # None /\ layout = None => pendingRequest
    /\ pendingRequest /\ layout # None => pc[Main] = "changed"
    /\ pendingRequest /\ pc[Main] = "changed" => layout # None

\* Until the layout is sent nothing else is done.
LayoutFirst ==
    /\ LayoutDue => /\ ~ dirty /\ DOMAIN writeTasks = {}
                    /\ \A r : FileRequest(r) => ~ Somewhere(r)
    /\ LayoutDue /\ srv.state # "idle" => TheLayout \in srv.open
    /\ srv.attempt = None =>
          queueSend = <<>> /\ nextLayout = None /\ ~ dirty /\ DOMAIN writeTasks = {}

LayoutInv == LayoutOnce /\ LayoutSlots /\ LayoutFirst

-------------------------------------------------------------------------------
(* Which requests can be about at the same time, whether or not the server still
   waits for them *)

Changes == {"delete", "write", "data", "finish"}

\* Files are deleted that the server has not; only blocks have an index.
Sensible(r) ==
    /\ r.kind = "delete" => r.path \notin DOMAIN ServerDirs[1]
    /\ r.kind # "data" => r.index = 0

\* No change before every hash is answered, no block before the file is opened, no end
\* before the last block.
Together(r, s) ==
    /\ r.kind = "hashes" => s.kind \notin Changes
    /\ r.kind = "write" /\ s.kind \in {"data", "finish"} => r.path # s.path
    /\ r.kind = "data" /\ s.kind = "finish" => r.path # s.path

InOrder ==
    /\ \A r : FileRequest(r) => NotTwice(r)
    /\ \A r : FileRequest(r) /\ Somewhere(r) => Sensible(r)
    /\ \A r, s : FileRequest(r) /\ FileRequest(s) /\ Somewhere(r) /\ Somewhere(s)
                    => Together(r, s)

\* When the connection is gone nothing is asked for any more, and what is about
\* gets less.
ClosedInv == ~ Live => InOrder

\* The server writes the files that differ and deletes those it has not.
SentInv ==
    srv.state # "idle" =>
        \A r \in srv.sent :
            /\ r.kind = "write" => r.path \in WritePaths
            /\ r.kind = "delete" => r.path \in DeletePaths
            /\ r.kind \in Kinds \ {"data"} => r.index = 0

-------------------------------------------------------------------------------
(* The file tasks *)

StatusOf(p) == fileWrite[<<1, p>>].status

\* A task waiting for a processor, or in somebody's hands.
Waiting(r) == Has(pending, r) \/ Held(r)

StatusInv ==
    /\ \A r : FileRequest(r) /\ r.kind = "write" /\ Has(queueReceived, r) =>
          StatusOf(r.path) = "none"
    /\ srv.attempt = None => \A p \in Paths : StatusOf(p) = "none"
    /\ srv.state # "idle" =>
          \A p \in Paths : Request("write", 1, p, 0) \notin srv.sent => StatusOf(p) = "none"
    /\ \A r : FileRequest(r) /\ r.kind \in {"write", "data"} /\ Waiting(r) =>
          r.path \in DOMAIN writeTasks
    /\ \A r : FileRequest(r) /\ r.kind = "finish" /\ Waiting(r) =>
          StatusOf(r.path) # "none"
    /\ \A p \in DOMAIN writeTasks : StatusOf(p) # "none"

-------------------------------------------------------------------------------
(* What the layout says *)

\* A task about the file at this path is between a change on disk and the layout, or
\* will mark the layout dirty.
Unsettled(p) ==
    \/ p \in DOMAIN writeTasks
    \/ Has(pending, Request("finish", 1, p, 0))
    \/ \E t \in Procs :
          /\ job[t].req.path = p
          /\ \/ job[t].req.kind = "finish" /\ pc[t] \in {"finish", "add", "dirty"}
             \/ job[t].req.kind = "delete" /\ pc[t] \in {"forget", "dirty"}

BuiltTruly ==
    \A t \in Procs :
        /\ pc[t] = "hashing" =>
              /\ job[t].todo \subseteq DOMAIN disk
              /\ \A q \in Paths : q \notin job[t].todo => SameAt(content[1], disk, q)
        /\ pc[t] = "publish" /\ job[t].ok => SameDir(content[1], disk)

KnownOrUnsettled ==
    nextLayout = 1 /\ ~ dirty =>
        \A p \in Paths : Unsettled(p) \/ SameAt(content[1], disk, p)

\* Also what a dirty layout says of a file not to be written yet.
KnownUntilWritten ==
    nextLayout = 1 =>
        \A p \in DOMAIN ServerDirs[1] :
            StatusOf(p) = "none" => SameAt(content[1], disk, p)

\* The file put back without blocks is still the one in the layout.
PutBackTruly ==
    pc[Main] = "recut" =>
        /\ job[Main].layout = 1
        /\ job[Main].req.path \in DOMAIN content[1]
        /\ content[1][job[Main].req.path] = job[Main].body

ForgottenInTheLayout == \A t \in Procs : pc[t] = "forget" => job[t].layout = 1

KnownInv ==
    /\ BuiltTruly /\ KnownOrUnsettled /\ KnownUntilWritten
    /\ PutBackTruly /\ ForgottenInTheLayout

-------------------------------------------------------------------------------
(* What the answers say *)

\* The file is not longer than it shall be.
Fitting(p) == p \in DOMAIN disk => Len(disk[p]) <= Len(ServerDirs[1][p])

Ready(p) == Fitting(p) /\ (ServerDirs[1][p] = <<>> => p \in DOMAIN disk)

\* What it means that a request succeeded.
Truly(r, body) ==
    /\ r.kind = "hashes" => r.path \in DOMAIN disk /\ body = disk[r.path]
    /\ r.kind = "delete" => r.path \notin DOMAIN disk
    /\ r.kind = "write" => Fitting(r.path)
    /\ r.kind = "data" => r.path \in DOMAIN disk
    /\ r.kind = "finish" => r.path \in DOMAIN disk /\ disk[r.path] = ServerDirs[1][r.path]

\* The processor still has to do what the request asks for.
Ahead == {"hashes", "delete", "write", "data", "open", "create", "put", "finish"}

Past(t) == Busy(t) /\ pc[t] \notin Ahead

AnswersInv ==
    \A i \in DOMAIN queueSend :
        LET m == queueSend[i] IN
        /\ m.req \in ServerRequests
        /\ m.req = TheLayout => m.body = disk
        /\ m.req.kind \in Kinds /\ m.ok => Truly(m.req, m.body)

HandTrue(t) ==
    /\ Past(t) /\ job[t].req.kind \in Kinds /\ job[t].ok =>
          Truly(job[t].req, job[t].body)
    /\ pc[t] = "dirty" => ~ job[t].ok
    /\ pc[t] \in {"hashes", "store", "add"} => job[t].ok
    /\ pc[t] = "put" => job[t].req.path \in DOMAIN disk

HandsInv == \A t \in Procs : HandTrue(t)

\* A file still to be opened will be truncated or fits.
WaitsToWrite(r) ==
    \/ Has(pending, r)
    \/ \E t \in Threads : job[t].req = r /\ (t = Main \/ pc[t] = "write")

WaitsToFinish(r) ==
    \/ Has(queueReceived, r) \/ Has(pending, r)
    \/ \E t \in Threads : job[t].req = r /\ (t = Main \/ pc[t] = "finish")

WaitingInv ==
    \A r : FileRequest(r) =>
        /\ r.kind = "write" /\ WaitsToWrite(r) =>
              fileWrite[<<1, r.path>>].truncate \/ Fitting(r.path)
        /\ r.kind = "finish" /\ WaitsToFinish(r) => Ready(r.path)

ClaimsInv == AnswersInv /\ HandsInv /\ WaitingInv

-------------------------------------------------------------------------------
(* What the server may rely on *)

\* The server is going to be told that a block was not written.
BlockFailed(p) ==
    \/ \E t \in Procs :
          /\ job[t].req.kind = "data" /\ job[t].req.path = p
          /\ Past(t) /\ ~ job[t].ok
    \/ \E i \in DOMAIN queueSend :
          queueSend[i].req.kind = "data" /\ queueSend[i].req.path = p /\ ~ queueSend[i].ok

\* Neither written nor deleted.
LeftAlone(p) == \A r \in srv.sent : r.kind \in {"write", "delete"} => r.path # p

ReliedInv ==
    srv.state = "work" =>
        /\ \A r \in srv.sent :
              r.kind \in {"delete", "data", "finish"} /\ Answered(r) => Truly(r, <<>>)
        /\ \A p \in Paths :
              Answered(Ask("write", p, 0)) => Fitting(p) \/ BlockFailed(p)
        /\ Answered(TheLayout) =>
              \A p \in Paths : LeftAlone(p) => SameAt(srv.layout, disk, p)

-------------------------------------------------------------------------------
(* How requests move, whether or not the connection lasts *)

Keeps == ProcessRequestFileBlockHashes \/ ProcessRequestWriteFile

Accepts ==
    \/ ProcessRequestDeleteFile
    \/ ProcessSendFileData /\ Head(queueReceived).path \in DOMAIN writeTasks
    \/ ProcessRequestFinishWriteFile /\ Head(queueReceived).path \in DOMAIN writeTasks

\* Where a request can come from, when it is not asked for in this step.
Moved(r) ==
    /\ NotTwice(r)'
    /\ Has(queueReceived', r) => Has(queueReceived, r)
    /\ Has(pending', r) =>
          \/ Has(pending, r)
          \/ pc[Main] = "push" /\ job[Main].req = r
          \/ Has(queueReceived, r) /\ Accepts /\ Head(queueReceived) = r
    /\ \A t \in Threads : job'[t].req = r =>
          \/ job[t].req = r
          \/ Has(queueReceived, r) /\ t = Main /\ Keeps /\ Head(queueReceived) = r
          \/ Has(pending, r) /\ t \in Procs /\ TakeTask(t)
    /\ \A i \in DOMAIN queueSend' : queueSend'[i].req = r =>
          \/ \E j \in DOMAIN queueSend : queueSend'[i] = queueSend[j]
          \/ Has(queueReceived, r) /\ ~ queueSend'[i].ok
          \/ \E p \in Procs : /\ SendResponse(p) /\ job[p].req = r
                              /\ queueSend'[i].ok = job[p].ok
                              /\ queueSend'[i].body = job[p].body

LEMMA MovedWithin ==
    ASSUME NEW r, Moved(r), Somewhere(r)'
    PROVE  Somewhere(r)
<1> USE DEF Moved, Somewhere
<1>1. Has(queueReceived', r) \/ Has(pending', r) \/ Held(r)' \/ HasAnswer(queueSend', r)
  OBVIOUS
<1>2. CASE Has(queueReceived', r)
  BY <1>2
<1>3. CASE Has(pending', r)
  BY <1>3 DEF Held, Threads
<1>4. CASE Held(r)'
  BY <1>4 DEF Held
<1>5. CASE HasAnswer(queueSend', r)
  <2>1. PICK i \in DOMAIN queueSend' : queueSend'[i].req = r
    BY <1>5 DEF HasAnswer
  <2> QED
    BY <2>1 DEF HasAnswer, Held, Threads
<1> QED
  BY <1>1, <1>2, <1>3, <1>4, <1>5

LEMMA AnswersIn ==
    ASSUME QueuesTyped, NEW m
    PROVE  /\ \A i \in DOMAIN Append(queueSend, m) :
                 \/ Append(queueSend, m)[i] = m
                 \/ \E j \in DOMAIN queueSend : Append(queueSend, m)[i] = queueSend[j]
           /\ queueSend # <<>> =>
                 \A i \in DOMAIN Tail(queueSend) :
                    \E j \in DOMAIN queueSend : Tail(queueSend)[i] = queueSend[j]
<1> DEFINE S == Range(queueSend) \cup {m}
           n == Len(queueSend)
<1>1. queueSend \in Seq(S) /\ m \in S
  BY SeqMonotonic DEF QueuesTyped
<1> HIDE DEF S
<1>2. n \in Nat /\ DOMAIN queueSend = 1 .. n
  BY <1>1, LenProperties
<1>3. \A i \in DOMAIN Append(queueSend, m) :
         \/ Append(queueSend, m)[i] = m
         \/ \E j \in DOMAIN queueSend : Append(queueSend, m)[i] = queueSend[j]
  <2>1. /\ DOMAIN Append(queueSend, m) = 1 .. n + 1
        /\ \A k \in 1 .. n : Append(queueSend, m)[k] = queueSend[k]
        /\ Append(queueSend, m)[n + 1] = m
    <3> DEFINE u == Append(queueSend, m)
    <3>1. /\ u \in Seq(S) /\ Len(u) = n + 1
          /\ \A k \in 1 .. n : u[k] = queueSend[k]
          /\ u[n + 1] = m
      BY <1>1, AppendProperties
    <3> HIDE DEF u
    <3>2. DOMAIN u = 1 .. n + 1
      BY <3>1, LenProperties
    <3> QED
      BY <3>1, <3>2 DEF u
  <2> QED
    BY <1>2, <2>1
<1>4. ASSUME queueSend # <<>>, NEW i \in DOMAIN Tail(queueSend)
      PROVE  \E j \in DOMAIN queueSend : Tail(queueSend)[i] = queueSend[j]
  <2> DEFINE u == Tail(queueSend)
  <2>1. /\ u \in Seq(S) /\ Len(u) = n - 1
        /\ \A k \in 1 .. n - 1 : u[k] = queueSend[k + 1]
    BY <1>1, <1>2, <1>4, HeadTailProperties
  <2> HIDE DEF u
  <2>2. DOMAIN u = 1 .. n - 1
    BY <2>1, LenProperties
  <2>3. i \in 1 .. n - 1 /\ i + 1 \in 1 .. n
    BY <1>2, <1>4, <2>2 DEF u
  <2> QED
    BY <1>2, <2>1, <2>3 DEF u
<1> QED
  BY <1>3, <1>4

\* A step that leaves the queues and the hands alone.
LEMMA QuietMoved ==
    ASSUME UNCHANGED <<queueReceived, pending, queueSend>>, HandsKept, NEW r, NotTwice(r)
    PROVE  Moved(r)
<1>1. NotTwice(r)'
  BY NothingMoved DEF Kept
<1> QED
  BY <1>1 DEF Moved, HandsKept

\* A request received and forgotten.
LEMMA ForgottenMoved ==
    ASSUME QueuesTyped, queueReceived # <<>>, queueReceived' = Tail(queueReceived),
           UNCHANGED <<pending, queueSend>>, HandsKept, NEW r, NotTwice(r)
    PROVE  Moved(r)
<1>1. AtMostOne(queueReceived', r) /\ (Has(queueReceived', r) => Has(queueReceived, r))
  BY HasTail DEF QueuesTyped, NotTwice
<1>2. (Held(r)' <=> Held(r)) /\ (HeldOnce(r)' <=> HeldOnce(r))
  BY HeldKept
<1>3. NotTwice(r)'
  BY <1>1, <1>2 DEF NotTwice
<1> QED
  BY <1>1, <1>3 DEF Moved, HandsKept

LEMMA AcceptedMoved ==
    ASSUME QueuesTyped, queueReceived # <<>>, queueReceived' = Tail(queueReceived),
           pending' = Append(pending, Head(queueReceived)), Accepts,
           UNCHANGED queueSend, HandsKept, NEW r, NotTwice(r)
    PROVE  Moved(r)
<1> DEFINE x == Head(queueReceived)
<1>1. NotTwice(r)'
  BY ReceivedToPending DEF Kept
<1>2. x \in ServerRequests
  BY HeadTailProperties DEF QueuesTyped
<1>3. (Has(queueReceived', r) => Has(queueReceived, r)) /\ (x = r => Has(queueReceived, r))
  BY HasTail DEF QueuesTyped, NotTwice
<1>4. Has(pending', r) <=> Has(pending, r) \/ x = r
  BY <1>2, HasAppended DEF QueuesTyped
<1> QED
  BY <1>1, <1>3, <1>4 DEF Moved, HandsKept

LEMMA RefusedMoved ==
    ASSUME QueuesTyped, queueReceived # <<>>, queueReceived' = Tail(queueReceived),
           NEW m, m.req = Head(queueReceived), ~ m.ok, queueSend' = Append(queueSend, m),
           UNCHANGED pending, HandsKept, NEW r, NotTwice(r)
    PROVE  Moved(r)
<1> DEFINE x == Head(queueReceived)
<1>1. NotTwice(r)'
  BY ReceivedToAnswers DEF Kept
<1>2. (Has(queueReceived', r) => Has(queueReceived, r)) /\ (x = r => Has(queueReceived, r))
  BY HasTail DEF QueuesTyped, NotTwice
<1>3. \A i \in DOMAIN queueSend' :
         queueSend'[i] = m \/ \E j \in DOMAIN queueSend : queueSend'[i] = queueSend[j]
  BY AnswersIn
<1> QED
  BY <1>1, <1>2, <1>3 DEF Moved, HandsKept

LEMMA KeptMoved ==
    ASSUME QueuesTyped, queueReceived # <<>>, queueReceived' = Tail(queueReceived), Keeps,
           job[Main].req = NoRequest, job'[Main].req = Head(queueReceived),
           \A u \in Threads \ {Main} : job'[u].req = job[u].req,
           UNCHANGED <<pending, queueSend>>, NEW r, FileRequest(r), NotTwice(r)
    PROVE  Moved(r)
<1> DEFINE x == Head(queueReceived)
<1>1. NotTwice(r)'
  BY ReceivedToHand DEF Kept
<1>2. (Has(queueReceived', r) => Has(queueReceived, r)) /\ (x = r => Has(queueReceived, r))
  BY HasTail DEF QueuesTyped, NotTwice
<1>3. \A t \in Threads : job'[t].req = r => job[t].req = r \/ (t = Main /\ x = r)
  OBVIOUS
<1> HIDE DEF x
<1> QED
  BY <1>1, <1>2, <1>3 DEF Moved, x

LEMMA PushedMoved ==
    ASSUME QueuesTyped, pc[Main] = "push", job[Main].req \in ServerRequests,
           job'[Main].req = NoRequest,
           \A u \in Threads \ {Main} : job'[u].req = job[u].req,
           pending' = Append(pending, job[Main].req),
           UNCHANGED <<queueReceived, queueSend>>, NEW r, FileRequest(r), NotTwice(r)
    PROVE  Moved(r)
<1>1. NotTwice(r)'
  BY HandToPending DEF Kept
<1>2. Has(pending', r) <=> Has(pending, r) \/ job[Main].req = r
  BY HasAppended DEF QueuesTyped
<1>3. r # NoRequest
  BY DEF FileRequest, NoRequest, Request, Kinds
<1>4. \A t \in Threads : job'[t].req = r => job[t].req = r
  BY <1>3
<1> QED
  BY <1>1, <1>2, <1>4 DEF Moved

LEMMA TakenMoved ==
    ASSUME QueuesTyped, NEW t \in Procs, t # Main, TakeTask(t), NEW i \in DOMAIN pending,
           pending' = RemoveAt(pending, i),
           job[t].req = NoRequest, job'[t].req = pending[i],
           \A u \in Threads \ {t} : job'[u].req = job[u].req,
           UNCHANGED <<queueReceived, queueSend>>, NEW r, FileRequest(r), NotTwice(r)
    PROVE  Moved(r)
<1>0. t \in Threads
  BY DEF Threads
<1>1. NotTwice(r)'
  BY <1>0, PendingToHand DEF Kept
<1>2. Has(pending', r) => Has(pending, r)
  BY ErasedHas DEF QueuesTyped
<1>3. pending[i] = r => Has(pending, r)
  BY DEF Has
<1> QED
  BY <1>0, <1>1, <1>2, <1>3 DEF Moved

LEMMA AnsweredMoved ==
    ASSUME QueuesTyped, NEW t \in Procs, SendResponse(t), job'[t].req = NoRequest,
           \A u \in Threads \ {t} : job'[u].req = job[u].req,
           queueSend' = Queued(Answer(job[t].req, job[t].ok, job[t].body)),
           UNCHANGED <<queueReceived, pending>>, NEW r, FileRequest(r), NotTwice(r)
    PROVE  Moved(r)
<1> DEFINE m == Answer(job[t].req, job[t].ok, job[t].body)
<1>0. t \in Threads /\ m.req = job[t].req /\ m.ok = job[t].ok /\ m.body = job[t].body
  BY DEF Threads, Answer
<1>1. r # NoRequest
  BY DEF FileRequest, NoRequest, Request, Kinds
<1>2. CASE queueSend' = Append(queueSend, m)
  <2>1. NotTwice(r)'
    BY <1>0, <1>2, HandToAnswers DEF Kept
  <2>2. \A i \in DOMAIN queueSend' :
           queueSend'[i] = m \/ \E j \in DOMAIN queueSend : queueSend'[i] = queueSend[j]
    BY <1>2, AnswersIn
  <2>3. \A u \in Threads : job'[u].req = r => job[u].req = r
    BY <1>1
  <2> HIDE DEF m
  <2> QED
    BY <1>0, <2>1, <2>2, <2>3 DEF Moved
<1>3. CASE queueSend' = queueSend
  <2>1. /\ HeldOnce(r)'
        /\ Held(r)' => Held(r)
    BY <1>0, LetGo DEF NotTwice
  <2>2. \A u \in Threads : job'[u].req = r => job[u].req = r
    BY <1>1
  <2>3. NotTwice(r)'
    BY <1>3, <2>1 DEF NotTwice
  <2> QED
    BY <1>3, <2>2, <2>3 DEF Moved
<1> QED
  BY <1>2, <1>3 DEF Queued

LEMMA LayoutMovesOnly ==
    ASSUME QueuesTyped, NEW e, NEW m, e.kind = "layout", m.req.kind = "layout",
           pending' \in {pending, Append(pending, e)},
           queueSend' \in {queueSend, Append(queueSend, m)},
           UNCHANGED queueReceived, HandsKept, NEW r, FileRequest(r), NotTwice(r)
    PROVE  Moved(r)
<1>1. NotTwice(r)'
  BY LayoutMoved DEF Kept
<1>2. Has(pending', r) => Has(pending, r)
  <2> DEFINE S == ServerRequests \cup {e}
  <2>1. pending \in Seq(S) /\ e \in S /\ e # r
    BY SeqMonotonic DEF QueuesTyped, FileRequest, Kinds
  <2> HIDE DEF S
  <2>2. Has(Append(pending, e), r) <=> Has(pending, r)
    BY <2>1, HasAppended
  <2> QED
    BY <2>2
<1>3. \A i \in DOMAIN queueSend' : queueSend'[i].req = r =>
         \E j \in DOMAIN queueSend : queueSend'[i] = queueSend[j]
  <2>1. m.req # r
    BY DEF FileRequest, Kinds
  <2> QED
    BY <2>1, AnswersIn
<1> QED
  BY <1>1, <1>2, <1>3 DEF Moved, HandsKept

LEMMA LayoutReceivedOnly ==
    ASSUME QueuesTyped, queueReceived # <<>>, Head(queueReceived).kind = "layout",
           queueReceived' = Tail(queueReceived),
           pending' \in {pending, Append(pending, Head(queueReceived))},
           NEW m, m.req = Head(queueReceived), queueSend' \in {queueSend, Append(queueSend, m)},
           HandsKept, NEW r, FileRequest(r), NotTwice(r)
    PROVE  Moved(r)
<1> DEFINE e == Head(queueReceived)
<1>1. NotTwice(r)'
  BY LayoutReceived DEF Kept
<1>2. e # r /\ m.req = e /\ e \in ServerRequests
  BY HeadTailProperties DEF QueuesTyped, FileRequest, Kinds
<1>3. Has(pending', r) => Has(pending, r)
  <2>1. Has(Append(pending, e), r) <=> Has(pending, r)
    BY <1>2, HasAppended DEF QueuesTyped
  <2> QED
    BY <2>1
<1>4. \A i \in DOMAIN queueSend' : queueSend'[i].req = r =>
         \E j \in DOMAIN queueSend : queueSend'[i] = queueSend[j]
  BY <1>2, AnswersIn
<1>5. Has(queueReceived', r) => Has(queueReceived, r)
  BY HasTail DEF QueuesTyped, NotTwice
<1> QED
  BY <1>1, <1>3, <1>4, <1>5 DEF Moved, HandsKept

LEMMA UpdateMoves ==
    ASSUME MaxAttempts = 1, Typed, HandsEmpty, UpdateStep,
           NEW r, FileRequest(r), NotTwice(r)
    PROVE  Moved(r)
<1> DEFINE x == Head(queueReceived)
<1>1. CASE UpdateLayoutChanged \/ PutFileWithoutBlocks \/ NothingReceived
           \/ StopTaskProcessors \/ JoinTaskProcessors
  <2>1. UNCHANGED <<queueReceived, pending, queueSend, job>>
    BY <1>1
       DEF UpdateLayoutChanged, PutFileWithoutBlocks, NothingReceived, StopTaskProcessors,
           JoinTaskProcessors, MainGoto, queues
  <2>2. HandsKept
    BY <2>1 DEF HandsKept
  <2> QED
    BY <2>1, <2>2, QuietMoved
<1>2. CASE OnFileLayoutChanged
  <2> DEFINE e == LayoutRequest(srv.attempt)
             m == Answer(e, TRUE, content[layout])
  <2>1. /\ pending' \in {pending, Append(pending, e)}
        /\ queueSend' \in {queueSend, Append(queueSend, m)}
        /\ UNCHANGED <<queueReceived, job>>
    BY <1>2 DEF OnFileLayoutChanged, Queued, MainGoto
  <2>2. e.kind = "layout" /\ m.req.kind = "layout" /\ HandsKept
    BY <2>1 DEF LayoutRequest, Request, Answer, HandsKept
  <2> HIDE DEF e, m
  <2> QED
    BY <2>1, <2>2, LayoutMovesOnly DEF Typed
<1>3. CASE SendQueuedMessages
  <2>1. HandsKept /\ UNCHANGED <<queueReceived, pending>>
    BY <1>3 DEF SendQueuedMessages, threads, MainGoto, HandsKept
  <2>2. CASE queueSend' = queueSend
    BY <2>1, <2>2, QuietMoved
  <2>3. CASE queueSend # <<>> /\ queueSend' = Tail(queueSend)
    <3>1. /\ HasAnswer(queueSend', r) => HasAnswer(queueSend, r)
          /\ AtMostOneAnswer(queueSend', r)
      BY <2>3, AnswersTail DEF Typed, QueuesTyped, NotTwice
    <3>2. (Held(r)' <=> Held(r)) /\ (HeldOnce(r)' <=> HeldOnce(r))
      BY <2>1, HeldKept
    <3>3. NotTwice(r)'
      BY <2>1, <3>1, <3>2 DEF NotTwice
    <3>4. \A i \in DOMAIN queueSend' :
             \E j \in DOMAIN queueSend : queueSend'[i] = queueSend[j]
      BY <2>3, AnswersIn DEF Typed
    <3> QED
      BY <2>1, <3>3, <3>4 DEF Moved, HandsKept
  <2> QED
    BY <1>3, <2>2, <2>3 DEF SendQueuedMessages
<1>4. CASE ProcessRequestLayout
  <2> DEFINE m == Answer(x, TRUE, content[layout])
  <2>1. /\ queueReceived # <<>> /\ x.kind = "layout" /\ queueReceived' = Tail(queueReceived)
        /\ pending' \in {pending, Append(pending, x)}
        /\ queueSend' \in {queueSend, Append(queueSend, m)}
        /\ UNCHANGED job
    BY <1>4 DEF ProcessRequestLayout, Receives, Queued, threads
  <2>2. m.req = x /\ HandsKept
    BY <2>1 DEF Answer, HandsKept
  <2> HIDE DEF m
  <2> QED
    BY <2>1, <2>2, LayoutReceivedOnly DEF Typed
<1>5. CASE Keeps
  <2>1. /\ queueReceived # <<>> /\ queueReceived' = Tail(queueReceived)
        /\ pc[Main] = "receive"
        /\ UNCHANGED pending
    BY <1>5 DEF Keeps, ProcessRequestFileBlockHashes, ProcessRequestWriteFile, Receives
  <2>2. \/ \E j : job' = [job EXCEPT ![Main] = j] /\ j.req = x /\ UNCHANGED queueSend
        \/ /\ queueSend' = Queued(Answer(x, FALSE, <<>>))
           /\ UNCHANGED job
    <3>1. CASE ProcessRequestFileBlockHashes
      <4> DEFINE j == [JobOf(x) EXCEPT !.layout = layout, !.body = content[layout][x.path]]
      <4>1. \/ job' = [job EXCEPT ![Main] = j] /\ UNCHANGED queueSend
            \/ queueSend' = Queued(Answer(x, FALSE, <<>>)) /\ UNCHANGED job
        BY <3>1, Zenon DEF ProcessRequestFileBlockHashes, threads
      <4>2. j.req = x
        BY DEF JobOf, NoJob
      <4> QED
        BY <4>1, <4>2
    <3>2. CASE ProcessRequestWriteFile
      <4>1. \/ job' = [job EXCEPT ![Main] = JobOf(x)] /\ UNCHANGED queueSend
            \/ queueSend' = Queued(Answer(x, FALSE, <<>>)) /\ UNCHANGED job
        BY <3>2, Zenon DEF ProcessRequestWriteFile, threads
      <4>2. JobOf(x).req = x
        BY DEF JobOf, NoJob
      <4> QED
        BY <4>1, <4>2
    <3> QED
      BY <1>5, <3>1, <3>2 DEF Keeps
  <2>3. CASE \E j : job' = [job EXCEPT ![Main] = j] /\ j.req = x /\ UNCHANGED queueSend
    <3>1. /\ job[Main].req = NoRequest /\ job'[Main].req = x
          /\ \A u \in Threads \ {Main} : job'[u].req = job[u].req
      BY <2>1, <2>3 DEF HandsEmpty, Typed, ThreadsTyped, Threads
    <3>2. UNCHANGED <<pending, queueSend>>
      BY <2>1, <2>3
    <3> QED
      BY <1>5, <2>1, <3>1, <3>2, KeptMoved DEF Typed
  <2>4. CASE queueSend' = Queued(Answer(x, FALSE, <<>>)) /\ UNCHANGED job
    <3> DEFINE m == Answer(x, FALSE, <<>>)
    <3>1. HandsKept /\ m.req = x /\ ~ m.ok
      BY <2>4 DEF HandsKept, Answer
    <3>2. queueSend' = Append(queueSend, m) \/ queueSend' = queueSend
      BY <2>4 DEF Queued
    <3> HIDE DEF m
    <3> QED
      BY <2>1, <3>1, <3>2, RefusedMoved, ForgottenMoved DEF Typed
  <2> QED
    BY <2>2, <2>3, <2>4
<1>6. CASE ProcessRequestDeleteFile \/ ProcessSendFileData \/ ProcessRequestFinishWriteFile
  <2>1. /\ queueReceived # <<>> /\ queueReceived' = Tail(queueReceived)
        /\ UNCHANGED <<job, queueSend>>
    BY <1>6
       DEF ProcessRequestDeleteFile, ProcessSendFileData, ProcessRequestFinishWriteFile,
           Receives, threads
  <2>2. HandsKept
    BY <2>1 DEF HandsKept
  <2>3. x \in ServerRequests /\ x = [x EXCEPT !.at = 1]
    <3>1. x \in ServerRequests
      BY <2>1, HeadTailProperties DEF Typed, QueuesTyped
    <3> QED
      BY <3>1, OneAttempt DEF Request
  <2>4. x.path \in DOMAIN writeTasks => writeTasks[x.path] = 1
    BY DEF Typed, WritesTyped, Attempts
  <2>5. pending' = pending \/ (pending' = Append(pending, x) /\ Accepts)
    <3>1. CASE ProcessRequestDeleteFile
      BY <3>1 DEF ProcessRequestDeleteFile, Accepts
    <3>2. CASE ProcessSendFileData
      <4>1. \/ pending' = pending
            \/ /\ x.path \in DOMAIN writeTasks
               /\ pending' = Append(pending, BlockTask(x, writeTasks[x.path]))
        BY <3>2, Zenon DEF ProcessSendFileData
      <4> QED
        BY <2>3, <2>4, <3>2, <4>1 DEF Accepts, BlockTask
    <3>3. CASE ProcessRequestFinishWriteFile
      <4>1. \/ pending' = pending
            \/ /\ x.path \in DOMAIN writeTasks
               /\ pending' = Append(pending, [x EXCEPT !.at = writeTasks[x.path]])
        BY <3>3, Zenon DEF ProcessRequestFinishWriteFile
      <4> QED
        BY <2>3, <2>4, <3>3, <4>1 DEF Accepts
    <3> QED
      BY <1>6, <3>1, <3>2, <3>3
  <2> QED
    BY <2>1, <2>2, <2>5, AcceptedMoved, ForgottenMoved DEF Typed
<1>7. CASE AddPendingTask
  <2>1. /\ pc[Main] = "push" /\ pending' = Append(pending, job[Main].req)
        /\ job' = [job EXCEPT ![Main] = NoJob]
        /\ UNCHANGED <<queueReceived, queueSend>>
    BY <1>7 DEF AddPendingTask, queues
  <2>2. /\ job[Main].req \in ServerRequests /\ job'[Main].req = NoRequest
        /\ \A u \in Threads \ {Main} : job'[u].req = job[u].req
    BY <2>1 DEF Typed, ThreadsTyped, Threads, NoJob
  <2> QED
    BY <2>1, <2>2, PushedMoved DEF Typed
<1> QED
  BY <1>1, <1>2, <1>3, <1>4, <1>5, <1>6, <1>7 DEF UpdateStep, Keeps

LEMMA ProcMovesRequests ==
    ASSUME Typed, HandsEmpty, NEW p \in Procs, ProcStep(p),
           NEW r, FileRequest(r), NotTwice(r)
    PROVE  Moved(r)
<1>0. p \in Threads /\ p # Main /\ DOMAIN job = Threads
  BY ThreadsAssumption DEF Threads, Typed, ThreadsTyped
<1>1. CASE AtWork(p) \/ ExitRun(p)
  <2>1. UNCHANGED <<queueReceived, pending, queueSend>> /\ HandsKept
    BY <1>1, WorkGoesOn DEF ExitRun, Continue, queues, HandsKept
  <2> QED
    BY <2>1, QuietMoved
<1>2. CASE TakeTask(p)
  <2>1. PICK i \in DOMAIN pending :
           /\ pending' = Erased(i)
           /\ job' = [job EXCEPT ![p] = JobOf(pending[i])]
    BY <1>2, Zenon DEF TakeTask
  <2>2. /\ job[p].req = NoRequest /\ job'[p].req = pending[i]
        /\ \A u \in Threads \ {p} : job'[u].req = job[u].req
    BY <1>0, <1>2, <2>1 DEF TakeTask, HandsEmpty, Busy, JobOf, NoJob
  <2>3. pending' = RemoveAt(pending, i) /\ UNCHANGED <<queueReceived, queueSend>>
    BY <1>2, <2>1 DEF TakeTask, Erased, queues
  <2> QED
    BY <1>0, <1>2, <2>2, <2>3, TakenMoved DEF Typed
<1>3. CASE SetFileLayout(p)
  <2>1. /\ job[p].req.kind = "layout" /\ job'[p].req = NoRequest
        /\ \A u \in Threads \ {p} : job'[u].req = job[u].req
        /\ UNCHANGED <<queueReceived, pending, queueSend>>
    BY <1>0, <1>3
       DEF SetFileLayout, Return, Typed, ThreadsTyped, Fits, Busy, NoJob, queues
  <2>2. job[p].req # r /\ r # NoRequest
    BY <2>1 DEF FileRequest, Kinds, NoRequest, Request
  <2>3. (Held(r)' <=> Held(r)) /\ HeldOnce(r)'
    BY <1>0, <2>1, <2>2, LetGo DEF NotTwice
  <2>4. NotTwice(r)'
    BY <2>1, <2>3 DEF NotTwice
  <2>5. \A t \in Threads : job'[t].req = r => job[t].req = r
    BY <2>1, <2>2
  <2> QED
    BY <2>1, <2>4, <2>5 DEF Moved
<1>4. CASE SendResponse(p)
  <2>1. /\ queueSend' = Queued(Answer(job[p].req, job[p].ok, job[p].body))
        /\ job'[p].req = NoRequest
        /\ \A u \in Threads \ {p} : job'[u].req = job[u].req
        /\ UNCHANGED <<queueReceived, pending>>
    BY <1>0, <1>4 DEF SendResponse, Return, NoJob
  <2> QED
    BY <1>4, <2>1, AnsweredMoved DEF Typed
<1> QED
  BY <1>1, <1>2, <1>3, <1>4, ProcSteps

\* Only the server's asking adds a request about a file.
LEMMA RequestsMove ==
    ASSUME MaxAttempts = 1, Typed, HandsEmpty, [Next]_vars,
           NEW r, FileRequest(r), NotTwice(r), ~ Asks(r)
    PROVE  Moved(r)
<1>1. CASE UNCHANGED vars
  <2>1. UNCHANGED <<queueReceived, pending, queueSend>> /\ HandsKept
    BY <1>1 DEF vars, queues, threads, HandsKept
  <2> QED
    BY <2>1, QuietMoved
<1>2. CASE ConnectTo \/ Disconnect \/ ConnectionClosed \/ ConnectionEstablished
           \/ MessageReceivedConnect
  <2>1. UNCHANGED <<queueReceived, pending, queueSend>> /\ HandsKept
    BY <1>2
       DEF ConnectTo, Disconnect, ConnectionClosed, Close, ConnectionEstablished,
           MessageReceivedConnect, queues, threads, HandsKept
  <2> QED
    BY <2>1, QuietMoved
<1>3. CASE MessageReceived
  <2>1. PICK x \in ServerRequests : x # r /\ queueReceived' = Append(queueReceived, x)
    <3>1. CASE BeginAttempt
      <4>1. queueReceived' = Append(queueReceived, LayoutRequest(1))
        BY <3>1, BeginsOne DEF Typed
      <4>2. LayoutRequest(1) \in ServerRequests /\ LayoutRequest(1) # r
        BY RequestsOfServer DEF Attempts, LayoutRequest, Request, FileRequest, Kinds
      <4> QED
        BY <4>1, <4>2
    <3>2. CASE SendRequest
      <4>1. PICK x : Asks(x)
        BY <3>2, SendsOne DEF Typed
      <4>2. x \in ServerRequests
        BY <4>1, WantedAreRequests DEF Typed, ServerTyped, Asks, None
      <4> QED
        BY <4>1, <4>2 DEF Asks
    <3> QED
      BY <1>3, <3>1, <3>2 DEF MessageReceived
  <2>2. UNCHANGED <<pending, queueSend, job>>
    BY <1>3 DEF MessageReceived, threads
  <2>3. (Has(queueReceived', r) <=> Has(queueReceived, r)) /\ AtMostOne(queueReceived', r)
    BY <2>1, HasAppended DEF Typed, QueuesTyped, NotTwice
  <2>4. (Held(r)' <=> Held(r)) /\ (HeldOnce(r)' <=> HeldOnce(r))
    BY <2>2, HeldKept DEF HandsKept
  <2>5. NotTwice(r)'
    BY <2>2, <2>3, <2>4 DEF NotTwice
  <2> QED
    BY <2>2, <2>3, <2>5 DEF Moved
<1> QED
  BY <1>1, <1>2, <1>3, UpdateMoves, ProcMovesRequests DEF Next, NetworkStep

-------------------------------------------------------------------------------
(* The order is kept *)

LEMMA WantedInPlace ==
    ASSUME NEW r \in WantedRequests
    PROVE  /\ r.kind = "write" => r.path \in WritePaths
           /\ r.kind = "delete" => r.path \in DeletePaths
           /\ r.kind \in Kinds \ {"data"} => r.index = 0
<1>1. CASE r \in HashRequests
  BY <1>1 DEF HashRequests, Ask, Request
<1>2. CASE r \in {Ask("delete", p, 0) : p \in DeletePaths}
  BY <1>2 DEF Ask, Request
<1>3. ASSUME NEW p \in WritePaths, r \in FileRequests(p)
      PROVE  /\ r.kind \in {"write", "data", "finish"} /\ r.path = p
             /\ r.kind # "data" => r.index = 0
  <2>1. r \in {Ask("write", p, 0), Ask("finish", p, 0)} \cup DataRequests(p)
    BY <1>3 DEF FileRequests
  <2>2. r \in DataRequests(p) => r.kind = "data" /\ r.path = p
    BY DEF DataRequests, Ask, Request
  <2> QED
    BY <2>1, <2>2 DEF Ask, Request
<1>4. \/ r \in HashRequests \/ r \in {Ask("delete", p, 0) : p \in DeletePaths}
      \/ \E p \in WritePaths : r \in FileRequests(p)
  BY Zenon DEF WantedRequests
<1> QED
  BY <1>1, <1>2, <1>3, <1>4

LEMMA SentInvKept ==
    ASSUME MaxAttempts = 1, Typed, AskInv, SentInv, [Next]_vars
    PROVE  SentInv'
<1>1. ASSUME srv'.layout = srv.layout, srv'.attempt = srv.attempt
      PROVE  WritePaths' = WritePaths /\ DeletePaths' = DeletePaths
  BY <1>1 DEF WritePaths, DeletePaths, SyncedDir
<1>2. CASE UNCHANGED srv
  BY <1>1, <1>2 DEF SentInv
<1>3. CASE Disconnect \/ ConnectionClosed
  BY <1>3, CloseResets DEF SentInv
<1>4. CASE SendQueuedMessages /\ srv' # srv
  <2> DEFINE m == Head(queueSend)
  <2>1. srv' = AnswerReceived(m) /\ ServerTyped
    BY <1>4 DEF SendQueuedMessages, Typed
  <2>2. /\ srv'.attempt = srv.attempt /\ srv'.sent = srv.sent
        /\ srv'.state = srv.state \/ (srv'.state = "failed" /\ Matching(m) # {})
        /\ srv'.layout = srv.layout \/ (m.req.kind = "layout" /\ Matching(m) # {})
    BY <2>1, AnswerEffect
  <2>3. srv.state # "idle" \/ (srv'.state = srv.state /\ srv'.layout = srv.layout)
    BY <2>2 DEF AskInv, Matching
  <2>4. CASE srv'.layout = srv.layout
    BY <1>1, <2>2, <2>3, <2>4 DEF SentInv, AskInv, Matching
  <2>5. CASE srv.state # "idle" /\ m.req.kind = "layout" /\ Matching(m) # {}
    <3>1. PICK y \in srv.open : y.kind = "layout"
      BY <2>5 DEF Matching
    <3>2. y = LayoutRequest(1) /\ ~ Answered(y)
      BY <3>1, OneAttempt DEF Typed, ServerTyped, Answered
    <3>3. \A r \in srv.sent : r.kind = "layout"
      BY <2>5, <3>2 DEF AskInv, AskedInOrder
    <3> QED
      BY <2>2, <3>3 DEF SentInv, Kinds
  <2> QED
    BY <2>2, <2>3, <2>4, <2>5
<1>5. CASE MessageReceived
  <2>1. CASE BeginAttempt
    <3>1. srv'.sent = {LayoutRequest(1)}
      BY <2>1, BeginsOne DEF Typed
    <3>2. LayoutRequest(1).kind = "layout"
      BY DEF LayoutRequest, Request
    <3> QED
      BY <3>1, <3>2 DEF SentInv, Kinds
  <2>2. CASE SendRequest
    <3>1. PICK r : Asks(r)
      BY <2>2, SendsOne DEF Typed
    <3>2. /\ r.kind = "write" => r.path \in WritePaths
          /\ r.kind = "delete" => r.path \in DeletePaths
          /\ r.kind \in Kinds \ {"data"} => r.index = 0
      BY <3>1, WantedInPlace DEF Asks
    <3>3. WritePaths' = WritePaths /\ DeletePaths' = DeletePaths
      BY <1>1, <3>1 DEF Asks
    <3>4. srv'.sent = srv.sent \cup {r} /\ srv.state = "work"
      BY <3>1 DEF Asks
    <3> QED
      BY <3>2, <3>3, <3>4 DEF SentInv
  <2> QED
    BY <1>5, <2>1, <2>2 DEF MessageReceived
<1>6. UNCHANGED srv \/ Disconnect \/ ConnectionClosed \/ SendQueuedMessages \/ MessageReceived
  BY ServerLeftAlone DEF ConnectTo, NetworkStep, ConnectionEstablished, MessageReceivedConnect
<1> QED
  BY <1>2, <1>3, <1>4, <1>5, <1>6

\* While the server waits, only what it waits for is about.
LEMMA LiveInOrder ==
    ASSUME MaxAttempts = 1, Typed, AskInv, PlacesInv, SentInv, Live
    PROVE  InOrder
<1>1. \A r : FileRequest(r) => NotTwice(r) /\ (Somewhere(r) => r \in srv.open)
  BY DEF PlacesInv, FileRequest
<1>2. CASE srv.state = "idle"
  BY <1>1, <1>2 DEF AskInv, InOrder
<1>3. CASE srv.state # "idle"
  <2>1. AskedInOrder /\ srv.attempt = 1
    BY <1>3 DEF AskInv
  <2>2. \A r : FileRequest(r) /\ Somewhere(r) =>
           /\ r \in srv.sent /\ ~ Answered(r)
           /\ r = Request(r.kind, 1, r.path, r.index)
           /\ r.kind # "data" => r.index = 0
    BY <1>1, <1>3, OneAttempt DEF Typed, ServerTyped, Answered, FileRequest, SentInv
  <2>3. ASSUME NEW r, FileRequest(r), Somewhere(r)
        PROVE  Sensible(r)
    BY <1>3, <2>1, <2>2, <2>3 DEF Sensible, SentInv, DeletePaths, SyncedDir
  <2>4. ASSUME NEW r, NEW s, FileRequest(r), FileRequest(s), Somewhere(r), Somewhere(s)
        PROVE  Together(r, s)
    <3>1. ASSUME r.kind = "hashes", s.kind \in Changes
          PROVE  FALSE
      BY <2>1, <2>2, <2>4, <3>1 DEF AskedInOrder, Changes
    <3>2. ASSUME r.kind = "write", s.kind \in {"data", "finish"}, r.path = s.path
          PROVE  FALSE
      <4>1. Answered(Ask("write", r.path, 0))
        BY <2>1, <2>2, <2>4, <3>2 DEF AskedInOrder
      <4>2. r = Ask("write", r.path, 0)
        BY <2>1, <2>2, <2>4, <3>2 DEF Ask
      <4> QED
        BY <2>2, <2>4, <4>1, <4>2
    <3>3. ASSUME r.kind = "data", s.kind = "finish", r.path = s.path
          PROVE  FALSE
      BY <2>1, <2>2, <2>4, <3>3 DEF AskedInOrder
    <3> QED
      BY <3>1, <3>2, <3>3 DEF Together
  <2> QED
    BY <1>1, <2>3, <2>4 DEF InOrder
<1> QED
  BY <1>2, <1>3

LEMMA ClosedInvKept ==
    ASSUME MaxAttempts = 1, Typed, HandsEmpty, InOrder, [Next]_vars
    PROVE  ClosedInv'
<1> SUFFICES ASSUME ~ Live'
             PROVE  InOrder'
  BY DEF ClosedInv
<1>1. \A r : ~ Asks(r)
  BY DEF Asks, Live
<1>2. ASSUME NEW r, FileRequest(r)
      PROVE  NotTwice(r)' /\ (Somewhere(r)' => Somewhere(r))
  <2>1. NotTwice(r)
    BY <1>2 DEF InOrder
  <2>2. Moved(r)
    BY <1>1, <1>2, <2>1, RequestsMove
  <2> QED
    BY <2>2, MovedWithin DEF Moved
<1> QED
  BY <1>2 DEF InOrder, FileRequest, Sensible, Together

-------------------------------------------------------------------------------
(* Which steps change what *)

LEMMA MainFrames ==
    ASSUME \/ UNCHANGED vars \/ ConnectTo \/ Disconnect \/ ConnectionClosed
           \/ UpdateStep \/ NetworkStep
    PROVE  /\ UNCHANGED <<layout, nextLayout>> \/ UpdateLayoutChanged
           /\ UNCHANGED dirty \/ UpdateLayoutChanged \/ ProcessRequestWriteFile
           /\ UNCHANGED content \/ PutFileWithoutBlocks
           /\ UNCHANGED pendingRequest \/ OnFileLayoutChanged \/ ProcessRequestLayout
           /\ UNCHANGED writeTasks \/ ProcessRequestWriteFile \/ ProcessRequestFinishWriteFile
           /\ \/ UNCHANGED fileWrite \/ ProcessRequestWriteFile \/ ProcessSendFileData
              \/ ProcessRequestFinishWriteFile
           /\ UNCHANGED disk
<1>1. CASE UNCHANGED vars \/ ConnectTo \/ Disconnect \/ ConnectionClosed \/ NetworkStep
  BY <1>1
     DEF vars, ConnectTo, Disconnect, ConnectionClosed, Close, NetworkStep,
         ConnectionEstablished, MessageReceivedConnect, MessageReceived, layouts, writing
<1>2. CASE UpdateStep
  <2>1. CASE UpdateLayoutChanged
    BY <2>1 DEF UpdateLayoutChanged, layouts, writing
  <2>2. CASE OnFileLayoutChanged \/ SendQueuedMessages \/ ProcessRequestLayout
             \/ ProcessRequestFileBlockHashes
    BY <2>2
       DEF OnFileLayoutChanged, SendQueuedMessages, ProcessRequestLayout,
           ProcessRequestFileBlockHashes, layouts, writing
  <2>3. CASE PutFileWithoutBlocks \/ AddPendingTask \/ ProcessRequestDeleteFile
    BY <2>3 DEF PutFileWithoutBlocks, AddPendingTask, ProcessRequestDeleteFile, layouts, writing
  <2>4. CASE ProcessRequestWriteFile
    BY <2>4 DEF ProcessRequestWriteFile, layouts, writing
  <2>5. CASE ProcessSendFileData \/ ProcessRequestFinishWriteFile
    BY <2>5 DEF ProcessSendFileData, ProcessRequestFinishWriteFile, layouts, writing
  <2>6. CASE NothingReceived \/ StopTaskProcessors \/ JoinTaskProcessors
    BY <2>6 DEF NothingReceived, StopTaskProcessors, JoinTaskProcessors, layouts, writing
  <2> QED
    BY <1>2, <2>1, <2>2, <2>3, <2>4, <2>5, <2>6 DEF UpdateStep
<1> QED
  BY <1>1, <1>2

LEMMA ProcFrames ==
    ASSUME NEW p \in Procs, ProcStep(p)
    PROVE  /\ UNCHANGED <<layout, pendingRequest, writeTasks>>
           /\ UNCHANGED nextLayout \/ SetFileLayout(p)
           /\ UNCHANGED dirty \/ SetDirtyFileLayout(p)
           /\ \/ UNCHANGED content
              \/ ListFiles(p) \/ AddFileToLayout(p) \/ RemoveFileIfPresent(p) \/ AddFile(p)
           /\ UNCHANGED fileWrite \/ WriteFile(p) \/ FinishWriteFile(p) \/ AddFile(p)
           /\ UNCHANGED disk \/ DeleteFile(p) \/ WriteFile(p) \/ OpenFile(p) \/ WriteBlock(p)
<1>1. CASE TakeTask(p) \/ ExitRun(p) \/ SetFileLayout(p) \/ SendResponse(p)
  BY <1>1 DEF TakeTask, ExitRun, SetFileLayout, SendResponse, layouts, writing
<1>2. CASE ListFiles(p) \/ AddFileToLayout(p) \/ LayoutBuilt(p)
  BY <1>2 DEF ListFiles, AddFileToLayout, LayoutBuilt, layouts, writing
<1>3. CASE CalcFileBlockHashes(p) \/ StoreFileBlockHashes(p)
           \/ DeleteFile(p) \/ RemoveFileIfPresent(p)
  BY <1>3 DEF CalcFileBlockHashes, StoreFileBlockHashes, DeleteFile, RemoveFileIfPresent,
              layouts, writing
<1>4. CASE WriteFile(p) \/ LookForFile(p) \/ OpenFile(p) \/ WriteBlock(p)
  BY <1>4 DEF WriteFile, LookForFile, OpenFile, WriteBlock, layouts, writing
<1>5. CASE FinishWriteFile(p) \/ AddFile(p) \/ SetDirtyFileLayout(p)
  BY <1>5 DEF FinishWriteFile, AddFile, SetDirtyFileLayout, layouts, writing
<1> QED
  BY <1>1, <1>2, <1>3, <1>4, <1>5, ProcSteps DEF AtWork

\* Where Main goes.
LEMMA MainGoes ==
    ASSUME Typed, [Next]_vars
    PROVE  /\ \/ pc'[Main] = pc[Main]
              \/ pc[Main] # "changed" /\ pc'[Main] # "changed"
              \/ UpdateLayoutChanged
              \/ OnFileLayoutChanged /\ pc'[Main] = "send"
           /\ pc'[Main] = "push" =>
                 \/ pc[Main] = "push" /\ job'[Main] = job[Main]
                 \/ PutFileWithoutBlocks \/ ProcessRequestWriteFile
           /\ pc'[Main] = "recut" =>
                 \/ pc[Main] = "recut" /\ job'[Main] = job[Main]
                 \/ ProcessRequestFileBlockHashes
<1>0. Main \in Threads /\ \A p \in Procs : p # Main
  BY ThreadsAssumption DEF Threads
<1> USE DEF Goto, MainGoto, threads, Typed, ThreadsTyped
<1>1. CASE UNCHANGED vars \/ Disconnect \/ ConnectionClosed \/ NetworkStep
  BY <1>1
     DEF vars, Disconnect, ConnectionClosed, Close, NetworkStep, ConnectionEstablished,
         MessageReceivedConnect, MessageReceived
<1>2. CASE ConnectTo
  BY <1>0, <1>2 DEF ConnectTo
<1>3. CASE UpdateStep
  <2>1. CASE UpdateLayoutChanged
    <3>1. pc'[Main] \in {"changed", "send"}
      BY <1>0, <2>1, Zenon DEF UpdateLayoutChanged
    <3> QED
      BY <2>1, <3>1
  <2>2. CASE OnFileLayoutChanged
    BY <1>0, <2>2 DEF OnFileLayoutChanged
  <2>3. CASE SendQueuedMessages \/ ProcessRequestLayout
    BY <1>0, <2>3 DEF SendQueuedMessages, ProcessRequestLayout, Receives
  <2>4. CASE ProcessRequestFileBlockHashes \/ ProcessRequestWriteFile
    <3>1. /\ pc[Main] = "receive"
          /\ \/ UNCHANGED threads
             \/ Goto(Main, "recut") /\ ProcessRequestFileBlockHashes
             \/ Goto(Main, "push") /\ ProcessRequestWriteFile
      BY <2>4 DEF ProcessRequestFileBlockHashes, ProcessRequestWriteFile, Receives
    <3> QED
      BY <1>0, <3>1
  <2>5. CASE PutFileWithoutBlocks \/ AddPendingTask \/ ProcessRequestDeleteFile
    BY <1>0, <2>5 DEF PutFileWithoutBlocks, AddPendingTask, ProcessRequestDeleteFile, Receives
  <2>6. CASE ProcessSendFileData \/ ProcessRequestFinishWriteFile
    BY <1>0, <2>6 DEF ProcessSendFileData, ProcessRequestFinishWriteFile, Receives
  <2>7. CASE NothingReceived \/ StopTaskProcessors \/ JoinTaskProcessors
    BY <1>0, <2>7 DEF NothingReceived, StopTaskProcessors, JoinTaskProcessors
  <2> QED
    BY <1>3, <2>1, <2>2, <2>3, <2>4, <2>5, <2>6, <2>7 DEF UpdateStep
<1>4. ASSUME NEW p \in Procs, ProcStep(p)
      PROVE  pc'[Main] = pc[Main] /\ job'[Main] = job[Main]
  <2>1. CASE AtWork(p)
    BY <1>0, <2>1, WorkGoesOn
  <2>2. CASE TakeTask(p)
    <3>1. PICK k, j : pc' = [pc EXCEPT ![p] = k] /\ job' = [job EXCEPT ![p] = j]
      BY <2>2, Zenon DEF TakeTask
    <3> QED
      BY <1>0, <1>4, <3>1
  <2>3. CASE ExitRun(p) \/ SetFileLayout(p) \/ SendResponse(p)
    BY <1>0, <1>4, <2>3 DEF ExitRun, SetFileLayout, SendResponse, Return, Continue
  <2> QED
    BY <1>4, <2>1, <2>2, <2>3, ProcSteps
<1> QED
  BY <1>1, <1>2, <1>3, <1>4 DEF Next

-------------------------------------------------------------------------------
(* The request for the layout moves in few steps *)

StaysPut(r) ==
    /\ NotTwice(r)'
    /\ Has(queueReceived', r) <=> Has(queueReceived, r)
    /\ Has(pending', r) <=> Has(pending, r)
    /\ Held(r)' <=> Held(r)
    /\ HasAnswer(queueSend', r) <=> HasAnswer(queueSend, r)

LEMMA OthersMove ==
    ASSUME QueuesTyped, NEW r, NotTwice(r),
           \/ queueReceived' = queueReceived
           \/ /\ queueReceived # <<>> /\ Head(queueReceived) # r
              /\ queueReceived' = Tail(queueReceived)
           \/ \E e \in ServerRequests : e # r /\ queueReceived' = Append(queueReceived, e),
           \/ pending' = pending
           \/ \E e \in ServerRequests : e # r /\ pending' = Append(pending, e)
           \/ \E i \in DOMAIN pending : pending[i] # r /\ pending' = RemoveAt(pending, i),
           \/ queueSend' = queueSend
           \/ \E m : m.req # r /\ queueSend' = Append(queueSend, m)
           \/ /\ queueSend # <<>> /\ Head(queueSend).req # r
              /\ queueSend' = Tail(queueSend),
           \A t \in Threads : job'[t].req = r <=> job[t].req = r
    PROVE  StaysPut(r)
<1>1. /\ Has(queueReceived', r) <=> Has(queueReceived, r)
      /\ AtMostOne(queueReceived', r)
  <2>1. AtMostOne(queueReceived, r)
    BY DEF NotTwice
  <2>2. CASE /\ queueReceived # <<>> /\ Head(queueReceived) # r
             /\ queueReceived' = Tail(queueReceived)
    BY <2>1, <2>2, HasTail DEF QueuesTyped
  <2>3. CASE \E e \in ServerRequests : e # r /\ queueReceived' = Append(queueReceived, e)
    BY <2>1, <2>3, HasAppended DEF QueuesTyped
  <2> QED
    BY <2>1, <2>2, <2>3
<1>2. /\ Has(pending', r) <=> Has(pending, r)
      /\ AtMostOne(pending', r)
  <2>1. AtMostOne(pending, r)
    BY DEF NotTwice
  <2>2. CASE \E i \in DOMAIN pending : pending[i] # r /\ pending' = RemoveAt(pending, i)
    <3>1. PICK i \in DOMAIN pending : pending[i] # r /\ pending' = RemoveAt(pending, i)
      BY <2>2
    <3> QED
      BY <2>1, <3>1, HasErased DEF QueuesTyped
  <2>3. CASE \E e \in ServerRequests : e # r /\ pending' = Append(pending, e)
    BY <2>1, <2>3, HasAppended DEF QueuesTyped
  <2> QED
    BY <2>1, <2>2, <2>3
<1>3. /\ HasAnswer(queueSend', r) <=> HasAnswer(queueSend, r)
      /\ AtMostOneAnswer(queueSend', r)
  <2>1. AtMostOneAnswer(queueSend, r)
    BY DEF NotTwice
  <2>2. CASE /\ queueSend # <<>> /\ Head(queueSend).req # r
             /\ queueSend' = Tail(queueSend)
    BY <2>1, <2>2, AnswersTail DEF QueuesTyped
  <2>3. ASSUME NEW m, m.req # r, queueSend' = Append(queueSend, m)
        PROVE  /\ HasAnswer(queueSend', r) <=> HasAnswer(queueSend, r)
               /\ AtMostOneAnswer(queueSend', r)
    <3> DEFINE S == Range(queueSend) \cup {m}
    <3>1. queueSend \in Seq(S) /\ m \in S
      BY SeqMonotonic DEF QueuesTyped
    <3> HIDE DEF S
    <3> QED
      BY <2>1, <2>3, <3>1, AnswersAppended
  <2> QED
    BY <2>1, <2>2, <2>3
<1>4. (Held(r)' <=> Held(r)) /\ HeldOnce(r)'
  BY DEF Held, HeldOnce, NotTwice
<1> QED
  BY <1>1, <1>2, <1>3, <1>4 DEF StaysPut, NotTwice

LEMMA TheLayoutIs ==
    ASSUME MaxAttempts = 1
    PROVE  /\ TheLayout \in ServerRequests /\ TheLayout.kind = "layout"
           /\ TheLayout # NoRequest
           /\ \A r \in ServerRequests : r.kind = "layout" => r = TheLayout
           /\ \A r \in ServerRequests : r # TheLayout => FileRequest(r)
           /\ \A r : FileRequest(r) => r # TheLayout
<1>1. /\ TheLayout \in ServerRequests /\ TheLayout.kind = "layout"
      /\ TheLayout # NoRequest
  BY RequestsOfServer DEF TheLayout, Attempts, LayoutRequest, Request, NoRequest
<1>2. \A r \in ServerRequests : r.kind = "layout" => r = TheLayout
  BY OneAttempt DEF TheLayout
<1>3. \A r \in ServerRequests : r # TheLayout => FileRequest(r)
  BY <1>2, RequestFields DEF FileRequest
<1>4. \A r : FileRequest(r) => r # TheLayout
  BY <1>1 DEF FileRequest, Kinds
<1> QED
  BY <1>1, <1>2, <1>3, <1>4

\* The steps that move the request for the layout or the task to build it.
MovesLayout ==
    \/ OnFileLayoutChanged /\ pendingRequest
    \/ SendQueuedMessages /\ queueSend # <<>> /\ Head(queueSend).req = TheLayout
    \/ ProcessRequestLayout
    \/ MessageReceived /\ BeginAttempt
    \/ \E p \in Procs : TakeTask(p) /\ job'[p].req = TheLayout
    \/ \E p \in Procs : SetFileLayout(p)

LEMMA LayoutStays ==
    ASSUME MaxAttempts = 1, Typed, HandsEmpty, LayoutOnce, [Next]_vars, ~ MovesLayout
    PROVE  StaysPut(TheLayout) /\ UNCHANGED pendingRequest
<1> DEFINE x == Head(queueReceived)
<1>0. /\ Main \in Threads /\ DOMAIN job = Threads
      /\ \A p \in Procs : p \in Threads /\ p # Main
      /\ NotTwice(TheLayout) /\ TheLayout # NoRequest /\ QueuesTyped
  BY ThreadsAssumption, TheLayoutIs DEF Threads, Typed, ThreadsTyped, LayoutOnce
<1>1. ASSUME UNCHANGED <<queueReceived, pending, queueSend>>, HandsKept
      PROVE  StaysPut(TheLayout)
  BY <1>0, <1>1, OthersMove DEF HandsKept
<1>2. CASE UNCHANGED vars \/ ConnectTo \/ Disconnect \/ ConnectionClosed
           \/ ConnectionEstablished \/ MessageReceivedConnect
  <2>1. UNCHANGED <<queueReceived, pending, queueSend, pendingRequest>> /\ HandsKept
    BY <1>2
       DEF vars, ConnectTo, Disconnect, ConnectionClosed, Close, ConnectionEstablished,
           MessageReceivedConnect, queues, threads, HandsKept
  <2> QED
    BY <1>1, <2>1
<1>3. CASE MessageReceived
  <2>1. PICK r : Asks(r)
    BY <1>3, SendsOne DEF MovesLayout, MessageReceived, Typed
  <2>2. r \in ServerRequests /\ r # TheLayout
    <3>1. r \in ServerRequests
      BY <2>1, WantedAreRequests DEF Typed, ServerTyped, Asks, None
    <3> QED
      BY <2>1, <3>1, WantedByKind, TheLayoutIs DEF Asks
  <2>3. /\ queueReceived' = Append(queueReceived, r)
        /\ UNCHANGED <<pending, queueSend, job, pendingRequest>>
    BY <1>3, <2>1 DEF MessageReceived, threads, Asks
  <2> QED
    BY <1>0, <2>2, <2>3, OthersMove
<1>4. CASE UpdateLayoutChanged \/ PutFileWithoutBlocks \/ NothingReceived
           \/ StopTaskProcessors \/ JoinTaskProcessors
  <2>1. UNCHANGED <<queueReceived, pending, queueSend, job, pendingRequest>>
    BY <1>4
       DEF UpdateLayoutChanged, PutFileWithoutBlocks, NothingReceived, StopTaskProcessors,
           JoinTaskProcessors, MainGoto, queues
  <2> QED
    BY <1>1, <2>1 DEF HandsKept
<1>5. CASE OnFileLayoutChanged
  <2>1. UNCHANGED <<queueReceived, pending, queueSend, job, pendingRequest>>
    BY <1>5 DEF OnFileLayoutChanged, MovesLayout, MainGoto
  <2> QED
    BY <1>1, <2>1 DEF HandsKept
<1>6. CASE SendQueuedMessages
  <2>1. /\ UNCHANGED <<queueReceived, pending, job, pendingRequest>>
        /\ \/ queueSend' = queueSend
           \/ queueSend # <<>> /\ queueSend' = Tail(queueSend)
    BY <1>6 DEF SendQueuedMessages, threads, MainGoto
  <2> QED
    BY <1>0, <1>6, <2>1, OthersMove DEF MovesLayout
<1>7. CASE ProcessRequestFileBlockHashes \/ ProcessRequestWriteFile
  <2>1. /\ queueReceived # <<>> /\ x.kind # "layout" /\ queueReceived' = Tail(queueReceived)
        /\ pc[Main] = "receive"
        /\ UNCHANGED <<pending, pendingRequest>>
    BY <1>7 DEF ProcessRequestFileBlockHashes, ProcessRequestWriteFile, Receives
  <2>2. x # TheLayout
    BY <2>1, TheLayoutIs
  <2>3. \/ \E j : job' = [job EXCEPT ![Main] = j] /\ j.req = x /\ UNCHANGED queueSend
        \/ /\ queueSend' = Queued(Answer(x, FALSE, <<>>))
           /\ UNCHANGED job
    <3>1. CASE ProcessRequestFileBlockHashes
      <4> DEFINE j == [JobOf(x) EXCEPT !.layout = layout, !.body = content[layout][x.path]]
      <4>1. \/ job' = [job EXCEPT ![Main] = j] /\ UNCHANGED queueSend
            \/ queueSend' = Queued(Answer(x, FALSE, <<>>)) /\ UNCHANGED job
        BY <3>1, Zenon DEF ProcessRequestFileBlockHashes, threads
      <4>2. j.req = x
        BY DEF JobOf, NoJob
      <4> QED
        BY <4>1, <4>2
    <3>2. CASE ProcessRequestWriteFile
      <4>1. \/ job' = [job EXCEPT ![Main] = JobOf(x)] /\ UNCHANGED queueSend
            \/ queueSend' = Queued(Answer(x, FALSE, <<>>)) /\ UNCHANGED job
        BY <3>2, Zenon DEF ProcessRequestWriteFile, threads
      <4>2. JobOf(x).req = x
        BY DEF JobOf, NoJob
      <4> QED
        BY <4>1, <4>2
    <3> QED
      BY <1>7, <3>1, <3>2
  <2>4. CASE \E j : job' = [job EXCEPT ![Main] = j] /\ j.req = x /\ UNCHANGED queueSend
    <3>1. \A t \in Threads : job'[t].req = TheLayout <=> job[t].req = TheLayout
      BY <1>0, <2>1, <2>2, <2>4 DEF HandsEmpty
    <3> QED
      BY <1>0, <2>1, <2>2, <2>4, <3>1, OthersMove
  <2>5. CASE queueSend' = Queued(Answer(x, FALSE, <<>>)) /\ UNCHANGED job
    <3>1. Answer(x, FALSE, <<>>).req # TheLayout
      BY <2>2 DEF Answer
    <3>2. \/ queueSend' = queueSend
          \/ \E m : m.req # TheLayout /\ queueSend' = Append(queueSend, m)
      BY <2>5, <3>1 DEF Queued
    <3> QED
      BY <1>0, <2>1, <2>2, <2>5, <3>2, OthersMove
  <2> QED
    BY <2>1, <2>3, <2>4, <2>5
<1>8. CASE ProcessRequestDeleteFile \/ ProcessSendFileData \/ ProcessRequestFinishWriteFile
  <2>1. /\ queueReceived # <<>> /\ x.kind # "layout" /\ queueReceived' = Tail(queueReceived)
        /\ UNCHANGED <<job, queueSend, pendingRequest>>
    BY <1>8
       DEF ProcessRequestDeleteFile, ProcessSendFileData, ProcessRequestFinishWriteFile,
           Receives, threads
  <2>2. x # TheLayout /\ x \in ServerRequests /\ x = [x EXCEPT !.at = 1]
    <3>1. x \in ServerRequests
      BY <2>1, HeadTailProperties DEF Typed, QueuesTyped
    <3> QED
      BY <2>1, <3>1, OneAttempt, TheLayoutIs DEF Request
  <2>3. x.path \in DOMAIN writeTasks => writeTasks[x.path] = 1
    BY DEF Typed, WritesTyped, Attempts
  <2>4. pending' = pending \/ pending' = Append(pending, x)
    <3>1. CASE ProcessRequestDeleteFile
      BY <3>1 DEF ProcessRequestDeleteFile
    <3>2. CASE ProcessSendFileData
      <4>1. \/ pending' = pending
            \/ /\ x.path \in DOMAIN writeTasks
               /\ pending' = Append(pending, BlockTask(x, writeTasks[x.path]))
        BY <3>2, Zenon DEF ProcessSendFileData
      <4> QED
        BY <2>2, <2>3, <4>1 DEF BlockTask
    <3>3. CASE ProcessRequestFinishWriteFile
      <4>1. \/ pending' = pending
            \/ /\ x.path \in DOMAIN writeTasks
               /\ pending' = Append(pending, [x EXCEPT !.at = writeTasks[x.path]])
        BY <3>3, Zenon DEF ProcessRequestFinishWriteFile
      <4> QED
        BY <2>2, <2>3, <4>1
    <3> QED
      BY <1>8, <3>1, <3>2, <3>3
  <2> QED
    BY <1>0, <2>1, <2>2, <2>4, OthersMove
<1>9. CASE AddPendingTask
  <2>1. /\ pc[Main] = "push" /\ pending' = Append(pending, job[Main].req)
        /\ job' = [job EXCEPT ![Main] = NoJob]
        /\ UNCHANGED <<queueReceived, queueSend, pendingRequest>>
    BY <1>9 DEF AddPendingTask, queues
  <2>2. job[Main].req \in ServerRequests /\ job[Main].req # TheLayout
    BY <2>1, TheLayoutIs DEF Typed, ThreadsTyped, LayoutOnce
  <2>3. \A t \in Threads : job'[t].req = TheLayout <=> job[t].req = TheLayout
    BY <1>0, <2>1, <2>2 DEF NoJob
  <2> QED
    BY <1>0, <2>1, <2>2, <2>3, OthersMove
<1>10. ASSUME NEW p \in Procs, ProcStep(p)
       PROVE  StaysPut(TheLayout) /\ UNCHANGED pendingRequest
  <2>0. UNCHANGED pendingRequest
    BY <1>10, ProcFrames
  <2>1. CASE AtWork(p) \/ ExitRun(p)
    <3>1. UNCHANGED <<queueReceived, pending, queueSend>> /\ HandsKept
      BY <2>1, WorkGoesOn DEF ExitRun, Continue, queues, HandsKept
    <3> QED
      BY <1>1, <2>0, <3>1
  <2>2. CASE TakeTask(p)
    <3>1. PICK i \in DOMAIN pending :
             /\ pending' = Erased(i)
             /\ job' = [job EXCEPT ![p] = JobOf(pending[i])]
      BY <2>2, Zenon DEF TakeTask
    <3>2. /\ job[p].req = NoRequest /\ job'[p].req = pending[i]
          /\ \A u \in Threads \ {p} : job'[u].req = job[u].req
      BY <1>0, <2>2, <3>1 DEF TakeTask, HandsEmpty, Busy, JobOf, NoJob
    <3>3. pending' = RemoveAt(pending, i) /\ UNCHANGED <<queueReceived, queueSend>>
      BY <2>2, <3>1 DEF TakeTask, Erased, queues
    <3>4. pending[i] # TheLayout
      BY <2>2, <3>2 DEF MovesLayout
    <3>5. \A t \in Threads : job'[t].req = TheLayout <=> job[t].req = TheLayout
      BY <1>0, <3>2, <3>4
    <3> QED
      BY <1>0, <2>0, <3>3, <3>4, <3>5, OthersMove
  <2>3. CASE SendResponse(p)
    <3> DEFINE m == Answer(job[p].req, job[p].ok, job[p].body)
    <3>1. /\ queueSend' = Queued(m) /\ job'[p].req = NoRequest /\ m.req = job[p].req
          /\ \A u \in Threads \ {p} : job'[u].req = job[u].req
          /\ UNCHANGED <<queueReceived, pending>>
      BY <1>0, <2>3 DEF SendResponse, Return, Answer, NoJob
    <3>2. job[p].req # TheLayout
      BY <1>0, <2>3, TheLayoutIs
         DEF SendResponse, Typed, ThreadsTyped, Busy, Fits, Kinds
    <3> HIDE DEF m
    <3>3. \/ queueSend' = queueSend
          \/ \E n : n.req # TheLayout /\ queueSend' = Append(queueSend, n)
      BY <3>1, <3>2 DEF Queued
    <3>4. \A t \in Threads : job'[t].req = TheLayout <=> job[t].req = TheLayout
      BY <1>0, <3>1, <3>2
    <3> QED
      BY <1>0, <2>0, <3>1, <3>3, <3>4, OthersMove
  <2> QED
    BY <1>10, <2>1, <2>2, <2>3, ProcSteps DEF MovesLayout
<1> QED
  BY <1>2, <1>3, <1>4, <1>5, <1>6, <1>7, <1>8, <1>9, <1>10
     DEF Next, UpdateStep, NetworkStep, MovesLayout

-------------------------------------------------------------------------------
(* The layout comes first *)

LEMMA BusyAbout ==
    ASSUME MaxAttempts = 1, Typed, NEW p \in Procs, Busy(p)
    PROVE  /\ job[p].req \in ServerRequests /\ Held(job[p].req)
           /\ FileRequest(job[p].req) \/ job[p].req = TheLayout
           /\ Fits(job[p].req.kind, pc[p])
BY TheLayoutIs DEF Typed, ThreadsTyped, Held, Threads

LEMMA ReceivedAbout ==
    ASSUME MaxAttempts = 1, Typed, queueReceived # <<>>
    PROVE  LET x == Head(queueReceived) IN
           /\ x \in ServerRequests /\ Has(queueReceived, x)
           /\ FileRequest(x) \/ x = TheLayout
<1>1. /\ Head(queueReceived) \in ServerRequests
      /\ Has(queueReceived, Head(queueReceived))
  BY HasTail, HeadTailProperties DEF Typed, QueuesTyped
<1> QED
  BY <1>1, TheLayoutIs

LEMMA NothingNew ==
    ASSUME MaxAttempts = 1, Typed, HandsEmpty, InOrder, [Next]_vars,
           \A r : ~ Asks(r)
    PROVE  \A r : FileRequest(r) /\ Somewhere(r)' => Somewhere(r)
<1> SUFFICES ASSUME NEW r, FileRequest(r), Somewhere(r)'
             PROVE  Somewhere(r)
  OBVIOUS
<1>1. NotTwice(r)
  BY DEF InOrder
<1>2. Moved(r)
  BY <1>1, RequestsMove
<1> QED
  BY <1>2, MovedWithin

\* While the layout is due the server asks for nothing else.
LEMMA NotAskedYet ==
    ASSUME Typed, AskInv, LayoutFirst, LayoutDue \/ srv.attempt = None, NEW r
    PROVE  ~ Asks(r)
<1> SUFFICES ASSUME Asks(r)
             PROVE  FALSE
  OBVIOUS
<1>1. srv.state = "work" /\ Answered(LayoutRequest(srv.attempt))
  BY WantedByKind DEF Asks
<1>2. srv.attempt = 1
  BY <1>1 DEF AskInv
<1>3. TheLayout \in srv.open
  BY <1>1, <1>2 DEF LayoutFirst, None
<1> QED
  BY <1>1, <1>2, <1>3 DEF Answered, TheLayout

\* Before the first attempt nobody has anything to do.
LEMMA NobodyAsked ==
    ASSUME Typed, AskInv, PlacesInv, srv.attempt = None
    PROVE  /\ \A r : FileRequest(r) => ~ Somewhere(r)
           /\ queueReceived = <<>> /\ ~ pendingRequest
           /\ srv.state = "idle" /\ srv.open = {}
<1>1. srv.state = "idle" /\ srv.open = {} /\ Live
  BY DEF AskInv, Live, None
<1> QED
  BY <1>1 DEF Typed, ServerTyped, PlacesInv, FileRequest

\* Which steps add an answer.
LEMMA AnswersAdded ==
    ASSUME [Next]_vars
    PROVE  \/ UNCHANGED queueSend
           \/ OnFileLayoutChanged /\ pendingRequest
           \/ SendQueuedMessages /\ queueSend # <<>>
           \/ queueReceived # <<>>
           \/ \E p \in Procs : SendResponse(p)
<1>1. CASE UNCHANGED vars \/ ConnectTo \/ Disconnect \/ ConnectionClosed \/ NetworkStep
  BY <1>1
     DEF vars, queues, ConnectTo, Disconnect, ConnectionClosed, Close, NetworkStep,
         ConnectionEstablished, MessageReceivedConnect, MessageReceived
<1>2. CASE UpdateStep
  <2>1. CASE UpdateLayoutChanged \/ PutFileWithoutBlocks \/ AddPendingTask
             \/ NothingReceived \/ StopTaskProcessors \/ JoinTaskProcessors
    BY <2>1
       DEF UpdateLayoutChanged, PutFileWithoutBlocks, AddPendingTask, NothingReceived,
           StopTaskProcessors, JoinTaskProcessors, queues
  <2>2. CASE OnFileLayoutChanged \/ SendQueuedMessages
    BY <2>2 DEF OnFileLayoutChanged, SendQueuedMessages
  <2>3. CASE ProcessRequestLayout \/ ProcessRequestFileBlockHashes \/ ProcessRequestDeleteFile
             \/ ProcessRequestWriteFile \/ ProcessSendFileData
             \/ ProcessRequestFinishWriteFile
    BY <2>3
       DEF ProcessRequestLayout, ProcessRequestFileBlockHashes, ProcessRequestDeleteFile,
           ProcessRequestWriteFile, ProcessSendFileData, ProcessRequestFinishWriteFile,
           Receives
  <2> QED
    BY <1>2, <2>1, <2>2, <2>3 DEF UpdateStep
<1>3. ASSUME NEW p \in Procs, ProcStep(p)
      PROVE  UNCHANGED queueSend \/ SendResponse(p)
  <2>1. CASE TakeTask(p) \/ ExitRun(p) \/ SetFileLayout(p)
    BY <2>1 DEF TakeTask, ExitRun, SetFileLayout, queues
  <2>2. CASE ListFiles(p) \/ AddFileToLayout(p) \/ LayoutBuilt(p)
             \/ CalcFileBlockHashes(p) \/ StoreFileBlockHashes(p)
    BY <2>2 DEF ListFiles, AddFileToLayout, LayoutBuilt, CalcFileBlockHashes,
                StoreFileBlockHashes, queues
  <2>3. CASE DeleteFile(p) \/ RemoveFileIfPresent(p)
             \/ WriteFile(p) \/ LookForFile(p) \/ OpenFile(p) \/ WriteBlock(p)
    BY <2>3 DEF DeleteFile, RemoveFileIfPresent, WriteFile, LookForFile, OpenFile, WriteBlock,
                queues
  <2>4. CASE FinishWriteFile(p) \/ AddFile(p) \/ SetDirtyFileLayout(p)
    BY <2>4 DEF FinishWriteFile, AddFile, SetDirtyFileLayout, queues
  <2> QED
    BY <1>3, <2>1, <2>2, <2>3, <2>4, ProcSteps DEF AtWork
<1> QED
  BY <1>1, <1>2, <1>3 DEF Next

\* The files to write and the mark stay while no file is asked for.
LEMMA QuietWrites ==
    ASSUME MaxAttempts = 1, Typed, [Next]_vars,
           \A r : FileRequest(r) => ~ Somewhere(r), ~ dirty
    PROVE  ~ dirty' /\ UNCHANGED writeTasks
<1>1. CASE \/ UNCHANGED vars \/ ConnectTo \/ Disconnect \/ ConnectionClosed
           \/ UpdateStep \/ NetworkStep
  <2>1. ~ ProcessRequestWriteFile /\ ~ ProcessRequestFinishWriteFile
    <3> SUFFICES ASSUME ProcessRequestWriteFile \/ ProcessRequestFinishWriteFile
                 PROVE  FALSE
      OBVIOUS
    <3>1. queueReceived # <<>> /\ Head(queueReceived).kind # "layout"
      BY DEF ProcessRequestWriteFile, ProcessRequestFinishWriteFile, Receives
    <3>2. FileRequest(Head(queueReceived)) /\ Has(queueReceived, Head(queueReceived))
      BY <3>1, ReceivedAbout, TheLayoutIs
    <3> QED
      BY <3>2 DEF Somewhere
  <2>2. UpdateLayoutChanged => ~ dirty'
    BY DEF UpdateLayoutChanged
  <2> QED
    BY <1>1, <2>1, <2>2, MainFrames
<1>2. ASSUME NEW p \in Procs, ProcStep(p)
      PROVE  ~ dirty' /\ UNCHANGED writeTasks
  <2>1. ~ SetDirtyFileLayout(p)
    <3> SUFFICES ASSUME SetDirtyFileLayout(p)
                 PROVE  FALSE
      OBVIOUS
    <3>1. Busy(p) /\ pc[p] = "dirty"
      BY DEF SetDirtyFileLayout, Busy
    <3>2. Held(job[p].req) /\ job[p].req \in ServerRequests /\ job[p].req.kind \in Kinds
      BY <3>1, BusyAbout DEF Fits
    <3> QED
      BY <3>2 DEF FileRequest, Somewhere
  <2> QED
    BY <1>2, <2>1, ProcFrames
<1> QED
  BY <1>1, <1>2 DEF Next

\* The request for the layout stays with the server while it is due.
LEMMA LayoutStaysOpen ==
    ASSUME MaxAttempts = 1, Typed, AskInv, [Next]_vars, srv'.state # "idle",
           srv.attempt # None,
           ~ (SendQueuedMessages /\ queueSend # <<>> /\ Head(queueSend).req = TheLayout),
           srv.state # "idle" => TheLayout \in srv.open
    PROVE  TheLayout \in srv'.open
<1>1. CASE UNCHANGED srv
  BY <1>1
<1>2. CASE Disconnect \/ ConnectionClosed
  BY <1>2, CloseResets
<1>3. CASE SendQueuedMessages /\ srv' # srv
  <2> DEFINE m == Head(queueSend)
  <2>1. srv' = AnswerReceived(m) /\ ServerTyped /\ queueSend # <<>>
    BY <1>3 DEF SendQueuedMessages, Typed
  <2>2. /\ srv'.open = srv.open \ Matching(m)
        /\ srv'.state = srv.state \/ (srv'.state = "failed" /\ Matching(m) # {})
    BY <2>1, AnswerEffect
  <2>3. TheLayout \in srv.open
    BY <2>2 DEF AskInv, Matching
  <2>4. m.req.kind # "layout"
    <3>1. m \in Range(queueSend)
      BY <2>1, HeadTailProperties DEF Typed, QueuesTyped
    <3>2. m.req \in Requests /\ m.req # TheLayout
      BY <1>3, <2>1, <3>1 DEF Typed, QueuesTyped, AnswersServer, IsAnswer
    <3> QED
      BY <3>2, TheLayoutIs DEF ServerRequests, HasFile
  <2> QED
    BY <2>2, <2>3, <2>4, TheLayoutIs DEF Matching
<1>4. CASE MessageReceived
  <2>1. CASE BeginAttempt
    BY <2>1, BeginsOne DEF Typed, None
  <2>2. CASE SendRequest
    BY <2>2, SendsOne DEF Typed, Asks
  <2> QED
    BY <1>4, <2>1, <2>2 DEF MessageReceived
<1> QED
  BY <1>1, <1>2, <1>3, <1>4, ServerLeftAlone
     DEF ConnectTo, NetworkStep, ConnectionEstablished, MessageReceivedConnect

\* Attempts are not taken back.
LEMMA AttemptStays ==
    ASSUME MaxAttempts = 1, Typed, [Next]_vars
    PROVE  srv'.attempt = srv.attempt \/ (MessageReceived /\ BeginAttempt)
<1>1. CASE SendQueuedMessages /\ srv' # srv
  <2>1. srv' = AnswerReceived(Head(queueSend)) /\ ServerTyped
    BY <1>1 DEF SendQueuedMessages, Typed
  <2> QED
    BY <2>1, AnswerEffect
<1>2. CASE MessageReceived /\ SendRequest
  BY <1>2, SendsOne DEF Typed, Asks
<1> QED
  BY <1>1, <1>2, ServerLeftAlone, CloseResets
     DEF ConnectTo, NetworkStep, ConnectionEstablished, MessageReceivedConnect, MessageReceived

LEMMA LayoutUnmoved ==
    ASSUME MaxAttempts = 1, Typed, HandsEmpty, AskInv, PlacesInv, InOrder, LayoutInv,
           [Next]_vars, ~ MovesLayout
    PROVE  LayoutInv'
<1>1. StaysPut(TheLayout) /\ UNCHANGED pendingRequest
  BY LayoutStays DEF LayoutInv
<1>2. /\ LayoutAsked' <=> LayoutAsked
      /\ LayoutTold' <=> LayoutTold
      /\ Building' <=> Building
      /\ LayoutDue' <=> LayoutDue
  BY <1>1 DEF StaysPut, LayoutAsked, LayoutTold, Building, LayoutDue, TheLayout
<1>3. \/ UNCHANGED <<layout, nextLayout>>
      \/ UpdateLayoutChanged
  <2>1. ASSUME NEW p \in Procs, ProcStep(p)
        PROVE  UNCHANGED <<layout, nextLayout>>
    BY <2>1, ProcFrames DEF MovesLayout
  <2> QED
    BY <2>1, MainFrames DEF Next
<1>4. LayoutOnce'
  <2>1. NotTwice(TheLayout)'
    BY <1>1 DEF StaysPut
  <2>2. pc'[Main] = "push" => job'[Main].req.kind # "layout"
    <3>1. CASE PutFileWithoutBlocks
      BY <3>1 DEF PutFileWithoutBlocks, MainGoto, Typed, ThreadsTyped
    <3>2. CASE ProcessRequestWriteFile /\ pc'[Main] = "push"
      <4> DEFINE x == Head(queueReceived)
      <4>1. pc[Main] = "receive" /\ x.kind = "write"
        BY <3>2 DEF ProcessRequestWriteFile, Receives
      <4>2. UNCHANGED threads \/ job' = [job EXCEPT ![Main] = JobOf(x)]
        BY <3>2, Zenon DEF ProcessRequestWriteFile
      <4>3. job' = [job EXCEPT ![Main] = JobOf(x)]
        BY <3>2, <4>1, <4>2 DEF threads
      <4>4. job'[Main] = JobOf(x) /\ JobOf(x).req = x
        BY <4>3 DEF Typed, ThreadsTyped, Threads, JobOf, NoJob
      <4> QED
        BY <4>1, <4>4
    <3> QED
      BY <3>1, <3>2, MainGoes DEF LayoutInv, LayoutOnce
  <2> QED
    BY <1>1, <1>2, <2>1, <2>2 DEF LayoutInv, LayoutOnce
<1>5. LayoutSlots'
  <2>1. pc'[Main] = pc[Main]
        \/ (pc[Main] # "changed" /\ pc'[Main] # "changed")
        \/ UpdateLayoutChanged
        \/ (~ pendingRequest /\ ~ pendingRequest')
    BY <1>1, MainGoes DEF MovesLayout
  <2>2. CASE UNCHANGED <<layout, nextLayout>> /\ ~ UpdateLayoutChanged
    BY <1>1, <1>2, <2>1, <2>2 DEF LayoutInv, LayoutSlots
  <2>3. CASE UpdateLayoutChanged
    <3>1. PICK new :
             /\ new = IF Dropped THEN None ELSE nextLayout
             /\ pc[Main] = "layout" /\ nextLayout' = new /\ layout' = new
             /\ Goto(Main, IF new # layout THEN "changed" ELSE "send")
      BY <2>3, Zenon DEF UpdateLayoutChanged, MainGoto
    <3>2. pc'[Main] = IF new # layout THEN "changed" ELSE "send"
      BY <3>1 DEF Goto, Typed, ThreadsTyped, Threads
    <3> QED
      BY <1>1, <1>2, <3>1, <3>2 DEF LayoutInv, LayoutSlots
  <2> QED
    BY <1>3, <2>2, <2>3
<1>6. LayoutFirst'
  <2>1. ASSUME LayoutDue \/ srv.attempt = None
        PROVE  /\ ~ dirty' /\ UNCHANGED writeTasks /\ DOMAIN writeTasks = {}
               /\ \A r : FileRequest(r) => ~ Somewhere(r) /\ ~ Somewhere(r)'
    <3>1. \A r : FileRequest(r) => ~ Somewhere(r)
      BY <2>1, NobodyAsked DEF LayoutInv, LayoutFirst
    <3>2. \A r : ~ Asks(r)
      BY <2>1, NotAskedYet DEF LayoutInv
    <3>3. \A r : FileRequest(r) /\ Somewhere(r)' => Somewhere(r)
      BY <3>2, NothingNew
    <3>4. ~ dirty /\ DOMAIN writeTasks = {}
      BY <2>1 DEF LayoutInv, LayoutFirst
    <3> QED
      BY <3>1, <3>3, <3>4, QuietWrites
  <2>2. srv'.attempt = srv.attempt
    BY AttemptStays DEF MovesLayout
  <2>3. LayoutDue' =>
           /\ ~ dirty' /\ DOMAIN writeTasks' = {}
           /\ \A r : FileRequest(r) => ~ Somewhere(r)'
    BY <1>2, <2>1
  <2>4. LayoutDue' /\ srv'.state # "idle" => TheLayout \in srv'.open
    <3> SUFFICES ASSUME LayoutDue, srv'.state # "idle"
                 PROVE  TheLayout \in srv'.open
      BY <1>2
    <3>1. ~ (SendQueuedMessages /\ queueSend # <<>> /\ Head(queueSend).req = TheLayout)
      BY DEF MovesLayout
    <3>2. srv.state # "idle" => TheLayout \in srv.open
      BY DEF LayoutInv, LayoutFirst
    <3>3. srv.attempt # None
      <4> SUFFICES ASSUME srv.attempt = None
                   PROVE  FALSE
        OBVIOUS
      <4>1. queueReceived = <<>> /\ ~ pendingRequest /\ queueSend = <<>>
        BY NobodyAsked DEF LayoutInv, LayoutFirst
      <4> QED
        BY <4>1 DEF LayoutDue, LayoutAsked, LayoutTold, Has, HasAnswer
    <3> QED
      BY <3>1, <3>2, <3>3, LayoutStaysOpen
  <2>5. srv'.attempt = None =>
          queueSend' = <<>> /\ nextLayout' = None /\ ~ dirty' /\ DOMAIN writeTasks' = {}
    <3> SUFFICES ASSUME srv.attempt = None
                 PROVE  queueSend' = <<>> /\ nextLayout' = None
      BY <2>1, <2>2
    <3>1. queueSend = <<>> /\ nextLayout = None
      BY DEF LayoutInv, LayoutFirst
    <3>2. queueReceived = <<>> /\ \A r : FileRequest(r) => ~ Somewhere(r)
      BY NobodyAsked
    <3>3. ASSUME NEW p \in Procs, SendResponse(p)
          PROVE  FALSE
      <4>1. Busy(p) /\ pc[p] = "answer"
        BY <3>3 DEF SendResponse, Busy
      <4>2. Held(job[p].req) /\ job[p].req \in ServerRequests /\ job[p].req.kind \in Kinds
        BY <4>1, BusyAbout DEF Fits
      <4> QED
        BY <3>2, <4>2 DEF FileRequest, Somewhere
    <3>4. queueSend' = queueSend
      BY <3>1, <3>2, <3>3, AnswersAdded DEF MovesLayout
    <3>5. nextLayout' = None
      BY <1>3, <3>1 DEF UpdateLayoutChanged, None
    <3> QED
      BY <3>1, <3>4, <3>5
  <2> QED
    BY <2>3, <2>4, <2>5 DEF LayoutFirst
<1> QED
  BY <1>4, <1>5, <1>6 DEF LayoutInv

\* What is left to show of a step that moves the request for the layout.
LEMMA LayoutMoved1 ==
    ASSUME MaxAttempts = 1, Typed, HandsEmpty, AskInv, PlacesInv, InOrder, LayoutInv,
           [Next]_vars, LayoutDue, UNCHANGED srv
    PROVE  /\ ~ dirty' /\ DOMAIN writeTasks' = {}
           /\ \A r : FileRequest(r) => ~ Somewhere(r)'
           /\ srv'.state # "idle" => TheLayout \in srv'.open
           /\ srv'.attempt = srv.attempt
<1>1. ~ dirty /\ DOMAIN writeTasks = {} /\ \A r : FileRequest(r) => ~ Somewhere(r)
  BY DEF LayoutInv, LayoutFirst
<1>2. \A r : ~ Asks(r)
  BY NotAskedYet DEF LayoutInv
<1>3. \A r : FileRequest(r) /\ Somewhere(r)' => Somewhere(r)
  BY <1>2, NothingNew
<1>4. ~ dirty' /\ UNCHANGED writeTasks
  BY <1>1, QuietWrites
<1>5. srv.state # "idle" => TheLayout \in srv.open
  BY DEF LayoutInv, LayoutFirst
<1> QED
  BY <1>1, <1>3, <1>4, <1>5

LEMMA LayoutToldKept ==
    ASSUME MaxAttempts = 1, Typed, HandsEmpty, AskInv, PlacesInv, InOrder, LayoutInv,
           [Next]_vars, OnFileLayoutChanged, pendingRequest
    PROVE  LayoutInv'
<1>1. /\ pc[Main] = "changed" /\ layout # None /\ nextLayout = layout
      /\ ~ Building /\ ~ LayoutAsked /\ ~ LayoutTold /\ LayoutDue
  BY DEF OnFileLayoutChanged, LayoutInv, LayoutSlots, LayoutOnce, LayoutDue
<1>2. srv.attempt = 1 /\ TheLayout = LayoutRequest(srv.attempt)
  BY DEF Typed, ServerTyped, TheLayout, None
<1> DEFINE m == Answer(TheLayout, TRUE, content[layout])
<1>3. /\ ~ pendingRequest'
      /\ queueSend' = Queued(m)
      /\ UNCHANGED <<pending, queueReceived, layout, nextLayout, job, srv>>
      /\ pc'[Main] = "send"
  BY <1>1, <1>2
     DEF OnFileLayoutChanged, MainGoto, Goto, layouts, Typed, ThreadsTyped, Threads
<1>4. m.req = TheLayout
  BY DEF Answer
<1>5. /\ AtMostOneAnswer(queueSend', TheLayout)
      /\ queueSend' = queueSend \/ queueSend' = Append(queueSend, m)
  <2> DEFINE S == Range(queueSend) \cup {m}
  <2>1. queueSend \in Seq(S) /\ m \in S
    BY SeqMonotonic DEF Typed, QueuesTyped
  <2>2. AtMostOneAnswer(queueSend, TheLayout) /\ ~ HasAnswer(queueSend, TheLayout)
    BY <1>1 DEF LayoutInv, LayoutOnce, NotTwice, LayoutTold
  <2> HIDE DEF S, m
  <2>3. AtMostOneAnswer(Append(queueSend, m), TheLayout)
    BY <2>1, <2>2, AnswersAppended
  <2> QED
    BY <1>3, <2>2, <2>3 DEF Queued
<1>6. /\ ~ Building' /\ ~ LayoutAsked'
      /\ NotTwice(TheLayout)'
  <2>1. (Held(TheLayout)' <=> Held(TheLayout)) /\ (HeldOnce(TheLayout)' <=> HeldOnce(TheLayout))
    BY <1>3, HeldKept DEF HandsKept
  <2>2. NotTwice(TheLayout)
    BY DEF LayoutInv, LayoutOnce
  <2> QED
    BY <1>1, <1>3, <1>5, <2>1, <2>2 DEF Building, LayoutAsked, NotTwice, TheLayout
<1>7. LayoutOnce'
  BY <1>3, <1>6 DEF LayoutOnce
<1>8. LayoutSlots'
  BY <1>1, <1>3, <1>6 DEF LayoutSlots
<1>9. LayoutFirst'
  <2>1. /\ ~ dirty' /\ DOMAIN writeTasks' = {}
        /\ \A r : FileRequest(r) => ~ Somewhere(r)'
        /\ srv'.state # "idle" => TheLayout \in srv'.open
        /\ srv'.attempt = 1
    BY <1>1, <1>2, <1>3, LayoutMoved1
  <2> QED
    BY <2>1 DEF LayoutFirst, None
<1> QED
  BY <1>7, <1>8, <1>9 DEF LayoutInv

LEMMA LayoutSentKept ==
    ASSUME MaxAttempts = 1, Typed, HandsEmpty, AskInv, PlacesInv, InOrder, LayoutInv,
           [Next]_vars, SendQueuedMessages, queueSend # <<>>, Head(queueSend).req = TheLayout
    PROVE  LayoutInv'
<1>1. /\ pc[Main] = "send" /\ pc'[Main] \in {"send", "thrown"}
      /\ queueSend' = Tail(queueSend)
      /\ UNCHANGED <<pending, queueReceived, layout, nextLayout, job, pendingRequest>>
  BY DEF SendQueuedMessages, MainGoto, Goto, layouts, threads, Typed, ThreadsTyped, Threads
<1>2. /\ HasAnswer(queueSend, TheLayout) /\ ~ HasAnswer(queueSend', TheLayout)
      /\ AtMostOneAnswer(queueSend', TheLayout)
  BY <1>1, AnswersTail DEF Typed, QueuesTyped, LayoutInv, LayoutOnce, NotTwice
<1>3. /\ ~ pendingRequest /\ ~ LayoutAsked /\ ~ Building
  BY <1>2 DEF LayoutInv, LayoutOnce, LayoutAsked, LayoutTold, NotTwice
<1>4. ~ LayoutAsked' /\ ~ LayoutTold' /\ ~ Building' /\ NotTwice(TheLayout)'
  <2>1. (Held(TheLayout)' <=> Held(TheLayout)) /\ (HeldOnce(TheLayout)' <=> HeldOnce(TheLayout))
    BY <1>1, HeldKept DEF HandsKept
  <2>2. NotTwice(TheLayout)
    BY DEF LayoutInv, LayoutOnce
  <2> QED
    BY <1>1, <1>2, <1>3, <2>1, <2>2 DEF Building, LayoutAsked, LayoutTold, NotTwice, TheLayout
<1>5. LayoutOnce' /\ LayoutSlots'
  BY <1>1, <1>3, <1>4 DEF LayoutOnce, LayoutInv, LayoutSlots
<1>6. srv.attempt # None
  BY DEF LayoutInv, LayoutFirst
<1>7. srv'.attempt = srv.attempt
  BY AttemptStays DEF SendQueuedMessages, MessageReceived
<1>8. ~ LayoutDue'
  BY <1>1, <1>3, <1>4 DEF LayoutDue
<1>9. LayoutFirst'
  BY <1>6, <1>7, <1>8 DEF LayoutFirst
<1> QED
  BY <1>5, <1>9 DEF LayoutInv

LEMMA LayoutAskedKept ==
    ASSUME MaxAttempts = 1, Typed, HandsEmpty, AskInv, PlacesInv, InOrder, LayoutInv,
           [Next]_vars, ProcessRequestLayout
    PROVE  LayoutInv'
<1> DEFINE x == Head(queueReceived)
<1>1. /\ pc[Main] = "receive" /\ queueReceived # <<>> /\ x.kind = "layout"
      /\ queueReceived' = Tail(queueReceived)
      /\ UNCHANGED <<layout, nextLayout, pc, job, srv>>
  BY DEF ProcessRequestLayout, Receives, layouts, threads
<1>2. x \in ServerRequests /\ x = TheLayout
  BY <1>1, ReceivedAbout, TheLayoutIs
<1>3. NotTwice(TheLayout)
  BY DEF LayoutInv, LayoutOnce
<1>4. /\ Has(queueReceived, TheLayout) /\ ~ Has(queueReceived', TheLayout)
      /\ AtMostOne(queueReceived', TheLayout)
  BY <1>1, <1>2, <1>3, HasTail DEF Typed, QueuesTyped, NotTwice
<1>5. LayoutAsked /\ LayoutDue
  BY <1>4 DEF LayoutAsked, LayoutDue
<1>6. layout = None /\ nextLayout = None
  BY <1>5 DEF LayoutInv, LayoutSlots
<1>7. ~ Has(pending, TheLayout) /\ ~ Held(TheLayout) /\ ~ HasAnswer(queueSend, TheLayout)
  BY <1>3, <1>4 DEF NotTwice
<1>8. ~ \E e \in Range(pending) : e.kind = "layout"
  <2> SUFFICES ASSUME NEW i \in DOMAIN pending, pending[i].kind = "layout"
               PROVE  FALSE
    BY DEF Range
  <2>1. pending[i] \in ServerRequests
    BY DEF Typed, QueuesTyped
  <2> QED
    BY <1>7, <2>1, TheLayoutIs DEF Has
<1>9. pendingRequest' /\ pending' = Append(pending, x) /\ queueSend' = queueSend
  BY <1>6, <1>8, Zenon DEF ProcessRequestLayout
<1>10. Has(pending', TheLayout) /\ AtMostOne(pending', TheLayout)
  <2>1. Has(Append(pending, x), TheLayout) /\ AtMostOne(Append(pending, x), TheLayout)
    BY <1>2, <1>3, <1>7, HasAppended DEF Typed, QueuesTyped, NotTwice
  <2> QED
    BY <1>9, <2>1
<1>11. (Held(TheLayout)' <=> Held(TheLayout)) /\ (HeldOnce(TheLayout)' <=> HeldOnce(TheLayout))
  BY <1>1, HeldKept DEF HandsKept
<1>12. NotTwice(TheLayout)' /\ ~ LayoutAsked' /\ ~ LayoutTold' /\ Building'
  BY <1>3, <1>4, <1>7, <1>9, <1>10, <1>11
     DEF NotTwice, LayoutAsked, LayoutTold, Building, TheLayout
<1>13. LayoutOnce' /\ LayoutSlots'
  BY <1>1, <1>6, <1>9, <1>12 DEF LayoutOnce, LayoutSlots
<1>14. srv.attempt # None
  BY <1>1 DEF Typed, ServerTyped
<1>15. LayoutFirst'
  BY <1>1, <1>5, <1>14, LayoutMoved1 DEF LayoutFirst
<1> QED
  BY <1>13, <1>15 DEF LayoutInv

LEMMA LayoutBegunKept ==
    ASSUME MaxAttempts = 1, Typed, HandsEmpty, AskInv, PlacesInv, InOrder, LayoutInv,
           [Next]_vars, MessageReceived, BeginAttempt
    PROVE  LayoutInv'
<1>1. /\ srv.attempt = None /\ srv'.attempt = 1
      /\ queueReceived' = Append(queueReceived, TheLayout)
      /\ srv'.open = {TheLayout}
      /\ UNCHANGED <<layout, nextLayout, dirty, writeTasks, pendingRequest, pending, queueSend,
                     pc, job>>
  BY BeginsOne DEF Typed, TheLayout, None, MessageReceived, layouts, writing, threads
<1>2. /\ \A r : FileRequest(r) => ~ Somewhere(r)
      /\ queueReceived = <<>> /\ ~ pendingRequest
  BY <1>1, NobodyAsked
<1>3. queueSend = <<>> /\ nextLayout = None /\ ~ dirty /\ DOMAIN writeTasks = {}
  BY <1>1 DEF LayoutInv, LayoutFirst
<1>4. \A r : FileRequest(r) => ~ Somewhere(r)'
  <2>1. \A r : ~ Asks(r)
    BY <1>1, NotAskedYet DEF LayoutInv
  <2> QED
    BY <1>2, <2>1, NothingNew
<1>5. /\ ~ Building /\ ~ LayoutTold /\ layout = None /\ NotTwice(TheLayout)
      /\ ~ Held(TheLayout) /\ ~ Has(pending, TheLayout) /\ HeldOnce(TheLayout)
  BY <1>2, <1>3 DEF LayoutInv, LayoutOnce, LayoutSlots, LayoutTold, HasAnswer, Building, NotTwice
<1>6. Has(queueReceived', TheLayout) /\ AtMostOne(queueReceived', TheLayout)
  BY <1>1, <1>2 DEF Has, AtMostOne
<1>7. (Held(TheLayout)' <=> Held(TheLayout)) /\ (HeldOnce(TheLayout)' <=> HeldOnce(TheLayout))
  BY <1>1, HeldKept DEF HandsKept
<1>8. NotTwice(TheLayout)' /\ ~ Building' /\ ~ LayoutTold'
  BY <1>1, <1>3, <1>5, <1>6, <1>7
     DEF NotTwice, Building, LayoutTold, TheLayout, HasAnswer, AtMostOneAnswer
<1>9. LayoutOnce' /\ LayoutSlots'
  BY <1>1, <1>2, <1>3, <1>5, <1>8 DEF LayoutOnce, LayoutSlots, LayoutInv
<1>10. LayoutFirst'
  BY <1>1, <1>3, <1>4 DEF LayoutFirst, None
<1> QED
  BY <1>9, <1>10 DEF LayoutInv

LEMMA LayoutTakenKept ==
    ASSUME MaxAttempts = 1, Typed, HandsEmpty, AskInv, PlacesInv, InOrder, LayoutInv,
           [Next]_vars, NEW p \in Procs, TakeTask(p), job'[p].req = TheLayout
    PROVE  LayoutInv'
<1>0. p \in Threads /\ p # Main
  BY ThreadsAssumption DEF Threads
<1>1. PICK i \in DOMAIN pending :
         /\ pending' = RemoveAt(pending, i)
         /\ Goto(p, pending[i].kind)
         /\ job' = [job EXCEPT ![p] = JobOf(pending[i])]
  BY Zenon DEF TakeTask, Erased
<1>2. /\ pc[p] = "idle" /\ pc'[Main] = pc[Main] /\ job'[Main] = job[Main]
      /\ UNCHANGED <<layout, nextLayout, pendingRequest, queueReceived, queueSend, srv>>
  BY <1>0, <1>1 DEF TakeTask, Goto, Typed, ThreadsTyped, queues, layouts
<1>3. /\ job[p].req = NoRequest /\ job'[p].req = pending[i]
      /\ \A u \in Threads \ {p} : job'[u].req = job[u].req
  BY <1>0, <1>1, <1>2 DEF HandsEmpty, Busy, JobOf, NoJob, Typed, ThreadsTyped
<1>4. NotTwice(TheLayout) /\ Has(pending, TheLayout) /\ ~ Held(TheLayout)
  BY <1>3 DEF LayoutInv, LayoutOnce, NotTwice, Has
<1>5. Building /\ pendingRequest /\ LayoutDue
  BY <1>4 DEF Building, LayoutInv, LayoutOnce, LayoutDue
<1>6. ~ Has(pending', TheLayout) /\ AtMostOne(pending', TheLayout)
  BY <1>1, <1>3, <1>4, HasErased DEF Typed, QueuesTyped, NotTwice
<1>7. Held(TheLayout)' /\ HeldOnce(TheLayout)'
  BY <1>0, <1>3, <1>4 DEF Held, HeldOnce
<1>8. /\ NotTwice(TheLayout)' /\ Building'
      /\ (LayoutAsked' <=> LayoutAsked) /\ (LayoutTold' <=> LayoutTold)
  BY <1>2, <1>4, <1>6, <1>7 DEF NotTwice, Building, LayoutAsked, LayoutTold, TheLayout
<1>9. LayoutOnce' /\ LayoutSlots'
  BY <1>2, <1>5, <1>8 DEF LayoutOnce, LayoutSlots, LayoutInv
<1>10. srv.attempt # None
  BY <1>5 DEF Typed, ServerTyped
<1>11. LayoutFirst'
  BY <1>2, <1>5, <1>10, LayoutMoved1 DEF LayoutFirst
<1> QED
  BY <1>9, <1>11 DEF LayoutInv

LEMMA LayoutSetKept ==
    ASSUME MaxAttempts = 1, Typed, HandsEmpty, AskInv, PlacesInv, InOrder, LayoutInv,
           [Next]_vars, NEW p \in Procs, SetFileLayout(p)
    PROVE  LayoutInv'
<1>0. p \in Threads /\ p # Main
  BY ThreadsAssumption DEF Threads
<1>1. /\ pc[p] = "publish" /\ pc'[Main] = pc[Main] /\ job'[Main] = job[Main]
      /\ job'[p].req = NoRequest
      /\ \A u \in Threads \ {p} : job'[u].req = job[u].req
      /\ UNCHANGED <<layout, pendingRequest, pending, queueReceived, queueSend, srv>>
  BY <1>0 DEF SetFileLayout, Return, Goto, NoJob, Typed, ThreadsTyped, queues
<1>2. job[p].req = TheLayout
  <2>1. Busy(p)
    BY <1>1 DEF Busy
  <2> QED
    BY <1>1, <2>1, BusyAbout, TheLayoutIs DEF Fits
<1>3. Held(TheLayout) /\ NotTwice(TheLayout)
  BY <1>0, <1>2 DEF Held, LayoutInv, LayoutOnce
<1>4. /\ Building /\ pendingRequest /\ LayoutDue /\ ~ LayoutAsked /\ ~ LayoutTold
      /\ ~ Has(pending, TheLayout)
  BY <1>3 DEF Building, LayoutInv, LayoutOnce, LayoutDue, NotTwice, LayoutAsked, LayoutTold
<1>5. nextLayout = None /\ layout = None
  BY <1>4 DEF LayoutInv, LayoutSlots
<1>6. ~ Held(TheLayout)' /\ HeldOnce(TheLayout)'
  BY <1>0, <1>1, <1>2, <1>3, TheLayoutIs DEF Held, HeldOnce, NotTwice, TheLayout
<1>7. NotTwice(TheLayout)' /\ ~ Building' /\ ~ LayoutAsked' /\ ~ LayoutTold'
  BY <1>1, <1>3, <1>4, <1>6 DEF NotTwice, Building, LayoutAsked, LayoutTold, TheLayout
<1>8. LayoutOnce' /\ LayoutSlots'
  BY <1>1, <1>4, <1>5, <1>7 DEF LayoutOnce, LayoutSlots, LayoutInv
<1>9. srv.attempt # None
  BY <1>4 DEF Typed, ServerTyped
<1>10. LayoutFirst'
  BY <1>1, <1>4, <1>9, LayoutMoved1 DEF LayoutFirst
<1> QED
  BY <1>8, <1>10 DEF LayoutInv

LEMMA LayoutInvKept ==
    ASSUME MaxAttempts = 1, Typed, HandsEmpty, AskInv, PlacesInv, InOrder, LayoutInv,
           [Next]_vars
    PROVE  LayoutInv'
BY LayoutUnmoved, LayoutToldKept, LayoutSentKept, LayoutAskedKept, LayoutBegunKept,
   LayoutTakenKept, LayoutSetKept
   DEF MovesLayout

-------------------------------------------------------------------------------
(* The file tasks are made, marked and given up *)

\* Only the status of the file task changes.
Marked(p) ==
    /\ StatusOf(p)' # "none"
    /\ fileWrite'[<<1, p>>].truncate = fileWrite[<<1, p>>].truncate
    /\ \A q \in Paths \ {p} : fileWrite'[<<1, q>>] = fileWrite[<<1, q>>]

Begins(x) ==
    /\ ProcessRequestWriteFile /\ layout # None
    /\ queueReceived # <<>> /\ x = Head(queueReceived)
    /\ FileRequest(x) /\ x.kind = "write" /\ Has(queueReceived, x)
    /\ fileWrite'[<<1, x.path>>] = [status |-> "pending", truncate |-> Truncates(x)]
    /\ \A q \in Paths \ {x.path} : fileWrite'[<<1, q>>] = fileWrite[<<1, q>>]
    /\ DOMAIN writeTasks' = DOMAIN writeTasks \cup {x.path}

Ends(x) ==
    /\ ProcessRequestFinishWriteFile /\ Marked(x.path)
    /\ queueReceived # <<>> /\ x = Head(queueReceived)
    /\ FileRequest(x) /\ x.kind = "finish" /\ Has(queueReceived, x)
    /\ x.path \in DOMAIN writeTasks
    /\ DOMAIN writeTasks' = DOMAIN writeTasks \ {x.path}

Marks(p) ==
    /\ Marked(p) /\ UNCHANGED writeTasks
    /\ \/ p \in DOMAIN writeTasks
       \/ \E t \in Procs :
             /\ ProcStep(t) /\ Busy(t)
             /\ FileRequest(job[t].req) /\ job[t].req.kind \in {"write", "finish"}
             /\ job[t].req.path = p

LEMMA MarkedOne ==
    ASSUME MaxAttempts = 1, Typed, NEW p \in Paths,
           NEW status \in {"pending", "processing", "finishing", "success", "failure",
                           "validationFailed"},
           fileWrite' = [fileWrite EXCEPT ![<<1, p>>].status = status]
    PROVE  Marked(p)
<1>1. \A q \in Paths :
         /\ <<1, q>> \in DOMAIN fileWrite
         /\ DOMAIN fileWrite[<<1, q>>] = {"status", "truncate"}
  BY DEF Typed, WritesTyped, Attempts
<1>2. \A q \in Paths : q # p => <<1, q>> # <<1, p>>
  OBVIOUS
<1> QED
  BY <1>1, <1>2 DEF Marked, StatusOf

\* Update() begins a file task, or refuses to without a layout.
LEMMA WriteBegins ==
    ASSUME MaxAttempts = 1, Typed, ProcessRequestWriteFile
    PROVE  \/ layout = None /\ UNCHANGED writing /\ UNCHANGED threads
           \/ Begins(Head(queueReceived))
<1> DEFINE x == Head(queueReceived)
<1>1. queueReceived # <<>> /\ x.kind = "write"
  BY DEF ProcessRequestWriteFile, Receives
<1>2. FileRequest(x) /\ Has(queueReceived, x)
  BY <1>1, ReceivedAbout, TheLayoutIs
<1>3. x.at = 1 /\ x.path \in Paths
  BY <1>2, OneAttempt, RequestFields DEF FileRequest
<1>4. \/ layout = None /\ UNCHANGED writing /\ UNCHANGED threads
      \/ /\ layout # None
         /\ fileWrite' = [fileWrite EXCEPT ![<<x.at, x.path>>] =
                             [status |-> "pending", truncate |-> Truncates(x)]]
         /\ writeTasks' = With(writeTasks, x.path, x.at)
  BY Zenon DEF ProcessRequestWriteFile
<1>5. CASE layout = None
  BY <1>4, <1>5
<1>6. CASE layout # None
  <2> DEFINE file == [status |-> "pending", truncate |-> Truncates(x)]
  <2>1. /\ fileWrite'[<<1, x.path>>] = file
        /\ \A q \in Paths \ {x.path} : fileWrite'[<<1, q>>] = fileWrite[<<1, q>>]
    <3> HIDE DEF file, x
    <3>1. fileWrite' = [fileWrite EXCEPT ![<<1, x.path>>] = file]
      BY <1>3, <1>4, <1>6 DEF file
    <3>2. \A q \in Paths : <<1, q>> \in DOMAIN fileWrite
      BY DEF Typed, WritesTyped, Attempts
    <3>3. \A q \in Paths \ {x.path} : <<1, q>> # <<1, x.path>>
      OBVIOUS
    <3> QED
      BY <1>3, <3>1, <3>2, <3>3
  <2>2. DOMAIN writeTasks' = DOMAIN writeTasks \cup {x.path}
    BY <1>4, <1>6 DEF With
  <2>3. Begins(x)
    BY <1>1, <1>2, <1>6, <2>1, <2>2 DEF Begins
  <2> QED
    BY <2>3
<1> QED
  BY <1>5, <1>6

LEMMA WritesMove ==
    ASSUME MaxAttempts = 1, Typed, [Next]_vars
    PROVE  \/ UNCHANGED <<fileWrite, writeTasks>>
           \/ \E x : Begins(x)
           \/ \E x : Ends(x)
           \/ \E p \in Paths : Marks(p)
<1> DEFINE x == Head(queueReceived)
<1>1. CASE ProcessRequestWriteFile
  BY <1>1, WriteBegins DEF writing
<1>2. CASE ProcessSendFileData
  <2>1. queueReceived # <<>> /\ x.kind = "data" /\ UNCHANGED writeTasks
    BY <1>2 DEF ProcessSendFileData, Receives
  <2>2. FileRequest(x)
    BY <2>1, ReceivedAbout, TheLayoutIs
  <2>3. x.path \in Paths
    BY <2>2, RequestFields DEF FileRequest
  <2>4. \/ UNCHANGED fileWrite
        \/ /\ x.path \in DOMAIN writeTasks
           /\ fileWrite' = [fileWrite EXCEPT
                 ![<<writeTasks[x.path], x.path>>].status = "failure"]
    BY <1>2, Zenon DEF ProcessSendFileData
  <2>5. x.path \in DOMAIN writeTasks => writeTasks[x.path] = 1
    BY DEF Typed, WritesTyped, Attempts
  <2>6. CASE x.path \in DOMAIN writeTasks
             /\ fileWrite' = [fileWrite EXCEPT ![<<1, x.path>>].status = "failure"]
    <3>1. Marked(x.path)
      BY <2>3, <2>6, MarkedOne
    <3> QED
      BY <2>1, <2>3, <2>6, <3>1 DEF Marks
  <2> QED
    BY <2>1, <2>4, <2>5, <2>6
<1>3. CASE ProcessRequestFinishWriteFile
  <2>1. queueReceived # <<>> /\ x.kind = "finish"
    BY <1>3 DEF ProcessRequestFinishWriteFile, Receives
  <2>2. FileRequest(x) /\ Has(queueReceived, x)
    BY <2>1, ReceivedAbout, TheLayoutIs
  <2>3. x.path \in Paths
    BY <2>2, RequestFields DEF FileRequest
  <2>4. \/ UNCHANGED writing
        \/ /\ x.path \in DOMAIN writeTasks
           /\ fileWrite' = [fileWrite EXCEPT
                 ![<<writeTasks[x.path], x.path>>].status = "finishing"]
           /\ writeTasks' = Without(writeTasks, x.path)
    BY <1>3, Zenon DEF ProcessRequestFinishWriteFile
  <2>5. x.path \in DOMAIN writeTasks => writeTasks[x.path] = 1
    BY DEF Typed, WritesTyped, Attempts
  <2>6. CASE /\ x.path \in DOMAIN writeTasks
             /\ fileWrite' = [fileWrite EXCEPT ![<<1, x.path>>].status = "finishing"]
             /\ writeTasks' = Without(writeTasks, x.path)
    <3>1. Marked(x.path)
      BY <2>3, <2>6, MarkedOne
    <3>2. DOMAIN writeTasks' = DOMAIN writeTasks \ {x.path}
      BY <2>6 DEF Without, Restrict
    <3>3. Ends(x)
      BY <1>3, <2>1, <2>2, <2>6, <3>1, <3>2 DEF Ends
    <3> QED
      BY <3>3
  <2> QED
    BY <2>4, <2>5, <2>6 DEF writing
<1>4. ASSUME NEW t \in Procs, ProcStep(t), fileWrite' # fileWrite
      PROVE  \E p \in Paths : Marks(p)
  <2> DEFINE r == job[t].req
  <2>1. WriteFile(t) \/ FinishWriteFile(t) \/ AddFile(t)
    BY <1>4, ProcFrames
  <2>2. UNCHANGED writeTasks
    BY <1>4, ProcFrames
  <2>3. Busy(t) /\ pc[t] \in {"write", "finish", "add"}
    BY <2>1 DEF WriteFile, FinishWriteFile, AddFile, Busy
  <2>4. FileRequest(r) /\ r.kind \in {"write", "finish"}
    BY <2>3, BusyAbout DEF Fits, FileRequest, Kinds
  <2>5. r.at = 1 /\ r.path \in Paths
    BY <2>4, OneAttempt, RequestFields DEF FileRequest
  <2>6. PICK status \in {"processing", "success", "failure", "validationFailed"} :
           SetStatus(r, status)
    <3>1. CASE WriteFile(t)
      BY <3>1 DEF WriteFile
    <3>2. CASE FinishWriteFile(t)
      BY <3>2 DEF FinishWriteFile
    <3>3. CASE AddFile(t)
      BY <1>4, <3>3, Zenon DEF AddFile
    <3> QED
      BY <2>1, <3>1, <3>2, <3>3
  <2>7. Marked(r.path)
    BY <2>5, <2>6, MarkedOne DEF SetStatus
  <2>8. Marks(r.path)
    BY <1>4, <2>2, <2>3, <2>4, <2>7 DEF Marks
  <2> QED
    BY <2>5, <2>8
<1>5. ASSUME NEW t \in Procs, ProcStep(t)
      PROVE  UNCHANGED writeTasks
  BY <1>5, ProcFrames
<1> QED
  BY <1>1, <1>2, <1>3, <1>4, <1>5, MainFrames DEF Next

\* The server asks when a message is received.
LEMMA AskingIs ==
    ASSUME Typed, [Next]_vars, NEW r, FileRequest(r), Asks(r)
    PROVE  MessageReceived /\ UNCHANGED <<pending, threads, queueSend, disk, writing, layouts>>
<1>1. queueReceived' # queueReceived /\ r \in ServerRequests
  <2>1. Len(Append(queueReceived, r)) # Len(queueReceived)
    BY DEF Typed, QueuesTyped, FileRequest
  <2> QED
    BY <2>1 DEF Asks, FileRequest
<1>2. srv' # srv
  BY DEF Asks
<1>3. ~ SendQueuedMessages
  BY <1>1 DEF SendQueuedMessages
<1>4. ~ Disconnect /\ ~ ConnectionClosed
  BY CloseResets DEF Asks
<1>5. MessageReceived
  BY <1>2, <1>3, <1>4, ServerLeftAlone
     DEF ConnectTo, NetworkStep, ConnectionEstablished, MessageReceivedConnect
<1> QED
  BY <1>5 DEF MessageReceived

\* Where a task that waits can come from.
LEMMA WaitingMoved ==
    ASSUME MaxAttempts = 1, Typed, HandsEmpty, InOrder, [Next]_vars,
           NEW r, FileRequest(r), Waiting(r)'
    PROVE  \/ Waiting(r)
           \/ /\ Has(queueReceived, r) /\ Head(queueReceived) = r
              /\ Accepts \/ (Keeps /\ UNCHANGED pending /\ job'[Main].req = r)
<1>1. CASE Asks(r)
  <2>1. MessageReceived
    BY <1>1, AskingIs
  <2>2. UNCHANGED <<pending, job>>
    BY <2>1 DEF MessageReceived, threads
  <2> QED
    BY <2>2 DEF Waiting, Held
<1>2. CASE ~ Asks(r)
  <2>1. NotTwice(r)
    BY DEF InOrder
  <2>2. Moved(r)
    BY <1>2, <2>1, RequestsMove
  <2>3. CASE Has(pending', r)
    BY <2>2, <2>3 DEF Moved, Waiting, Held, Threads
  <2>4. ASSUME NEW t \in Threads, job'[t].req = r
        PROVE  \/ Waiting(r)
               \/ /\ Has(queueReceived, r) /\ Head(queueReceived) = r
                  /\ Keeps /\ t = Main
    BY <2>2, <2>4 DEF Moved, Waiting, Held
  <2>5. Keeps => UNCHANGED pending
    BY DEF Keeps, ProcessRequestFileBlockHashes, ProcessRequestWriteFile
  <2> QED
    BY <2>3, <2>4, <2>5 DEF Waiting, Held
<1> QED
  BY <1>1, <1>2

\* A file task begins, and is not taken back.
LEMMA StatusMoves ==
    ASSUME MaxAttempts = 1, Typed, InOrder, StatusInv, [Next]_vars, NEW p \in Paths
    PROVE  /\ StatusOf(p) # "none" => StatusOf(p)' # "none"
           /\ StatusOf(p)' # "none" =>
                 StatusOf(p) # "none" \/ \E x : Begins(x) /\ x.path = p
           /\ p \in DOMAIN writeTasks' =>
                 p \in DOMAIN writeTasks \/ \E x : Begins(x) /\ x.path = p
           /\ p \in DOMAIN writeTasks =>
                 p \in DOMAIN writeTasks' \/ \E x : Ends(x) /\ x.path = p
<1>1. CASE UNCHANGED <<fileWrite, writeTasks>>
  BY <1>1 DEF StatusOf
<1>2. ASSUME NEW x, Begins(x)
      PROVE  /\ StatusOf(x.path)' # "none"
             /\ \A q \in Paths \ {x.path} : StatusOf(q)' = StatusOf(q)
             /\ DOMAIN writeTasks' = DOMAIN writeTasks \cup {x.path}
  BY <1>2 DEF Begins, StatusOf
<1>3. ASSUME NEW x, Ends(x)
      PROVE  /\ StatusOf(x.path)' # "none" /\ StatusOf(x.path) # "none"
             /\ \A q \in Paths \ {x.path} : StatusOf(q)' = StatusOf(q)
             /\ DOMAIN writeTasks' = DOMAIN writeTasks \ {x.path}
  BY <1>3 DEF Ends, Marked, StatusOf, StatusInv
<1>4. ASSUME NEW q \in Paths, Marks(q)
      PROVE  /\ StatusOf(q)' # "none" /\ StatusOf(q) # "none"
             /\ \A o \in Paths \ {q} : StatusOf(o)' = StatusOf(o)
             /\ UNCHANGED writeTasks
  <2>1. CASE q \in DOMAIN writeTasks
    BY <1>4, <2>1 DEF Marks, Marked, StatusOf, StatusInv
  <2>2. CASE q \notin DOMAIN writeTasks
    <3>1. PICK t \in Procs :
             /\ Busy(t) /\ job[t].req.path = q
             /\ FileRequest(job[t].req) /\ job[t].req.kind \in {"write", "finish"}
      BY <1>4, <2>2 DEF Marks
    <3>2. Waiting(job[t].req)
      BY DEF Waiting, Held, Threads
    <3>3. StatusOf(q) # "none"
      BY <3>1, <3>2 DEF StatusInv
    <3> QED
      BY <1>4, <3>3 DEF Marks, Marked, StatusOf
  <2> QED
    BY <2>1, <2>2
<1> QED
  BY <1>1, <1>2, <1>3, <1>4, WritesMove

LEMMA StatusInvKept ==
    ASSUME MaxAttempts = 1, Typed, HandsEmpty, AskInv, PlacesInv, InOrder, StatusInv,
           [Next]_vars
    PROVE  StatusInv'
<1>1. ASSUME NEW x, Begins(x)
      PROVE  /\ x.path \in Paths /\ x = Request("write", 1, x.path, 0)
             /\ Somewhere(x) /\ NotTwice(x)
             /\ queueReceived' = Tail(queueReceived)
             /\ UNCHANGED srv
  <2>1. /\ Somewhere(x) /\ NotTwice(x) /\ FileRequest(x) /\ x.kind = "write"
        /\ queueReceived' = Tail(queueReceived)
        /\ UNCHANGED srv
    BY <1>1 DEF Begins, InOrder, Somewhere, ProcessRequestWriteFile, Receives
  <2>2. x.index = 0 /\ x.path \in Paths
    BY <2>1, RequestFields DEF InOrder, Sensible, FileRequest
  <2> QED
    BY <2>1, <2>2, OneAttempt DEF FileRequest
<1>2. ASSUME NEW r, FileRequest(r), r.kind = "write", Has(queueReceived', r)
      PROVE  StatusOf(r.path)' = "none"
  <2>0. r.path \in Paths /\ r \in ServerRequests
    BY <1>2, RequestFields DEF FileRequest
  <2>1. CASE Asks(r)
    <3>1. srv.state = "work" /\ r \notin srv.sent /\ r.index = 0
      BY <1>2, <2>1, WantedByKind DEF Asks
    <3>2. r = Request("write", 1, r.path, 0)
      BY <1>2, <2>0, <3>1, OneAttempt
    <3>3. StatusOf(r.path) = "none"
      BY <2>0, <3>1, <3>2 DEF StatusInv
    <3>4. ~ \E x : Begins(x)
      BY <1>1, <2>1 DEF Asks
    <3> QED
      BY <2>0, <3>3, <3>4, StatusMoves
  <2>2. CASE ~ Asks(r)
    <3>1. NotTwice(r)
      BY <1>2 DEF InOrder
    <3>2. Has(queueReceived, r)
      BY <1>2, <2>2, <3>1, RequestsMove DEF Moved
    <3>3. StatusOf(r.path) = "none" /\ Somewhere(r)
      BY <1>2, <3>2 DEF StatusInv, Somewhere
    <3>4. ASSUME NEW x, Begins(x), x.path = r.path
          PROVE  FALSE
      <4>1. r.index = 0
        BY <1>2, <3>3 DEF InOrder, Sensible
      <4>2. r = x
        BY <1>1, <1>2, <2>0, <3>4, <4>1, OneAttempt
      <4>3. queueReceived # <<>> /\ Head(queueReceived) = r /\ queueReceived' = Tail(queueReceived)
        BY <1>1, <3>4, <4>2 DEF Begins
      <4>4. ~ Has(queueReceived', r)
        BY <3>1, <4>3, HasTail DEF Typed, QueuesTyped, NotTwice
      <4> QED
        BY <1>2, <4>4
    <3> QED
      BY <2>0, <3>3, <3>4, StatusMoves
  <2> QED
    BY <2>1, <2>2
<1>3. ASSUME srv'.attempt = None, NEW p \in Paths
      PROVE  StatusOf(p)' = "none"
  <2>1. srv.attempt = None
    BY <1>3, AttemptStays, BeginsOne DEF Typed, None
  <2>2. queueReceived = <<>>
    BY <2>1, NobodyAsked
  <2> QED
    BY <2>1, <2>2, StatusMoves DEF StatusInv, Begins
<1>4. ASSUME srv'.state # "idle", NEW p \in Paths, Request("write", 1, p, 0) \notin srv'.sent
      PROVE  StatusOf(p)' = "none"
  <2>1. CASE MessageReceived /\ BeginAttempt
    <3>1. srv.attempt = None /\ UNCHANGED fileWrite
      BY <2>1, BeginsOne DEF Typed, None, MessageReceived, writing
    <3> QED
      BY <3>1 DEF StatusInv, StatusOf
  <2>2. CASE ~ (MessageReceived /\ BeginAttempt)
    <3>1. srv.state # "idle" /\ srv.sent \subseteq srv'.sent
      <4>1. CASE UNCHANGED srv
        BY <1>4, <4>1
      <4>2. CASE Disconnect \/ ConnectionClosed
        BY <1>4, <4>2, CloseResets
      <4>3. CASE SendQueuedMessages /\ srv' # srv
        <5>1. srv' = AnswerReceived(Head(queueSend)) /\ ServerTyped
          BY <4>3 DEF SendQueuedMessages, Typed
        <5> QED
          BY <1>4, <5>1, AnswerEffect DEF AskInv, Matching
      <4>4. CASE MessageReceived /\ SendRequest
        BY <4>4, SendsOne DEF Typed, Asks
      <4> QED
        BY <2>2, <4>1, <4>2, <4>3, <4>4, ServerLeftAlone
           DEF ConnectTo, NetworkStep, ConnectionEstablished, MessageReceivedConnect,
               MessageReceived
    <3>2. StatusOf(p) = "none"
      BY <1>4, <3>1 DEF StatusInv
    <3>3. ASSUME NEW x, Begins(x), x.path = p
          PROVE  FALSE
      <4>1. x \in srv.open /\ x = Request("write", 1, p, 0)
        BY <1>1, <3>1, <3>3 DEF PlacesInv, Live, Begins, FileRequest
      <4> QED
        BY <1>4, <3>1, <4>1 DEF Typed, ServerTyped
    <3> QED
      BY <3>2, <3>3, StatusMoves
  <2> QED
    BY <2>1, <2>2
<1>5. ASSUME NEW r, FileRequest(r), r.kind \in {"write", "data"}, Waiting(r)'
      PROVE  r.path \in DOMAIN writeTasks'
  <2>0. r.path \in Paths
    BY <1>5, RequestFields DEF FileRequest
  <2>1. ASSUME r.path \in DOMAIN writeTasks, Somewhere(r)
        PROVE  r.path \in DOMAIN writeTasks'
    <3>1. ASSUME NEW x, Ends(x), x.path = r.path
          PROVE  FALSE
      <4>1. FileRequest(x) /\ Somewhere(x) /\ x.kind = "finish"
        BY <3>1 DEF Ends, Somewhere
      <4> QED
        BY <1>5, <2>1, <3>1, <4>1 DEF InOrder, Together
    <3> QED
      BY <2>0, <2>1, <3>1, StatusMoves
  <2>2. CASE Waiting(r)
    BY <1>5, <2>1, <2>2 DEF StatusInv, Waiting, Somewhere
  <2>3. CASE ~ Waiting(r)
    <3>1. /\ Has(queueReceived, r) /\ Head(queueReceived) = r
          /\ Accepts \/ (Keeps /\ UNCHANGED pending /\ job'[Main].req = r)
      BY <1>5, <2>3, WaitingMoved
    <3>2. CASE Accepts
      BY <1>5, <2>1, <3>1, <3>2
         DEF Accepts, ProcessRequestDeleteFile, ProcessRequestFinishWriteFile, Receives,
             Somewhere
    <3>3. CASE Keeps
      <4>1. ProcessRequestWriteFile
        BY <1>5, <3>1, <3>3 DEF Keeps, ProcessRequestFileBlockHashes, Receives
      <4>2. \/ UNCHANGED threads
            \/ writeTasks' = With(writeTasks, r.path, r.at)
        BY <3>1, <4>1, Zenon DEF ProcessRequestWriteFile
      <4>3. job[Main].req # r
        BY <2>3 DEF Waiting, Held, Threads
      <4>4. writeTasks' = With(writeTasks, r.path, r.at)
        <5>1. ~ Accepts
          BY <1>5, <3>1, <4>1
             DEF Accepts, ProcessRequestWriteFile, ProcessRequestDeleteFile,
                 ProcessSendFileData, ProcessRequestFinishWriteFile, Receives
        <5> QED
          BY <3>1, <4>2, <4>3, <5>1 DEF threads
      <4> QED
        BY <4>4 DEF With
    <3> QED
      BY <3>1, <3>2, <3>3
  <2> QED
    BY <2>2, <2>3
<1>6. ASSUME NEW r, FileRequest(r), r.kind = "finish", Waiting(r)'
      PROVE  StatusOf(r.path)' # "none"
  <2>0. r.path \in Paths
    BY <1>6, RequestFields DEF FileRequest
  <2>1. CASE Waiting(r)
    BY <1>6, <2>0, <2>1, StatusMoves DEF StatusInv
  <2>2. CASE ~ Waiting(r)
    <3>1. Head(queueReceived) = r /\ (Accepts \/ Keeps)
      BY <1>6, <2>2, WaitingMoved
    <3>2. r.path \in DOMAIN writeTasks
      BY <1>6, <3>1
         DEF Accepts, Keeps, ProcessRequestDeleteFile, ProcessRequestFileBlockHashes,
             ProcessRequestWriteFile, ProcessSendFileData, Receives
    <3> QED
      BY <2>0, <3>2, StatusMoves DEF StatusInv
  <2> QED
    BY <2>1, <2>2
<1>7. ASSUME NEW p \in DOMAIN writeTasks'
      PROVE  StatusOf(p)' # "none"
  <2>1. p \in Paths
    BY <1>7, NextTyped DEF Typed, WritesTyped
  <2>2. p \in DOMAIN writeTasks \/ \E x : Begins(x) /\ x.path = p
    BY <1>7, <2>1, StatusMoves
  <2>3. \A x : Begins(x) => StatusOf(x.path)' # "none"
    BY DEF Begins, StatusOf
  <2>4. StatusOf(p) # "none" => StatusOf(p)' # "none"
    BY <2>1, StatusMoves
  <2> QED
    BY <2>2, <2>3, <2>4 DEF StatusInv
<1> QED
  BY <1>2, <1>3, <1>4, <1>5, <1>6, <1>7 DEF StatusInv, FileRequest

-------------------------------------------------------------------------------
(* The disk changes at one path, in the hands of the processor the request about it
   is with *)

Touches(t) ==
    LET r == job[t].req IN
    /\ ProcStep(t) /\ Busy(t) /\ pc[t] \in Ahead
    /\ FileRequest(r) /\ Held(r) /\ r.kind \in {"delete", "write", "data"}
    /\ r.path \in Paths
    /\ job'[t].req = r
    /\ \A q \in Paths \ {r.path} : SameAt(disk', disk, q)
    /\ r.kind = "delete" => DeleteFile(t) /\ pc'[t] = "forget"
    /\ r.kind = "write" =>
          /\ WriteFile(t) /\ pc'[t] = "answer"
          /\ r.path \in DOMAIN disk' /\ disk'[r.path] = <<>>
    /\ r.kind = "data" =>
          /\ r.path \in DOMAIN disk'
          /\ \/ disk'[r.path] = <<>>
             \/ /\ Past(t)'
                /\ job'[t].ok => (Fitting(r.path) => Fitting(r.path)')

LEMMA WithSame ==
    ASSUME NEW d, NEW p, NEW f
    PROVE  /\ p \in DOMAIN With(d, p, f) /\ With(d, p, f)[p] = f
           /\ \A q \in Paths \ {p} : SameAt(With(d, p, f), d, q)
           /\ p \notin DOMAIN Without(d, p)
           /\ \A q \in Paths \ {p} : SameAt(Without(d, p), d, q)
BY DEF With, Without, Restrict, SameAt

LEMMA PutLength ==
    ASSUME NEW f \in Seq(Blocks), NEW i \in Nat, NEW b \in Blocks
    PROVE  Len(Put(f, i, b)) = IF i > Len(f) THEN i ELSE Len(f)
<1> DEFINE length == IF i > Len(f) THEN i ELSE Len(f)
<1>1. Len(f) \in Nat /\ length \in Nat
  BY LenProperties
<1>2. DOMAIN Put(f, i, b) = 1 .. length
  BY DEF Put
<1>3. Put(f, i, b) \in Seq(Blocks)
  BY PutTyped
<1> HIDE DEF length
<1>4. Len(Put(f, i, b)) = length
  BY <1>1, <1>2, <1>3, LenProperties
<1> QED
  BY <1>4 DEF length

LEMMA WrittenFits ==
    ASSUME MaxAttempts = 1, Typed, NEW r, FileRequest(r), r.kind = "data",
           r.path \in DOMAIN disk, Fitting(r.path),
           r.path \in DOMAIN disk', disk'[r.path] = Written(r, disk[r.path])
    PROVE  Fitting(r.path)'
<1> DEFINE new == ServerDirs[1][r.path]
           old == disk[r.path]
<1>1. r.at = 1 /\ r.path \in DOMAIN ServerDirs[1] /\ r.index \in Nat
  BY OneAttempt, RequestFields, IndicesAreNatural
     DEF FileRequest, ServerRequests, HasFile, Kinds
<1>2. new \in Seq(Blocks) /\ old \in Seq(Blocks)
  BY <1>1, ServerFiles, DirsKept DEF Attempts, Typed, LayoutsTyped
<1>3. Len(old) <= Len(new)
  BY DEF Fitting
<1> HIDE DEF new, old
<1>4. Len(Written(r, old)) <= Len(new)
  <2>1. CASE r.index \in DOMAIN new
    <3>1. Written(r, old) = Put(old, r.index, new[r.index])
      BY <1>1, <2>1 DEF Written, new
    <3>2. r.index \in 1 .. Len(new) /\ new[r.index] \in Blocks /\ Len(new) \in Nat
      BY <1>2, <2>1, ElementOfSeq, LenProperties
    <3>3. Len(Put(old, r.index, new[r.index])) =
            IF r.index > Len(old) THEN r.index ELSE Len(old)
      BY <1>1, <1>2, <3>2, PutLength
    <3> QED
      BY <1>3, <3>1, <3>2, <3>3
  <2>2. CASE r.index \notin DOMAIN new
    BY <1>1, <1>3, <2>2 DEF Written, new
  <2> QED
    BY <2>1, <2>2
<1> QED
  BY <1>4 DEF Fitting, new, old

LEMMA DiskMoves ==
    ASSUME MaxAttempts = 1, Typed, HandsEmpty, [Next]_vars
    PROVE  UNCHANGED disk \/ \E t \in Procs : Touches(t)
<1> SUFFICES ASSUME disk' # disk
             PROVE  \E t \in Procs : Touches(t)
  OBVIOUS
<1>1. PICK t \in Procs : ProcStep(t)
  BY MainFrames DEF Next
<1> DEFINE r == job[t].req
           d == disk'
<1>2. DeleteFile(t) \/ WriteFile(t) \/ OpenFile(t) \/ WriteBlock(t)
  BY <1>1, ProcFrames
<1>3. Busy(t) /\ pc[t] \in Ahead
  BY <1>2 DEF DeleteFile, WriteFile, OpenFile, WriteBlock, Busy, Ahead
<1>4. r \in ServerRequests /\ Held(r) /\ Fits(r.kind, pc[t])
  BY <1>3, BusyAbout
<1>5. FileRequest(r) /\ r.kind \in {"delete", "write", "data"}
      /\ (DeleteFile(t) => r.kind = "delete") /\ (WriteFile(t) => r.kind = "write")
      /\ (OpenFile(t) \/ WriteBlock(t) => r.kind = "data")
  BY <1>2, <1>4 DEF DeleteFile, WriteFile, OpenFile, WriteBlock, Fits, FileRequest, Kinds
<1>6. r.path \in Paths /\ r.index \in Nat /\ r.at = 1
  BY <1>5, RequestFields, IndicesAreNatural, OneAttempt DEF FileRequest
<1>7. job'[t].req = r
  BY <1>2, WorkGoesOn DEF AtWork, Threads
<1>8. t \in Threads /\ DOMAIN pc = Threads /\ DOMAIN job = Threads /\ IsJob(job[t])
  BY DEF Threads, Typed, ThreadsTyped
<1>9. /\ \A q \in Paths \ {r.path} : SameAt(disk', disk, q)
      /\ r.kind = "delete" => DeleteFile(t) /\ pc'[t] = "forget"
      /\ r.kind = "write" =>
            /\ WriteFile(t) /\ pc'[t] = "answer"
            /\ r.path \in DOMAIN disk' /\ disk'[r.path] = <<>>
      /\ r.kind = "data" =>
            /\ r.path \in DOMAIN disk'
            /\ \/ disk'[r.path] = <<>>
               \/ /\ Past(t)'
                  /\ job'[t].ok => (Fitting(r.path) => Fitting(r.path)')
  <2>1. CASE DeleteFile(t)
    <3>1. disk' = Without(disk, r.path) /\ pc'[t] = "forget"
      BY <1>8, <2>1 DEF DeleteFile, Goto
    <3> QED
      BY <1>5, <2>1, <3>1, WithSame
  <2>2. CASE WriteFile(t)
    <3>1. disk' = With(disk, r.path, <<>>) /\ Succeeded(t)
      BY <2>2 DEF WriteFile, TruncatedFile
    <3>2. pc'[t] = "answer"
      BY <1>8, <3>1 DEF Succeeded, Went, Goto
    <3> QED
      BY <1>5, <2>2, <3>1, <3>2, WithSame
  <2>3. CASE OpenFile(t)
    <3>1. disk' = With(disk, r.path, <<>>)
      BY <2>3 DEF OpenFile
    <3> QED
      BY <1>5, <2>3, <3>1, WithSame
  <2>4. CASE WriteBlock(t)
    <3>1. /\ r.path \in DOMAIN disk
          /\ \/ disk' = With(disk, r.path, Written(r, disk[r.path])) /\ Succeeded(t)
             \/ disk' = With(disk, r.path, Put(disk[r.path], r.index, Hole)) /\ Failed(t)
      BY <2>4 DEF WriteBlock
    <3>2. CASE disk' = With(disk, r.path, Written(r, disk[r.path])) /\ Succeeded(t)
      <4>1. Past(t)'
        BY <1>8, <3>2 DEF Succeeded, Went, Goto, Past, Busy, Ahead
      <4>2. /\ r.path \in DOMAIN disk' /\ disk'[r.path] = Written(r, disk[r.path])
            /\ \A q \in Paths \ {r.path} : SameAt(disk', disk, q)
        BY <3>2, WithSame
      <4>3. Fitting(r.path) => Fitting(r.path)'
        <5> SUFFICES ASSUME Fitting(r.path)
                     PROVE  Fitting(r.path)'
          OBVIOUS
        <5>1. PICK x : x = r
          OBVIOUS
        <5>2. Fitting(x.path)'
          BY <1>5, <2>4, <3>1, <4>2, <5>1, WrittenFits
        <5>3. r.path' = r.path
          BY <1>7
        <5> QED
          BY <5>1, <5>2, <5>3 DEF Fitting
      <4> QED
        BY <1>5, <2>4, <4>1, <4>2, <4>3
    <3>3. CASE disk' = With(disk, r.path, Put(disk[r.path], r.index, Hole)) /\ Failed(t)
      <4>1. Past(t)' /\ ~ job'[t].ok
        BY <1>8, <3>3 DEF Failed, Went, Goto, Past, Busy, Ahead, IsJob, NoJob
      <4>2. /\ r.path \in DOMAIN disk'
            /\ \A q \in Paths \ {r.path} : SameAt(disk', disk, q)
        BY <3>3, WithSame
      <4> QED
        BY <1>5, <2>4, <4>1, <4>2
    <3> QED
      BY <3>1, <3>2, <3>3
  <2> QED
    BY <1>2, <2>1, <2>2, <2>3, <2>4
<1>10. Touches(t)
  BY <1>1, <1>3, <1>4, <1>5, <1>6, <1>7, <1>9 DEF Touches
<1> QED
  BY <1>10

\* A file stays as it is while no request about it is being carried out.
LEMMA FileKept ==
    ASSUME MaxAttempts = 1, InOrder, NEW r, FileRequest(r), Somewhere(r),
           UNCHANGED disk \/ \E t \in Procs : Touches(t) /\ job[t].req # r
    PROVE  /\ r.kind # "data" => SameAt(disk', disk, r.path)
           /\ r.path \in DOMAIN disk /\ r.kind = "data" => r.path \in DOMAIN disk'
<1>1. CASE UNCHANGED disk
  BY <1>1 DEF SameAt
<1>2. ASSUME NEW t \in Procs, Touches(t), job[t].req # r
      PROVE  /\ r.kind # "data" => SameAt(disk', disk, r.path)
             /\ r.path \in DOMAIN disk /\ r.kind = "data" => r.path \in DOMAIN disk'
  <2>1. PICK s : s = job[t].req
    OBVIOUS
  <2>2. /\ FileRequest(s) /\ Somewhere(s) /\ s.kind \in {"delete", "write", "data"}
        /\ \A q \in Paths \ {s.path} : SameAt(disk', disk, q)
        /\ s.kind = "data" => s.path \in DOMAIN disk'
    BY <1>2, <2>1 DEF Touches, Somewhere
  <2>3. r.path \in Paths /\ r.kind \in Kinds
    BY RequestFields DEF FileRequest
  <2>4. CASE r.path # s.path
    BY <2>2, <2>3, <2>4 DEF SameAt
  <2>5. CASE r.path = s.path
    <3>1. /\ s.kind \in {"write", "data"} => s.path \in DOMAIN ServerDirs[1]
          /\ r.kind \in {"write", "data", "finish"} => r.path \in DOMAIN ServerDirs[1]
      BY <2>2, OneAttempt DEF FileRequest, ServerRequests, HasFile
    <3>2. Sensible(r) /\ Sensible(s) /\ Together(r, s) /\ Together(s, r)
      BY <2>2 DEF InOrder
    <3>3. r.kind = s.kind => r.kind = "data"
      <4>1. r = Request(r.kind, 1, r.path, r.index) /\ s = Request(s.kind, 1, s.path, s.index)
        BY <2>2, OneAttempt DEF FileRequest
      <4> QED
        BY <1>2, <2>1, <2>5, <3>2, <4>1 DEF Sensible
    <3>4. r.kind = "data" /\ s.kind = "data"
      BY <2>2, <2>3, <2>5, <3>1, <3>2, <3>3 DEF Sensible, Together, Kinds, Changes
    <3> QED
      BY <2>2, <2>5, <3>4
  <2> QED
    BY <2>4, <2>5
<1> QED
  BY <1>1, <1>2

\* What is claimed of a request stays true.
LEMMA TrulyKept ==
    ASSUME MaxAttempts = 1, InOrder, NEW r, FileRequest(r), Somewhere(r),
           UNCHANGED disk \/ \E t \in Procs : Touches(t) /\ job[t].req # r,
           NEW body, Truly(r, body)
    PROVE  Truly(r, body)'
<1>1. /\ r.kind # "data" => SameAt(disk', disk, r.path)
      /\ r.path \in DOMAIN disk /\ r.kind = "data" => r.path \in DOMAIN disk'
  BY FileKept
<1> QED
  BY <1>1 DEF Truly, SameAt, Fitting

-------------------------------------------------------------------------------
(* What the layout says is kept true *)

\* A processor stays, starts or stops, or takes a step.
LEMMA ProcGoes ==
    ASSUME Typed, [Next]_vars, NEW t \in Procs
    PROVE  \/ pc'[t] = pc[t] /\ job'[t] = job[t]
           \/ ~ Busy(t) /\ ~ Busy(t)' /\ job'[t] = job[t]
           \/ ProcStep(t)
<1>0. t \in Threads /\ t # Main
  BY ThreadsAssumption DEF Threads
<1>1. CASE UNCHANGED vars
  BY <1>1 DEF vars, threads
<1>2. CASE ConnectTo
  <2>1. /\ job' = job
        /\ pc[t] # "off" => pc'[t] = pc[t]
        /\ pc[t] = "off" => pc'[t] = "idle"
    BY <1>0, <1>2 DEF ConnectTo
  <2> QED
    BY <2>1 DEF Busy
<1>3. CASE UpdateStep \/ NetworkStep \/ Disconnect \/ ConnectionClosed
  BY <1>3, OthersMoveMain DEF Typed
<1>4. ASSUME NEW u \in Procs, ProcStep(u), u # t
      PROVE  pc'[t] = pc[t] /\ job'[t] = job[t]
  <2>1. CASE AtWork(u)
    BY <1>0, <1>4, <2>1, WorkGoesOn
  <2>2. CASE TakeTask(u)
    <3>1. PICK k, j : pc' = [pc EXCEPT ![u] = k] /\ job' = [job EXCEPT ![u] = j]
      BY <2>2, Zenon DEF TakeTask, Goto
    <3> QED
      BY <1>0, <1>4, <3>1 DEF Typed, ThreadsTyped
  <2>3. CASE ExitRun(u) \/ SetFileLayout(u) \/ SendResponse(u)
    BY <1>0, <1>4, <2>3
       DEF ExitRun, SetFileLayout, SendResponse, Return, Continue, Goto, Typed, ThreadsTyped
  <2> QED
    BY <1>4, <2>1, <2>2, <2>3, ProcSteps
<1> QED
  BY <1>1, <1>2, <1>3, <1>4 DEF Next

\* While the layout is due only the one who builds it writes into it.
LEMMA DueQuiet ==
    ASSUME MaxAttempts = 1, Typed, HandsEmpty, LayoutFirst, LayoutDue, [Next]_vars
    PROVE  /\ UNCHANGED disk
           /\ \/ UNCHANGED content
              \/ \E u \in Procs : ListFiles(u) \/ AddFileToLayout(u)
<1>1. \A r : FileRequest(r) => ~ Somewhere(r)
  BY DEF LayoutFirst
<1>2. UNCHANGED disk
  BY <1>1, DiskMoves DEF Touches, Somewhere
<1>3. ~ PutFileWithoutBlocks
  <2> SUFFICES ASSUME PutFileWithoutBlocks
               PROVE  FALSE
    OBVIOUS
  <2>1. job[Main].req \in ServerRequests /\ job[Main].req.kind = "hashes"
    BY DEF PutFileWithoutBlocks, Typed, ThreadsTyped
  <2> QED
    BY <1>1, <2>1 DEF FileRequest, Kinds, Somewhere, Held, Threads
<1>4. ASSUME NEW u \in Procs, RemoveFileIfPresent(u) \/ AddFile(u)
      PROVE  FALSE
  <2>1. Busy(u) /\ pc[u] \in {"forget", "add"}
    BY <1>4 DEF RemoveFileIfPresent, AddFile, Busy
  <2>2. FileRequest(job[u].req) /\ Held(job[u].req)
    BY <2>1, BusyAbout DEF Fits, FileRequest, Kinds
  <2> QED
    BY <1>1, <2>2 DEF Somewhere
<1>5. UNCHANGED content \/ \E u \in Procs : ListFiles(u) \/ AddFileToLayout(u)
  BY <1>3, <1>4, MainFrames, ProcFrames DEF Next
<1> QED
  BY <1>2, <1>5

LEMMA BuilderIs ==
    ASSUME MaxAttempts = 1, Typed, LayoutOnce,
           NEW t \in Procs, pc[t] \in {"layout", "hashing", "publish"}
    PROVE  /\ job[t].req = TheLayout /\ job[t].req.at = 1
           /\ Building /\ LayoutDue
           /\ \A u \in Procs : pc[u] \in {"layout", "hashing", "publish"} => u = t
<1>1. ASSUME NEW u \in Procs, pc[u] \in {"layout", "hashing", "publish"}
      PROVE  job[u].req = TheLayout /\ u \in Threads
  <2>1. Busy(u)
    BY <1>1 DEF Busy
  <2> QED
    BY <1>1, <2>1, BusyAbout, TheLayoutIs DEF Fits, Threads
<1>2. job[t].req = TheLayout /\ t \in Threads /\ TheLayout.at = 1
  BY <1>1 DEF TheLayout, LayoutRequest, Request
<1>3. Building /\ LayoutDue
  BY <1>2 DEF Building, Held, LayoutDue, LayoutOnce
<1>4. \A u \in Procs : pc[u] \in {"layout", "hashing", "publish"} => u = t
  BY <1>1, <1>2 DEF LayoutOnce, NotTwice, HeldOnce
<1> QED
  BY <1>2, <1>3, <1>4

LEMMA BuiltTrulyKept ==
    ASSUME MaxAttempts = 1, "cut" \notin Faults, Typed, HandsEmpty, LayoutInv, BuiltTruly,
           [Next]_vars
    PROVE  BuiltTruly'
<1> SUFFICES ASSUME NEW t \in Procs, pc'[t] \in {"hashing", "publish"}
             PROVE  /\ pc'[t] = "hashing" =>
                          /\ job'[t].todo \subseteq DOMAIN disk'
                          /\ \A q \in Paths :
                                q \notin job'[t].todo => SameAt(content'[1], disk', q)
                    /\ pc'[t] = "publish" /\ job'[t].ok => SameDir(content'[1], disk')
  BY DEF BuiltTruly
<1>0. /\ t \in Threads /\ DOMAIN pc = Threads /\ DOMAIN job = Threads /\ IsJob(job[t])
      /\ DOMAIN content = Attempts /\ 1 \in Attempts
      /\ LayoutOnce /\ LayoutFirst
  BY DEF Threads, Typed, ThreadsTyped, LayoutsTyped, Attempts, LayoutInv
<1>1. ASSUME pc[t] \in {"layout", "hashing", "publish"}
      PROVE  /\ UNCHANGED disk /\ job[t].req.at = 1
             /\ UNCHANGED content \/ ListFiles(t) \/ AddFileToLayout(t)
  <2>1. LayoutDue /\ job[t].req.at = 1
    BY <1>0, <1>1, BuilderIs
  <2>2. \A u \in Procs : ListFiles(u) \/ AddFileToLayout(u) => u = t
    BY <1>0, <1>1, BuilderIs DEF ListFiles, AddFileToLayout
  <2> QED
    BY <1>0, <2>1, <2>2, DueQuiet
<1>2. CASE ListFiles(t)
  <2>1. /\ pc[t] = "layout" /\ pc'[t] = "hashing"
        /\ content' = [content EXCEPT ![job[t].req.at] = <<>>]
        /\ job'[t].todo = DOMAIN disk
    BY <1>0, <1>2 DEF ListFiles, Goto, IsJob, NoJob
  <2>2. UNCHANGED disk /\ content'[1] = <<>>
    BY <1>0, <1>1, <2>1
  <2>3. DOMAIN content'[1] = {}
    BY <2>2
  <2> QED
    BY <2>1, <2>2, <2>3 DEF SameAt
<1>3. CASE AddFileToLayout(t)
  <2>1. pc[t] = "hashing" /\ UNCHANGED disk /\ job[t].req.at = 1
    BY <1>1, <1>3 DEF AddFileToLayout
  <2>2. /\ job[t].todo \subseteq DOMAIN disk
        /\ \A q \in Paths : q \notin job[t].todo => SameAt(content[1], disk, q)
    BY <2>1 DEF BuiltTruly
  <2>3. \/ \E path \in job[t].todo :
              /\ content' = [content EXCEPT ![job[t].req.at] = With(@, path, disk[path])]
              /\ job' = [job EXCEPT ![t].todo = @ \ {path}]
              /\ UNCHANGED pc
        \/ Went(t, FALSE, "publish")
    BY <1>3, Zenon DEF AddFileToLayout
  <2>4. ASSUME NEW path \in job[t].todo,
               content' = [content EXCEPT ![job[t].req.at] = With(@, path, disk[path])],
               job' = [job EXCEPT ![t].todo = @ \ {path}], UNCHANGED pc
        PROVE  /\ job'[t].todo \subseteq DOMAIN disk'
               /\ \A q \in Paths : q \notin job'[t].todo => SameAt(content'[1], disk', q)
    <3>1. content'[1] = With(content[1], path, disk[path])
      BY <1>0, <2>1, <2>4
    <3>2. job'[t].todo = job[t].todo \ {path}
      BY <1>0, <2>4 DEF IsJob, NoJob
    <3>3. SameAt(content'[1], disk, path)
      BY <2>2, <3>1, WithSame DEF SameAt
    <3>4. \A q \in Paths \ {path} : SameAt(content'[1], content[1], q)
      BY <3>1, WithSame
    <3> QED
      BY <2>1, <2>2, <3>2, <3>3, <3>4 DEF SameAt
  <2>5. CASE Went(t, FALSE, "publish")
    BY <1>0, <2>5 DEF Went, Goto, IsJob, NoJob
  <2> QED
    BY <2>1, <2>3, <2>4, <2>5
<1>4. CASE LayoutBuilt(t)
  <2>1. pc[t] = "hashing" /\ pc'[t] = "publish" /\ job[t].todo = {} /\ UNCHANGED content
    BY <1>0, <1>4 DEF LayoutBuilt, Went, Goto, CutShort, layouts
  <2>2. UNCHANGED disk
    BY <1>1, <2>1
  <2> QED
    BY <2>1, <2>2 DEF BuiltTruly, SameDir
<1>5. CASE pc'[t] = pc[t] /\ job'[t] = job[t] /\ ~ ListFiles(t) /\ ~ AddFileToLayout(t)
  <2>1. UNCHANGED disk /\ UNCHANGED content
    BY <1>1, <1>5
  <2> QED
    BY <1>5, <2>1 DEF BuiltTruly
<1>6. ~ Busy(t)' => pc'[t] \notin {"hashing", "publish"}
  BY DEF Busy
<1>7. CASE ProcStep(t)
  <2>1. CASE TakeTask(t)
    <3>1. PICK i \in DOMAIN pending : Goto(t, pending[i].kind)
      BY <2>1, Zenon DEF TakeTask
    <3>2. pending[i].kind \in Kinds \cup {"layout"}
      BY RequestFields DEF Typed, QueuesTyped
    <3> QED
      BY <1>0, <3>1, <3>2 DEF Goto, Kinds
  <2>2. CASE ExitRun(t) \/ SetFileLayout(t) \/ SendResponse(t)
    BY <1>0, <2>2 DEF ExitRun, SetFileLayout, SendResponse, Return, Continue, Goto
  <2>3. CASE CalcFileBlockHashes(t) \/ StoreFileBlockHashes(t)
             \/ DeleteFile(t) \/ RemoveFileIfPresent(t)
    BY <1>0, <2>3
       DEF CalcFileBlockHashes, StoreFileBlockHashes, DeleteFile, RemoveFileIfPresent,
           Went, Failed, Succeeded, Continue, Goto
  <2>4. CASE WriteFile(t) \/ LookForFile(t) \/ OpenFile(t) \/ WriteBlock(t)
    BY <1>0, <2>4
       DEF WriteFile, LookForFile, OpenFile, WriteBlock, Went, Failed, Succeeded, Continue, Goto
  <2>5. CASE FinishWriteFile(t) \/ AddFile(t) \/ SetDirtyFileLayout(t)
    BY <1>0, <2>5
       DEF FinishWriteFile, AddFile, SetDirtyFileLayout, Went, Failed, Succeeded, Continue, Goto
  <2> QED
    BY <1>2, <1>3, <1>4, <1>7, <2>1, <2>2, <2>3, <2>4, <2>5, ProcSteps DEF AtWork
<1> QED
  BY <1>2, <1>3, <1>5, <1>6, <1>7, ProcGoes

LEMMA PutBackTrulyKept ==
    ASSUME MaxAttempts = 1, Typed, HandsEmpty, InOrder, LayoutInv, PutBackTruly, [Next]_vars
    PROVE  PutBackTruly'
<1> SUFFICES ASSUME pc'[Main] = "recut"
             PROVE  /\ job'[Main].layout = 1
                    /\ job'[Main].req.path \in DOMAIN content'[1]
                    /\ content'[1][job'[Main].req.path] = job'[Main].body
  BY DEF PutBackTruly
<1>0. Main \in Threads /\ DOMAIN pc = Threads /\ DOMAIN job = Threads
  BY DEF Threads, Typed, ThreadsTyped
<1>1. CASE pc[Main] = "recut" /\ job'[Main] = job[Main]
  <2>1. /\ FileRequest(job[Main].req) /\ job[Main].req.kind = "hashes"
        /\ Somewhere(job[Main].req)
    BY <1>0, <1>1 DEF Typed, ThreadsTyped, FileRequest, Kinds, Somewhere, Held
  <2>2. ~ LayoutDue
    BY <2>1 DEF LayoutInv, LayoutFirst
  <2>3. \A u \in Procs : ~ ListFiles(u) /\ ~ AddFileToLayout(u)
    BY <2>2, BuilderIs DEF ListFiles, AddFileToLayout, LayoutInv
  <2>4. ASSUME NEW u \in Procs, RemoveFileIfPresent(u) \/ AddFile(u)
        PROVE  FALSE
    <3>1. Busy(u) /\ pc[u] \in {"forget", "add"}
      BY <2>4 DEF RemoveFileIfPresent, AddFile, Busy
    <3>2. FileRequest(job[u].req) /\ Held(job[u].req) /\ job[u].req.kind \in Changes
      BY <3>1, BusyAbout DEF Fits, FileRequest, Kinds, Changes
    <3> QED
      BY <2>1, <3>2 DEF InOrder, Together, Somewhere
  <2>5. ~ PutFileWithoutBlocks
    BY <1>0 DEF PutFileWithoutBlocks, MainGoto, Goto
  <2>6. UNCHANGED content
    BY <2>3, <2>4, <2>5, MainFrames, ProcFrames DEF Next
  <2> QED
    BY <1>1, <2>6 DEF PutBackTruly
<1>2. CASE ProcessRequestFileBlockHashes
  <2> DEFINE x == Head(queueReceived)
             j == [JobOf(x) EXCEPT !.layout = layout, !.body = content[layout][x.path]]
  <2>1. pc[Main] = "receive"
    BY <1>2 DEF ProcessRequestFileBlockHashes, Receives
  <2>2. \/ /\ layout # None /\ x.path \in DOMAIN content[layout]
           /\ job' = [job EXCEPT ![Main] = j]
        \/ UNCHANGED threads
    BY <1>2, Zenon DEF ProcessRequestFileBlockHashes
  <2>3. /\ layout # None /\ x.path \in DOMAIN content[layout]
        /\ job' = [job EXCEPT ![Main] = j]
    BY <2>1, <2>2 DEF threads
  <2>4. layout = 1 /\ UNCHANGED content
    BY <1>2, <2>3 DEF Typed, LayoutsTyped, None, ProcessRequestFileBlockHashes, layouts
  <2>5. j.layout = layout /\ j.req = x /\ j.body = content[layout][x.path]
    BY DEF JobOf, NoJob
  <2>6. job'[Main] = j
    BY <1>0, <2>3
  <2> HIDE DEF j, x
  <2> QED
    BY <2>3, <2>4, <2>5, <2>6
<1> QED
  BY <1>1, <1>2, MainGoes

LEMMA ForgottenKept ==
    ASSUME MaxAttempts = 1, Typed, ForgottenInTheLayout, [Next]_vars
    PROVE  ForgottenInTheLayout'
<1> SUFFICES ASSUME NEW t \in Procs, pc'[t] = "forget"
             PROVE  job'[t].layout = 1
  BY DEF ForgottenInTheLayout
<1>0. t \in Threads /\ DOMAIN pc = Threads /\ DOMAIN job = Threads /\ IsJob(job[t])
  BY DEF Threads, Typed, ThreadsTyped
<1>1. CASE pc'[t] = pc[t] /\ job'[t] = job[t]
  BY <1>1 DEF ForgottenInTheLayout
<1>2. CASE ProcStep(t)
  <2>1. CASE TakeTask(t)
    <3>1. PICK i \in DOMAIN pending : Goto(t, pending[i].kind)
      BY <2>1, Zenon DEF TakeTask
    <3>2. pending[i].kind \in Kinds \cup {"layout"}
      BY RequestFields DEF Typed, QueuesTyped
    <3> QED
      BY <1>0, <3>1, <3>2 DEF Goto, Kinds
  <2>2. CASE ExitRun(t) \/ SetFileLayout(t) \/ SendResponse(t)
    BY <1>0, <2>2 DEF ExitRun, SetFileLayout, SendResponse, Return, Continue, Goto
  <2>3. CASE CalcFileBlockHashes(t) \/ StoreFileBlockHashes(t)
             \/ RemoveFileIfPresent(t) \/ ListFiles(t) \/ LayoutBuilt(t)
    BY <1>0, <2>3
       DEF CalcFileBlockHashes, StoreFileBlockHashes, RemoveFileIfPresent, ListFiles,
           LayoutBuilt, Went, Failed, Succeeded, Continue, Goto
  <2>4. CASE AddFileToLayout(t)
    <3>1. pc[t] = "hashing" /\ (UNCHANGED pc \/ Went(t, FALSE, "publish"))
      BY <2>4 DEF AddFileToLayout
    <3> QED
      BY <1>0, <3>1 DEF Went, Goto
  <2>5. CASE WriteFile(t) \/ LookForFile(t) \/ OpenFile(t) \/ WriteBlock(t)
    BY <1>0, <2>5
       DEF WriteFile, LookForFile, OpenFile, WriteBlock, Went, Failed, Succeeded, Continue, Goto
  <2>6. CASE FinishWriteFile(t) \/ AddFile(t) \/ SetDirtyFileLayout(t)
    BY <1>0, <2>6
       DEF FinishWriteFile, AddFile, SetDirtyFileLayout, Went, Failed, Succeeded, Continue, Goto
  <2>7. CASE DeleteFile(t)
    <3>1. CASE layout = None
      BY <1>0, <2>7, <3>1 DEF DeleteFile, Failed, Went, Goto
    <3>2. CASE layout # None
      <4>1. job'[t].layout = layout
        BY <1>0, <2>7, <3>2 DEF DeleteFile, IsJob, NoJob
      <4> QED
        BY <3>2, <4>1 DEF Typed, LayoutsTyped, None
    <3> QED
      BY <3>1, <3>2
  <2> QED
    BY <1>2, <2>1, <2>2, <2>3, <2>4, <2>5, <2>6, <2>7, ProcSteps DEF AtWork
<1> QED
  BY <1>1, <1>2, ProcGoes DEF Busy

\* A task stays queued until a processor takes it.
LEMMA PendingKept ==
    ASSUME Typed, [Next]_vars, NEW r, Has(pending, r)
    PROVE  \/ Has(pending', r)
           \/ \E t \in Procs : TakeTask(t) /\ pc'[t] = r.kind /\ job'[t].req = r
<1>1. ASSUME NEW e \in ServerRequests, pending' = Append(pending, e)
      PROVE  Has(pending', r)
  BY <1>1, HasAppended DEF Typed, QueuesTyped
<1>2. CASE UNCHANGED pending
  BY <1>2
<1>3. CASE UNCHANGED vars \/ ConnectTo \/ Disconnect \/ ConnectionClosed \/ NetworkStep
  BY <1>2, <1>3
     DEF vars, ConnectTo, Disconnect, ConnectionClosed, Close, NetworkStep,
         ConnectionEstablished, MessageReceivedConnect, MessageReceived
<1>4. CASE UpdateStep
  <2>1. pending' = pending \/ \E e : pending' = Append(pending, e)
    <3>1. CASE UpdateLayoutChanged \/ SendQueuedMessages \/ PutFileWithoutBlocks
               \/ ProcessRequestFileBlockHashes \/ ProcessRequestWriteFile
               \/ NothingReceived \/ StopTaskProcessors \/ JoinTaskProcessors
      BY <3>1
         DEF UpdateLayoutChanged, SendQueuedMessages, PutFileWithoutBlocks,
             ProcessRequestFileBlockHashes, ProcessRequestWriteFile,
             NothingReceived, StopTaskProcessors, JoinTaskProcessors
    <3>2. CASE OnFileLayoutChanged \/ ProcessRequestLayout \/ AddPendingTask
               \/ ProcessRequestDeleteFile
      BY <3>2
         DEF OnFileLayoutChanged, ProcessRequestLayout, AddPendingTask,
             ProcessRequestDeleteFile
    <3>3. CASE ProcessSendFileData
      BY <3>3, Zenon DEF ProcessSendFileData
    <3>4. CASE ProcessRequestFinishWriteFile
      BY <3>4, Zenon DEF ProcessRequestFinishWriteFile, writing
    <3> QED
      BY <1>4, <3>1, <3>2, <3>3, <3>4 DEF UpdateStep
  <2>2. ASSUME NEW e, pending' = Append(pending, e)
        PROVE  Has(pending', r)
    <3> DEFINE S == ServerRequests \cup {e}
    <3>1. pending \in Seq(S) /\ e \in S
      BY SeqMonotonic DEF Typed, QueuesTyped
    <3> HIDE DEF S
    <3>2. Has(Append(pending, e), r)
      BY <3>1, HasAppended
    <3> QED
      BY <2>2, <3>2
  <2> QED
    BY <2>1, <2>2
<1>5. ASSUME NEW t \in Procs, ProcStep(t)
      PROVE  \/ Has(pending', r)
             \/ TakeTask(t) /\ pc'[t] = r.kind /\ job'[t].req = r
  <2>1. CASE AtWork(t) \/ ExitRun(t) \/ SetFileLayout(t) \/ SendResponse(t)
    BY <1>2, <2>1, WorkGoesOn DEF ExitRun, SetFileLayout, SendResponse
  <2>2. CASE TakeTask(t)
    <3>1. PICK i \in DOMAIN pending :
             /\ pending' = RemoveAt(pending, i)
             /\ Goto(t, pending[i].kind)
             /\ job' = [job EXCEPT ![t] = JobOf(pending[i])]
      BY <2>2, Zenon DEF TakeTask, Erased
    <3>2. pc'[t] = pending[i].kind /\ job'[t].req = pending[i]
      BY <3>1 DEF Goto, JobOf, NoJob, Typed, ThreadsTyped, Threads
    <3>3. CASE pending[i] = r
      BY <2>2, <3>2, <3>3
    <3>4. CASE pending[i] # r
      <4> DEFINE q == pending
                 rest == SubSeq(q, 1, i - 1) \o SubSeq(q, i + 1, Len(q))
      <4>1. PICK k \in DOMAIN q : q[k] = r
        BY DEF Has
      <4>2. q \in Seq(ServerRequests)
        BY DEF Typed, QueuesTyped
      <4>3. r \in Range(rest)
        BY <3>4, <4>1, <4>2, EraseKeepsOthers
      <4>4. pending' = rest
        BY <3>1 DEF RemoveAt
      <4> HIDE DEF rest
      <4> QED
        BY <4>3, <4>4 DEF Range, Has
    <3> QED
      BY <3>3, <3>4
  <2> QED
    BY <1>5, <2>1, <2>2, ProcSteps
<1> QED
  BY <1>3, <1>4, <1>5 DEF Next

\* The steps after which the layout says what the disk says.
Settles(t, p) == (RemoveFileIfPresent(t) \/ AddFile(t)) /\ job[t].req.path = p

LEMMA UnsettledStays ==
    ASSUME MaxAttempts = 1, Typed, HandsEmpty, InOrder, [Next]_vars,
           NEW p \in Paths, Unsettled(p), \A t \in Procs : ~ Settles(t, p)
    PROVE  Unsettled(p)' \/ dirty'
<1> DEFINE f == Request("finish", 1, p, 0)
<1>1. CASE p \in DOMAIN writeTasks
  <2>1. CASE p \in DOMAIN writeTasks'
    BY <2>1 DEF Unsettled
  <2>2. CASE p \notin DOMAIN writeTasks'
    <3>1. PICK x : Ends(x) /\ x.path = p
      <4>1. \A x : Begins(x) => DOMAIN writeTasks \subseteq DOMAIN writeTasks'
        BY DEF Begins
      <4>2. \A q : Marks(q) => writeTasks' = writeTasks
        BY DEF Marks
      <4>3. \A x : Ends(x) => DOMAIN writeTasks' = DOMAIN writeTasks \ {x.path}
        BY DEF Ends
      <4>4. \E x : Ends(x)
        BY <1>1, <2>2, <4>1, <4>2, WritesMove
      <4> QED
        BY <1>1, <2>2, <4>3, <4>4
    <3>2. x = f /\ x \in ServerRequests
      BY <3>1, OneAttempt DEF Ends, FileRequest, InOrder, Sensible, Somewhere
    <3>3. writeTasks[p] = 1
      BY <1>1 DEF Typed, WritesTyped, Attempts
    <3>4. \/ pending' = Append(pending, [x EXCEPT !.at = writeTasks[p]])
          \/ UNCHANGED writing
      <4>1. ProcessRequestFinishWriteFile /\ x = Head(queueReceived)
        BY <3>1 DEF Ends
      <4> QED
        BY <3>1, <4>1, Zenon DEF ProcessRequestFinishWriteFile
    <3>5. pending' = Append(pending, x)
      <4>1. [x EXCEPT !.at = 1] = x
        BY <3>2 DEF Request
      <4> QED
        BY <1>1, <2>2, <3>3, <3>4, <4>1 DEF writing
    <3>6. Has(Append(pending, x), x)
      BY <3>2, HasAppended DEF Typed, QueuesTyped
    <3> QED
      BY <3>2, <3>5, <3>6 DEF Unsettled
  <2> QED
    BY <2>1, <2>2
<1>2. CASE Has(pending, f)
  <2>1. CASE Has(pending', f)
    BY <2>1 DEF Unsettled
  <2>2. ASSUME NEW t \in Procs, pc'[t] = f.kind, job'[t].req = f
        PROVE  Unsettled(p)'
    BY <2>2 DEF Unsettled, Request
  <2> QED
    BY <1>2, <2>1, <2>2, PendingKept
<1>3. ASSUME NEW t \in Procs, job[t].req.path = p,
             \/ job[t].req.kind = "finish" /\ pc[t] \in {"finish", "add", "dirty"}
             \/ job[t].req.kind = "delete" /\ pc[t] \in {"forget", "dirty"}
      PROVE  Unsettled(p)' \/ dirty'
  <2>1. CASE pc'[t] = pc[t] /\ job'[t] = job[t]
    BY <1>3, <2>1 DEF Unsettled
  <2>2. CASE ProcStep(t)
    <3>1. CASE FinishWriteFile(t)
      <4>1. job'[t].req = job[t].req
        BY <3>1, WorkGoesOn DEF AtWork, Threads
      <4>2. pc[t] = "finish" /\ pc'[t] \in {"add", "dirty"}
        BY <3>1 DEF FinishWriteFile, Went, Failed, Goto, Typed, ThreadsTyped, Threads
      <4> QED
        BY <1>3, <4>1, <4>2 DEF Unsettled
    <3>2. CASE SetDirtyFileLayout(t)
      BY <3>2 DEF SetDirtyFileLayout
    <3>3. ~ RemoveFileIfPresent(t) /\ ~ AddFile(t)
      BY <1>3 DEF Settles
    <3>4. ~ TakeTask(t) /\ ~ ExitRun(t) /\ ~ SetFileLayout(t) /\ ~ SendResponse(t)
      BY <1>3 DEF TakeTask, ExitRun, SetFileLayout, SendResponse
    <3>5. ~ ListFiles(t) /\ ~ AddFileToLayout(t) /\ ~ LayoutBuilt(t)
          /\ ~ CalcFileBlockHashes(t) /\ ~ StoreFileBlockHashes(t)
      BY <1>3 DEF ListFiles, AddFileToLayout, LayoutBuilt, CalcFileBlockHashes,
                  StoreFileBlockHashes
    <3>6. ~ DeleteFile(t) /\ ~ WriteFile(t) /\ ~ LookForFile(t) /\ ~ OpenFile(t)
          /\ ~ WriteBlock(t)
      BY <1>3 DEF DeleteFile, WriteFile, LookForFile, OpenFile, WriteBlock
    <3> QED
      BY <2>2, <3>1, <3>2, <3>3, <3>4, <3>5, <3>6, ProcSteps DEF AtWork
  <2> QED
    BY <1>3, <2>1, <2>2, ProcGoes DEF Busy
<1> QED
  BY <1>1, <1>2, <1>3 DEF Unsettled

LEMMA SameJoins ==
    ASSUME NEW d, NEW e, NEW f, NEW p, SameAt(d, e, p)
    PROVE  /\ SameAt(e, d, p)
           /\ SameAt(e, f, p) => SameAt(d, f, p)
           /\ SameAt(d, f, p) => SameAt(e, f, p)
BY DEF SameAt

\* A layout published tells the truth about everything.
LEMMA LayoutPublished ==
    ASSUME MaxAttempts = 1, Typed, LayoutOnce, BuiltTruly, [Next]_vars,
           nextLayout # 1, nextLayout' = 1
    PROVE  SameDir(content'[1], disk')
<1>1. PICK t \in Procs : SetFileLayout(t)
  <2>1. ~ UpdateLayoutChanged
    BY DEF UpdateLayoutChanged, None
  <2> QED
    BY <2>1, MainFrames, ProcFrames DEF Next
<1>2. pc[t] = "publish" /\ nextLayout' = Published(job[t]) /\ UNCHANGED <<content, disk>>
  BY <1>1 DEF SetFileLayout
<1>3. job[t].ok
  BY <1>2 DEF Published, None
<1> QED
  BY <1>2, <1>3 DEF BuiltTruly, SameDir

\* Once there is a layout, what it says of a file changes only when the file is deleted
\* or written.
LEMMA ContentMoves ==
    ASSUME MaxAttempts = 1, Typed, HandsEmpty, LayoutInv, PutBackTruly,
           ForgottenInTheLayout, [Next]_vars, nextLayout = 1,
           NEW p \in Paths, \A t \in Procs : ~ Settles(t, p)
    PROVE  SameAt(content'[1], content[1], p)
<1>0. /\ DOMAIN content = Attempts /\ 1 \in Attempts
      /\ layout \in {0, 1}
  BY DEF Typed, LayoutsTyped, Attempts
<1>1. CASE UNCHANGED content
  BY <1>1 DEF SameAt
<1>2. CASE PutFileWithoutBlocks
  <2> DEFINE j == job[Main]
  <2>1. /\ pc[Main] = "recut"
        /\ content' = [content EXCEPT ![j.layout] = With(@, j.req.path, j.body)]
    BY <1>2, Zenon DEF PutFileWithoutBlocks
  <2>2. /\ j.layout = 1 /\ j.req.path \in DOMAIN content[1]
        /\ content[1][j.req.path] = j.body
    BY <2>1 DEF PutBackTruly
  <2>3. content'[1] = With(content[1], j.req.path, j.body)
    BY <1>0, <2>1, <2>2
  <2> HIDE DEF j
  <2>4. SameAt(content'[1], content[1], j.req.path)
    BY <2>2, <2>3, WithSame DEF SameAt
  <2>5. \A q \in Paths \ {j.req.path} : SameAt(content'[1], content[1], q)
    BY <2>3, WithSame
  <2> QED
    BY <2>4, <2>5
<1>3. ASSUME NEW t \in Procs, ListFiles(t) \/ AddFileToLayout(t)
      PROVE  FALSE
  <2>1. pc[t] \in {"layout", "hashing"}
    BY <1>3 DEF ListFiles, AddFileToLayout
  <2>2. Building
    BY <2>1, BuilderIs DEF LayoutInv
  <2> QED
    BY <2>2 DEF LayoutInv, LayoutSlots, None
<1>4. ASSUME NEW t \in Procs, RemoveFileIfPresent(t)
      PROVE  SameAt(content'[1], content[1], p)
  <2> DEFINE j == job[t]
  <2>1. /\ pc[t] = "forget"
        /\ content' = [content EXCEPT ![j.layout] = Without(@, j.req.path)]
    BY <1>4, Zenon DEF RemoveFileIfPresent
  <2>2. j.layout = 1 /\ j.req.path # p
    BY <1>4, <2>1 DEF ForgottenInTheLayout, Settles
  <2>3. content'[1] = Without(content[1], j.req.path)
    BY <1>0, <2>1, <2>2
  <2>4. \A q \in Paths \ {j.req.path} : SameAt(Without(content[1], j.req.path), content[1], q)
    BY WithSame
  <2> QED
    BY <2>2, <2>3, <2>4
<1>5. ASSUME NEW t \in Procs, AddFile(t)
      PROVE  SameAt(content'[1], content[1], p)
  <2> DEFINE r == job[t].req
  <2>1. \/ UNCHANGED content
        \/ layout # None /\ content' = [content EXCEPT ![layout] =
                  With(@, r.path, ServerDirs[r.at][r.path])]
    BY <1>5, Zenon DEF AddFile
  <2>2. r.path # p
    BY <1>5 DEF Settles
  <2>3. CASE layout # None /\ content' = [content EXCEPT ![layout] =
                  With(@, r.path, ServerDirs[r.at][r.path])]
    <3>1. content'[1] = With(content[1], r.path, ServerDirs[r.at][r.path])
      BY <1>0, <2>3 DEF None
    <3> QED
      BY <2>2, <3>1, WithSame
  <2> QED
    BY <1>1, <2>1, <2>3
<1> QED
  BY <1>1, <1>2, <1>3, <1>4, <1>5, MainFrames, ProcFrames DEF Next

LEMMA RemoverIs ==
    ASSUME MaxAttempts = 1, Typed, HandsInv, NEW t \in Procs,
           RemoveFileIfPresent(t) \/ AddFile(t)
    PROVE  LET r == job[t].req IN
           /\ FileRequest(r) /\ Held(r) /\ r.path \in Paths /\ r.at = 1
           /\ job'[t].req = r /\ UNCHANGED disk
           /\ RemoveFileIfPresent(t) => r.kind = "delete"
           /\ AddFile(t) => r.kind = "finish"
           /\ job[t].ok => Truly(r, job[t].body)
<1>1. Busy(t) /\ pc[t] \in {"forget", "add"} /\ AtWork(t) /\ UNCHANGED disk
  BY DEF RemoveFileIfPresent, AddFile, Busy, AtWork
<1>2. /\ FileRequest(job[t].req) /\ Held(job[t].req)
      /\ RemoveFileIfPresent(t) => job[t].req.kind = "delete"
      /\ AddFile(t) => job[t].req.kind = "finish"
  BY <1>1, BusyAbout DEF Fits, FileRequest, Kinds, RemoveFileIfPresent, AddFile
<1>3. job[t].req.path \in Paths /\ job[t].req.at = 1
  BY <1>2, RequestFields, OneAttempt DEF FileRequest
<1>4. job'[t].req = job[t].req
  BY <1>1, WorkGoesOn DEF Threads
<1>5. job[t].ok => Truly(job[t].req, job[t].body)
  BY <1>1, <1>2 DEF HandsInv, HandTrue, Past, Ahead, FileRequest
<1> QED
  BY <1>1, <1>2, <1>3, <1>4, <1>5

\* Deleting or adding a file ends with the layout right or about to be marked dirty.
LEMMA SettledKnown ==
    ASSUME MaxAttempts = 1, Typed, HandsInv, ForgottenInTheLayout,
           NEW p \in Paths, NEW t \in Procs, Settles(t, p)
    PROVE  Unsettled(p)' \/ SameAt(content'[1], disk', p)
<1> DEFINE r == job[t].req
<1>0. /\ DOMAIN content = Attempts /\ 1 \in Attempts
      /\ layout \in {0, 1} /\ t \in Threads
      /\ DOMAIN pc = Threads /\ DOMAIN job = Threads
  BY DEF Typed, LayoutsTyped, ThreadsTyped, Attempts, Threads
<1>1. /\ r.path = p /\ r.at = 1 /\ job'[t].req = r /\ UNCHANGED disk
      /\ RemoveFileIfPresent(t) => r.kind = "delete"
      /\ AddFile(t) => r.kind = "finish"
      /\ job[t].ok => Truly(r, job[t].body)
  BY RemoverIs DEF Settles
<1>2. CASE RemoveFileIfPresent(t)
  <2>1. /\ pc[t] = "forget"
        /\ content' = [content EXCEPT ![job[t].layout] = Without(@, r.path)]
        /\ pc' = [pc EXCEPT ![t] = IF job[t].ok THEN "answer" ELSE "dirty"]
    BY <1>2, Zenon DEF RemoveFileIfPresent, Continue, Goto
  <2>2. CASE ~ job[t].ok
    <3>1. pc'[t] = "dirty"
      BY <1>0, <2>1, <2>2
    <3> QED
      BY <1>1, <1>2, <3>1 DEF Unsettled
  <2>3. CASE job[t].ok
    <3>1. p \notin DOMAIN disk'
      BY <1>1, <1>2, <2>3 DEF Truly
    <3>2. content'[1] = Without(content[1], p)
      BY <1>0, <1>1, <2>1 DEF ForgottenInTheLayout
    <3>3. p \notin DOMAIN content'[1]
      BY <3>2, WithSame
    <3> QED
      BY <3>1, <3>3 DEF SameAt
  <2> QED
    BY <2>2, <2>3
<1>3. CASE AddFile(t)
  <2>1. /\ pc[t] = "add"
        /\ \/ Failed(t)
           \/ layout # None /\ content' = [content EXCEPT ![layout] =
                  With(@, r.path, ServerDirs[r.at][r.path])]
    BY <1>3, Zenon DEF AddFile
  <2>2. CASE Failed(t)
    <3>1. pc'[t] = "dirty"
      BY <1>0, <2>2 DEF Failed, Went, Goto
    <3> QED
      BY <1>1, <1>3, <3>1 DEF Unsettled
  <2>3. CASE layout # None /\ content' = [content EXCEPT ![layout] =
                  With(@, r.path, ServerDirs[r.at][r.path])]
    <3>1. job[t].ok
      BY <2>1 DEF HandsInv, HandTrue
    <3>2. p \in DOMAIN disk' /\ disk'[p] = ServerDirs[1][p]
      BY <1>1, <1>3, <3>1 DEF Truly
    <3>3. content'[1] = With(content[1], p, ServerDirs[1][p])
      BY <1>0, <1>1, <2>3 DEF None
    <3> QED
      BY <3>2, <3>3, WithSame DEF SameAt
  <2> QED
    BY <2>1, <2>2, <2>3
<1> QED
  BY <1>2, <1>3 DEF Settles

LEMMA KnownOrUnsettledKept ==
    ASSUME MaxAttempts = 1, Typed, HandsEmpty, InOrder, LayoutInv, StatusInv, KnownInv,
           HandsInv, [Next]_vars
    PROVE  KnownOrUnsettled'
<1> SUFFICES ASSUME nextLayout' = 1, ~ dirty', NEW p \in Paths
             PROVE  Unsettled(p)' \/ SameAt(content'[1], disk', p)
  BY DEF KnownOrUnsettled
<1>1. CASE nextLayout # 1
  BY <1>1, LayoutPublished DEF SameDir, LayoutInv, KnownInv
<1>2. CASE nextLayout = 1
  <2>1. ~ dirty
    <3>1. CASE UpdateLayoutChanged
      <4>1. /\ nextLayout' = (IF Dropped THEN None ELSE nextLayout)
            /\ dirty' = (dirty /\ ~ Dropped /\ nextLayout' = layout)
        BY <3>1 DEF UpdateLayoutChanged
      <4>2. ~ Dropped
        BY <4>1 DEF None
      <4>3. dirty => layout = None
        BY <4>2 DEF Dropped
      <4>4. dirty => LayoutDue
        BY <1>2, <4>3 DEF LayoutInv, LayoutSlots, LayoutDue, None
      <4> QED
        BY <4>4 DEF LayoutInv, LayoutFirst
    <3>2. CASE ProcessRequestWriteFile
      <4>1. dirty' \/ dirty' = dirty
        BY <3>2 DEF ProcessRequestWriteFile
      <4> QED
        BY <4>1
    <3>3. \A t \in Procs : SetDirtyFileLayout(t) => dirty'
      BY DEF SetDirtyFileLayout
    <3> QED
      BY <3>1, <3>2, <3>3, MainFrames, ProcFrames DEF Next
  <2>2. CASE \E t \in Procs : Settles(t, p)
    BY <2>2, SettledKnown DEF KnownInv
  <2>3. CASE (\A t \in Procs : ~ Settles(t, p)) /\ Unsettled(p)
    BY <2>3, UnsettledStays
  <2>4. CASE (\A t \in Procs : ~ Settles(t, p)) /\ SameAt(content[1], disk, p)
    <3>1. SameAt(content'[1], content[1], p)
      BY <1>2, <2>4, ContentMoves DEF KnownInv
    <3>2. CASE SameAt(disk', disk, p)
      BY <2>4, <3>1, <3>2 DEF SameAt
    <3>3. ASSUME NEW t \in Procs, Touches(t), job[t].req.path = p
          PROVE  Unsettled(p)'
      <4> DEFINE r == job[t].req
      <4>1. /\ FileRequest(r) /\ Held(r) /\ job'[t].req = r
            /\ r.kind \in {"delete", "write", "data"}
            /\ r.kind = "delete" => pc'[t] = "forget"
        BY <3>3 DEF Touches
      <4>2. CASE r.kind = "delete"
        BY <3>3, <4>1, <4>2 DEF Unsettled
      <4>3. CASE r.kind \in {"write", "data"}
        <5>1. p \in DOMAIN writeTasks
          BY <3>3, <4>1, <4>3 DEF StatusInv, Waiting
        <5>2. UNCHANGED writeTasks
          BY <3>3, ProcFrames DEF Touches
        <5> QED
          BY <5>1, <5>2 DEF Unsettled
      <4> QED
        BY <4>1, <4>2, <4>3
    <3>4. ASSUME NEW t \in Procs, Touches(t), job[t].req.path # p
          PROVE  SameAt(disk', disk, p)
      BY <3>4 DEF Touches
    <3>5. UNCHANGED disk => SameAt(disk', disk, p)
      BY DEF SameAt
    <3> QED
      BY <3>2, <3>3, <3>4, <3>5, DiskMoves
  <2> QED
    BY <1>2, <2>1, <2>2, <2>3, <2>4 DEF KnownInv, KnownOrUnsettled
<1> QED
  BY <1>1, <1>2

LEMMA KnownUntilWrittenKept ==
    ASSUME MaxAttempts = 1, Typed, HandsEmpty, InOrder, LayoutInv, StatusInv, KnownInv,
           HandsInv, [Next]_vars
    PROVE  KnownUntilWritten'
<1> SUFFICES ASSUME nextLayout' = 1, NEW p \in DOMAIN ServerDirs[1], StatusOf(p)' = "none"
             PROVE  SameAt(content'[1], disk', p)
  BY DEF KnownUntilWritten
<1>0. p \in Paths
  BY DirsAssumption DEF IsDir, Attempts
<1>1. CASE nextLayout # 1
  BY <1>0, <1>1, LayoutPublished DEF SameDir, LayoutInv, KnownInv
<1>2. CASE nextLayout = 1
  <2>1. StatusOf(p) = "none"
    BY <1>0, StatusMoves
  <2>2. SameAt(content[1], disk, p)
    BY <1>2, <2>1 DEF KnownInv, KnownUntilWritten
  <2>3. \A r : FileRequest(r) /\ Held(r) /\ r.path = p =>
           r.kind \notin {"delete", "write", "data", "finish"}
    <3>1. p \notin DOMAIN writeTasks
      BY <2>1 DEF StatusInv
    <3>2. \A r : FileRequest(r) /\ Held(r) /\ r.path = p => r.kind # "delete"
      BY DEF InOrder, Sensible, Somewhere
    <3> QED
      BY <2>1, <3>1, <3>2 DEF StatusInv, Waiting
  <2>4. ASSUME NEW t \in Procs
        PROVE  ~ Settles(t, p)
    BY <2>3, RemoverIs DEF Settles
  <2>5. SameAt(content'[1], content[1], p)
    BY <1>0, <1>2, <2>4, ContentMoves DEF KnownInv
  <2>6. ASSUME NEW t \in Procs, Touches(t)
        PROVE  SameAt(disk', disk, p)
    <3>1. job[t].req.path # p
      BY <2>3, <2>6 DEF Touches
    <3> QED
      BY <1>0, <2>6, <3>1 DEF Touches
  <2>7. SameAt(disk', disk, p)
    BY <2>6, DiskMoves DEF SameAt
  <2> QED
    BY <2>2, <2>5, <2>7 DEF SameAt
<1> QED
  BY <1>1, <1>2

LEMMA KnownInvKept ==
    ASSUME MaxAttempts = 1, "cut" \notin Faults, Typed, HandsEmpty, InOrder, LayoutInv,
           StatusInv, KnownInv, HandsInv, [Next]_vars
    PROVE  KnownInv'
<1>1. BuiltTruly'
  BY BuiltTrulyKept DEF KnownInv
<1>2. KnownOrUnsettled' /\ KnownUntilWritten'
  BY KnownOrUnsettledKept, KnownUntilWrittenKept
<1>3. PutBackTruly'
  BY PutBackTrulyKept DEF KnownInv
<1>4. ForgottenInTheLayout'
  BY ForgottenKept DEF KnownInv
<1> QED
  BY <1>1, <1>2, <1>3, <1>4 DEF KnownInv

\* Where an answer comes from.
LEMMA AnswerComes ==
    ASSUME MaxAttempts = 1, Typed, [Next]_vars, NEW i \in DOMAIN queueSend'
    PROVE  LET m == queueSend'[i]
               x == Head(queueReceived)
           IN
           \/ \E j \in DOMAIN queueSend : m = queueSend[j]
           \/ /\ OnFileLayoutChanged /\ pendingRequest /\ layout # None
              /\ m = Answer(LayoutRequest(srv.attempt), TRUE, content[layout])
           \/ /\ ProcessRequestLayout /\ layout # None
           \/ /\ queueReceived # <<>> /\ ~ m.ok /\ m.req = x /\ x.kind \in {"hashes", "write"}
           \/ \E t \in Procs :
                 SendResponse(t) /\ m = Answer(job[t].req, job[t].ok, job[t].body)
<1> DEFINE m == queueSend'[i]
           x == Head(queueReceived)
           Old == \E j \in DOMAIN queueSend : m = queueSend[j]
<1>1. ASSUME NEW n, queueSend' = Append(queueSend, n)
      PROVE  Old \/ m = n
  BY <1>1, AnswersIn DEF Typed
<1>2. ASSUME NEW n, queueSend' = Queued(n)
      PROVE  Old \/ m = n
  BY <1>1, <1>2 DEF Queued
<1>3. CASE UNCHANGED queueSend
  BY <1>3
<1>4. CASE OnFileLayoutChanged
  <2>1. \/ /\ pendingRequest /\ layout # None
           /\ queueSend' = Queued(Answer(LayoutRequest(srv.attempt), TRUE, content[layout]))
        \/ UNCHANGED queueSend
    BY <1>4 DEF OnFileLayoutChanged
  <2> HIDE DEF Old
  <2> QED
    BY <1>2, <1>3, <1>4, <2>1 DEF Old
<1>5. CASE SendQueuedMessages
  <2>1. \/ UNCHANGED queueSend
        \/ queueSend # <<>> /\ queueSend' = Tail(queueSend)
    BY <1>5 DEF SendQueuedMessages
  <2>2. queueSend # <<>> /\ queueSend' = Tail(queueSend) => Old
    BY AnswersIn DEF Typed
  <2> QED
    BY <1>3, <2>1, <2>2
<1>6. CASE ProcessRequestLayout
  BY <1>3, <1>6 DEF ProcessRequestLayout
<1>7. ASSUME queueReceived # <<>>, x.kind \in {"hashes", "write"},
             queueSend' = Queued(Answer(x, FALSE, <<>>))
      PROVE  Old \/ (~ m.ok /\ m.req = x)
  <2>1. Old \/ m = Answer(x, FALSE, <<>>)
    BY <1>2, <1>7
  <2> QED
    BY <2>1 DEF Answer
<1>8. CASE ProcessRequestFileBlockHashes
  <2>1. /\ queueReceived # <<>> /\ x.kind = "hashes"
        /\ UNCHANGED queueSend \/ queueSend' = Queued(Answer(x, FALSE, <<>>))
    BY <1>8 DEF ProcessRequestFileBlockHashes, Receives
  <2> HIDE DEF Old, m, x
  <2> QED
    BY <1>3, <1>7, <2>1 DEF m, Old, x
<1>9. CASE ProcessRequestWriteFile
  <2>1. /\ queueReceived # <<>> /\ x.kind = "write"
        /\ UNCHANGED queueSend \/ queueSend' = Queued(Answer(x, FALSE, <<>>))
    BY <1>9 DEF ProcessRequestWriteFile, Receives
  <2> HIDE DEF Old, m, x
  <2> QED
    BY <1>3, <1>7, <2>1 DEF m, Old, x
<1>10. CASE UpdateStep
  <2>1. CASE UpdateLayoutChanged \/ PutFileWithoutBlocks \/ AddPendingTask
             \/ ProcessRequestDeleteFile \/ NothingReceived
             \/ StopTaskProcessors \/ JoinTaskProcessors
    BY <1>3, <2>1
       DEF UpdateLayoutChanged, PutFileWithoutBlocks, AddPendingTask,
           ProcessRequestDeleteFile, NothingReceived,
           StopTaskProcessors, JoinTaskProcessors, queues
  <2>2. CASE ProcessSendFileData \/ ProcessRequestFinishWriteFile
    BY <1>3, <2>2 DEF ProcessSendFileData, ProcessRequestFinishWriteFile
  <2> HIDE DEF Old, m
  <2> QED
    BY <1>4, <1>5, <1>6, <1>8, <1>9, <1>10, <2>1, <2>2 DEF UpdateStep, m, Old
<1>11. CASE UNCHANGED vars \/ ConnectTo \/ Disconnect \/ ConnectionClosed \/ NetworkStep
  BY <1>3, <1>11
     DEF vars, ConnectTo, Disconnect, ConnectionClosed, Close, NetworkStep,
         ConnectionEstablished, MessageReceivedConnect, MessageReceived, queues
<1>12. ASSUME NEW t \in Procs, ProcStep(t)
       PROVE  Old \/ (SendResponse(t) /\ m = Answer(job[t].req, job[t].ok, job[t].body))
  <2>1. CASE TakeTask(t) \/ ExitRun(t) \/ SetFileLayout(t)
    BY <1>3, <2>1 DEF TakeTask, ExitRun, SetFileLayout, queues
  <2>2. CASE AtWork(t)
    BY <1>3, <2>2, WorkGoesOn
  <2>3. CASE SendResponse(t)
    <3>1. queueSend' = Queued(Answer(job[t].req, job[t].ok, job[t].body))
      BY <2>3, Zenon DEF SendResponse
    <3> HIDE DEF Old, m
    <3> QED
      BY <1>2, <2>3, <3>1
  <2> QED
    BY <1>12, <2>1, <2>2, <2>3, ProcSteps
<1> HIDE DEF Old, m
<1> QED
  BY <1>10, <1>11, <1>12 DEF Next, Old, m

LEMMA SameFiles ==
    ASSUME NEW d, NEW e, IsDir(d), IsDir(e), SameDir(d, e)
    PROVE  d = e
<1>1. DOMAIN d = DOMAIN e
  BY DEF SameDir, SameAt, IsDir
<1>2. \A p \in DOMAIN d : d[p] = e[p]
  BY DEF SameDir, SameAt, IsDir
<1>3. d = [p \in DOMAIN d |-> d[p]] /\ e = [p \in DOMAIN e |-> e[p]]
  BY DEF IsDir
<1> QED
  BY <1>1, <1>2, <1>3

\* While the server waits for the layout no task is about a file, and the layout there
\* is says what the disk says.
LEMMA DueTrue ==
    ASSUME MaxAttempts = 1, Typed, LayoutInv, KnownInv, LayoutDue, layout # None
    PROVE  content[layout] = disk
<1>1. layout = 1 /\ nextLayout = 1
  BY DEF LayoutInv, LayoutSlots, Typed, LayoutsTyped, None
<1>2. /\ ~ dirty /\ DOMAIN writeTasks = {}
      /\ \A r : FileRequest(r) => ~ Somewhere(r)
  BY DEF LayoutInv, LayoutFirst
<1>3. ASSUME NEW p \in Paths
      PROVE  ~ Unsettled(p)
  <2>1. ~ Has(pending, Request("finish", 1, p, 0))
    <3>1. ASSUME Has(pending, Request("finish", 1, p, 0))
          PROVE  FALSE
      <4>1. Request("finish", 1, p, 0) \in ServerRequests
        BY <3>1 DEF Has, Typed, QueuesTyped
      <4>2. FileRequest(Request("finish", 1, p, 0))
        BY <4>1 DEF FileRequest, Request, Kinds
      <4> QED
        BY <1>2, <3>1, <4>2 DEF Somewhere
    <3> QED
      BY <3>1
  <2>2. ASSUME NEW t \in Procs, job[t].req.kind \in {"finish", "delete"}, Busy(t)
        PROVE  FALSE
    <3>1. FileRequest(job[t].req) /\ Held(job[t].req)
      BY <2>2, BusyAbout DEF FileRequest, Kinds
    <3> QED
      BY <1>2, <3>1 DEF Somewhere
  <2> QED
    BY <1>2, <2>1, <2>2 DEF Unsettled, Busy
<1>4. SameDir(content[1], disk)
  BY <1>1, <1>2, <1>3 DEF KnownInv, KnownOrUnsettled, SameDir
<1>5. IsDir(content[1]) /\ IsDir(disk)
  BY DEF Typed, LayoutsTyped, Attempts
<1> QED
  BY <1>1, <1>4, <1>5, SameFiles

LEMMA AnswersInvKept ==
    ASSUME MaxAttempts = 1, Typed, HandsEmpty, InOrder, LayoutInv, KnownInv, ClaimsInv,
           [Next]_vars
    PROVE  AnswersInv'
<1> SUFFICES ASSUME NEW i \in DOMAIN queueSend', NEW m, m = queueSend'[i]
             PROVE  /\ m.req \in ServerRequests
                    /\ m.req = TheLayout => m.body = disk'
                    /\ m.req.kind \in Kinds /\ m.ok => Truly(m.req, m.body)'
  BY DEF AnswersInv, Truly, Fitting
<1> DEFINE x == Head(queueReceived)
<1>1. ASSUME NEW j \in DOMAIN queueSend, m = queueSend[j]
      PROVE  /\ m.req \in ServerRequests
             /\ m.req = TheLayout => m.body = disk'
             /\ m.req.kind \in Kinds /\ m.ok => Truly(m.req, m.body)'
  <2>1. /\ m.req \in ServerRequests
        /\ m.req = TheLayout => m.body = disk
        /\ m.req.kind \in Kinds /\ m.ok => Truly(m.req, m.body)
    BY <1>1 DEF ClaimsInv, AnswersInv
  <2>2. HasAnswer(queueSend, m.req)
    BY <1>1 DEF HasAnswer
  <2>3. m.req = TheLayout => UNCHANGED disk
    BY <2>2, DueQuiet DEF LayoutInv, LayoutDue, LayoutTold
  <2>4. ASSUME m.req.kind \in Kinds, m.ok
        PROVE  Truly(m.req, m.body)'
    <3>1. FileRequest(m.req) /\ Somewhere(m.req)
      BY <2>1, <2>2, <2>4 DEF FileRequest, Somewhere
    <3>2. ~ Held(m.req)
      BY <2>2, <3>1 DEF InOrder, NotTwice
    <3>3. UNCHANGED disk \/ \E t \in Procs : Touches(t) /\ job[t].req # m.req
      BY <3>2, DiskMoves DEF Touches
    <3> QED
      BY <2>1, <2>4, <3>1, <3>3, TrulyKept
  <2> QED
    BY <2>1, <2>3, <2>4
<1>2. CASE /\ OnFileLayoutChanged /\ pendingRequest /\ layout # None
           /\ m = Answer(LayoutRequest(srv.attempt), TRUE, content[layout])
  <2>1. srv.attempt = 1
    BY <1>2 DEF Typed, ServerTyped, None
  <2>2. m.req = TheLayout /\ m.body = content[layout]
    BY <1>2, <2>1 DEF Answer, TheLayout
  <2>3. content[layout] = disk
    BY <1>2, DueTrue DEF LayoutDue
  <2>4. UNCHANGED disk
    BY <1>2 DEF OnFileLayoutChanged
  <2>5. TheLayout \in ServerRequests /\ TheLayout.kind \notin Kinds
    BY TheLayoutIs DEF Kinds
  <2> QED
    BY <2>2, <2>3, <2>4, <2>5
<1>3. CASE ProcessRequestLayout /\ layout # None
  <2>1. queueReceived # <<>> /\ x.kind = "layout"
    BY <1>3 DEF ProcessRequestLayout, Receives
  <2>2. LayoutAsked
    BY <2>1, ReceivedAbout, TheLayoutIs DEF LayoutAsked
  <2> QED
    BY <1>3, <2>2 DEF LayoutInv, LayoutSlots
<1>4. CASE queueReceived # <<>> /\ ~ m.ok /\ m.req = x /\ x.kind \in {"hashes", "write"}
  <2>1. x \in ServerRequests
    BY <1>4, ReceivedAbout
  <2> QED
    BY <1>4, <2>1, TheLayoutIs
<1>5. ASSUME NEW t \in Procs, SendResponse(t), m = Answer(job[t].req, job[t].ok, job[t].body)
      PROVE  /\ m.req \in ServerRequests
             /\ m.req = TheLayout => m.body = disk'
             /\ m.req.kind \in Kinds /\ m.ok => Truly(m.req, m.body)'
  <2>1. pc[t] = "answer" /\ Busy(t) /\ UNCHANGED disk
    BY <1>5 DEF SendResponse, Busy
  <2>2. job[t].req \in ServerRequests /\ job[t].req.kind \in Kinds
    BY <2>1, BusyAbout DEF Fits
  <2>3. m.req = job[t].req /\ m.ok = job[t].ok /\ m.body = job[t].body
    BY <1>5 DEF Answer
  <2>4. m.ok => Truly(m.req, m.body)
    BY <2>1, <2>2, <2>3 DEF ClaimsInv, HandsInv, HandTrue, Past, Ahead
  <2>5. m.ok => Truly(m.req, m.body)'
    BY <2>1, <2>4 DEF Truly, Fitting
  <2>6. job[t].req # TheLayout
    BY <2>2, TheLayoutIs DEF Kinds
  <2> QED
    BY <2>2, <2>3, <2>5, <2>6
<1> QED
  BY <1>1, <1>2, <1>3, <1>4, <1>5, AnswerComes

LEMMA WentTo ==
    ASSUME ThreadsTyped, NEW t \in Procs, NEW ok, NEW to, Went(t, ok, to)
    PROVE  /\ pc'[t] = to /\ job'[t].ok = ok
           /\ job'[t].req = job[t].req /\ job'[t].body = job[t].body
BY DEF ThreadsTyped, Threads, IsJob, NoJob, Went, Goto

LEMMA TrulyStays ==
    ASSUME NEW r, NEW body, UNCHANGED disk, Truly(r, body)
    PROVE  Truly(r, body)'
BY DEF Truly, Fitting

\* A processor that does not take a step is not disturbed by the others.
LEMMA HandUntouched ==
    ASSUME MaxAttempts = 1, Typed, HandsEmpty, InOrder, HandsInv, [Next]_vars,
           NEW t \in Procs, pc'[t] = pc[t], job'[t] = job[t]
    PROVE  HandTrue(t)'
<1> PICK r, body : r = job[t].req /\ body = job[t].body
  OBVIOUS
<1>0. t \in Threads
  BY DEF Threads
<1>1. ASSUME Past(t), r.kind \in Kinds, job[t].ok
      PROVE  Truly(r, body)'
  <2>1. FileRequest(r) /\ Held(r) /\ Somewhere(r)
    BY <1>1, BusyAbout DEF Past, FileRequest, Somewhere
  <2>2. ASSUME NEW u \in Procs, Touches(u)
        PROVE  job[u].req # r
    <3>1. u # t
      BY <1>1, <2>2 DEF Touches, Past
    <3>2. HeldOnce(r) /\ u \in Threads
      BY <2>1 DEF InOrder, NotTwice, Threads
    <3> QED
      BY <1>0, <3>1, <3>2 DEF HeldOnce
  <2>3. UNCHANGED disk \/ \E u \in Procs : Touches(u) /\ job[u].req # r
    BY <2>2, DiskMoves
  <2>4. Truly(r, body)
    BY <1>1 DEF HandsInv, HandTrue
  <2> QED
    BY <2>1, <2>3, <2>4, TrulyKept
<1>2. ASSUME pc[t] = "put"
      PROVE  r.path \in DOMAIN disk'
  <2>1. FileRequest(r) /\ Held(r) /\ Somewhere(r) /\ r.kind = "data"
    BY <1>2, BusyAbout DEF Busy, Fits, FileRequest, Kinds, Somewhere
  <2>2. r.path \in DOMAIN disk
    BY <1>2 DEF HandsInv, HandTrue
  <2>3. CASE \E u \in Procs : Touches(u) /\ job[u].req = r
    BY <2>1, <2>3 DEF Touches
  <2>4. CASE UNCHANGED disk \/ \E u \in Procs : Touches(u) /\ job[u].req # r
    BY <2>1, <2>2, <2>4, FileKept
  <2> QED
    BY <2>3, <2>4, DiskMoves
<1>3. Past(t)' <=> Past(t)
  BY DEF Past, Busy
<1>4. Past(t)' /\ r.kind \in Kinds /\ job[t].ok => Truly(r, body)'
  BY <1>1, <1>3
<1>5. Truly(job[t].req, job[t].body)' <=> Truly(r, body)'
  BY DEF Truly, Fitting
<1> QED
  BY <1>2, <1>4, <1>5 DEF HandsInv, HandTrue

LEMMA HandsHashesKept ==
    ASSUME MaxAttempts = 1, Typed, HandsInv, NEW t \in Procs,
           CalcFileBlockHashes(t) \/ StoreFileBlockHashes(t)
    PROVE  HandTrue(t)'
<1> DEFINE r == job[t].req
<1>0. /\ t \in Threads /\ DOMAIN pc = Threads /\ DOMAIN job = Threads /\ IsJob(job[t])
      /\ ThreadsTyped
  BY DEF Typed, ThreadsTyped, Threads
<1>1. UNCHANGED disk
  BY DEF CalcFileBlockHashes, StoreFileBlockHashes
<1>2. CASE CalcFileBlockHashes(t)
  <2>1. /\ pc[t] = "hashes"
        /\ \/ Went(t, FALSE, "answer")
           \/ /\ r.path \in DOMAIN disk
              /\ Goto(t, "store")
              /\ job' = [job EXCEPT ![t].layout = layout, ![t].body = disk[r.path]]
    BY <1>2, Zenon DEF CalcFileBlockHashes
  <2>2. CASE Went(t, FALSE, "answer")
    <3>1. pc'[t] = "answer" /\ ~ job'[t].ok
      BY <1>0, <2>2, WentTo
    <3> QED
      BY <3>1 DEF HandTrue
  <2>3. CASE /\ r.path \in DOMAIN disk
             /\ Goto(t, "store")
             /\ job' = [job EXCEPT ![t].layout = layout, ![t].body = disk[r.path]]
    <3>1. /\ pc'[t] = "store" /\ job'[t].req = r /\ job'[t].ok = job[t].ok
          /\ job'[t].body = disk[r.path]
      BY <1>0, <2>3 DEF Goto, IsJob, NoJob
    <3>2. r.kind = "hashes" /\ job[t].ok
      BY <2>1, BusyAbout DEF Busy, Fits, HandsInv, HandTrue
    <3> QED
      BY <1>1, <2>3, <3>1, <3>2 DEF HandTrue, Truly
  <2> QED
    BY <2>1, <2>2, <2>3
<1>3. CASE StoreFileBlockHashes(t)
  <2>1. /\ pc[t] = "store"
        /\ \/ Went(t, TRUE, "answer")
           \/ /\ Goto(t, "answer")
              /\ job' = [job EXCEPT ![t].ok = FALSE, ![t].body = <<>>]
    BY <1>3, Zenon DEF StoreFileBlockHashes, Succeeded
  <2>2. CASE Went(t, TRUE, "answer")
    <3>1. pc'[t] = "answer" /\ job'[t].req = r /\ job'[t].body = job[t].body
      BY <1>0, <2>2, WentTo
    <3>2. r.kind \in Kinds => Truly(r, job[t].body)
      BY <2>1 DEF HandsInv, HandTrue, Past, Busy, Ahead
    <3> QED
      BY <1>1, <3>1, <3>2 DEF HandTrue, Truly, Fitting
  <2>3. CASE /\ Goto(t, "answer")
             /\ job' = [job EXCEPT ![t].ok = FALSE, ![t].body = <<>>]
    <3>1. pc'[t] = "answer" /\ ~ job'[t].ok
      BY <1>0, <2>3 DEF Goto, IsJob, NoJob
    <3> QED
      BY <3>1 DEF HandTrue
  <2> QED
    BY <2>1, <2>2, <2>3
<1> QED
  BY <1>2, <1>3

LEMMA HandsDeleteKept ==
    ASSUME MaxAttempts = 1, Typed, HandsInv, NEW t \in Procs,
           DeleteFile(t) \/ RemoveFileIfPresent(t)
    PROVE  HandTrue(t)'
<1> DEFINE r == job[t].req
<1>0. /\ t \in Threads /\ DOMAIN pc = Threads /\ DOMAIN job = Threads /\ IsJob(job[t])
      /\ ThreadsTyped
  BY DEF Typed, ThreadsTyped, Threads
<1>1. CASE DeleteFile(t)
  <2>1. /\ pc[t] = "delete"
        /\ \/ Went(t, FALSE, "dirty")
           \/ /\ Goto(t, "forget")
              /\ disk' = Without(disk, r.path)
              /\ job' = [job EXCEPT ![t].layout = layout]
           \/ /\ Goto(t, "forget")
              /\ job' = [job EXCEPT ![t].layout = layout, ![t].ok = FALSE]
    BY <1>1, Zenon DEF DeleteFile, Failed
  <2>2. CASE Went(t, FALSE, "dirty")
    <3>1. pc'[t] = "dirty" /\ ~ job'[t].ok
      BY <1>0, <2>2, WentTo
    <3> QED
      BY <3>1 DEF HandTrue
  <2>3. CASE /\ Goto(t, "forget")
             /\ disk' = Without(disk, r.path)
             /\ job' = [job EXCEPT ![t].layout = layout]
    <3>1. pc'[t] = "forget" /\ job'[t].req = r
      BY <1>0, <2>3 DEF Goto, IsJob, NoJob
    <3>2. r.kind = "delete"
      BY <2>1, BusyAbout DEF Busy, Fits
    <3>3. r.path \notin DOMAIN disk'
      BY <2>3, WithSame
    <3> QED
      BY <3>1, <3>2, <3>3 DEF HandTrue, Truly
  <2>4. CASE /\ Goto(t, "forget")
             /\ job' = [job EXCEPT ![t].layout = layout, ![t].ok = FALSE]
    <3>1. pc'[t] = "forget" /\ ~ job'[t].ok
      BY <1>0, <2>4 DEF Goto, IsJob, NoJob
    <3> QED
      BY <3>1 DEF HandTrue
  <2> QED
    BY <2>1, <2>2, <2>3, <2>4
<1>2. CASE RemoveFileIfPresent(t)
  <2>1. /\ pc[t] = "forget" /\ UNCHANGED job /\ UNCHANGED disk
        /\ pc' = [pc EXCEPT ![t] = IF job[t].ok THEN "answer" ELSE "dirty"]
    BY <1>2, Zenon DEF RemoveFileIfPresent, Continue, Goto
  <2>2. pc'[t] = IF job[t].ok THEN "answer" ELSE "dirty"
    BY <1>0, <2>1
  <2>3. r.kind \in Kinds /\ job[t].ok => Truly(r, job[t].body)
    BY <2>1 DEF HandsInv, HandTrue, Past, Busy, Ahead
  <2> QED
    BY <2>1, <2>2, <2>3 DEF HandTrue, Truly, Fitting
<1> QED
  BY <1>1, <1>2

LEMMA HandsWriteKept ==
    ASSUME MaxAttempts = 1, Typed, HandsInv, WaitingInv, NEW t \in Procs, WriteFile(t)
    PROVE  HandTrue(t)'
<1> DEFINE r == job[t].req
           p == r.path
<1>0. t \in Threads /\ ThreadsTyped
  BY DEF Typed, Threads
<1>1. /\ pc[t] = "write"
      /\ \/ /\ disk' = IF fileWrite[r.at, r.path].truncate THEN TruncatedFile(r.path) ELSE disk
            /\ Went(t, TRUE, "answer")
         \/ Went(t, FALSE, "dirty")
  BY Zenon DEF WriteFile, Succeeded, Failed
<1>2. /\ FileRequest(r) /\ r.kind = "write" /\ r.at = 1
      /\ p \in DOMAIN ServerDirs[1] /\ ServerDirs[1][p] \in Seq(Blocks)
  <2>1. Busy(t)
    BY <1>1 DEF Busy
  <2>2. FileRequest(r) /\ r.kind = "write"
    BY <1>1, <2>1, BusyAbout DEF Fits, FileRequest, Kinds
  <2>3. r.at = 1 /\ p \in DOMAIN ServerDirs[1]
    BY <2>2, OneAttempt, RequestFields DEF FileRequest, HasFile
  <2> QED
    BY <2>2, <2>3, ServerFiles DEF Attempts
<1>3. CASE Went(t, FALSE, "dirty")
  <2>1. pc'[t] = "dirty" /\ ~ job'[t].ok
    BY <1>0, <1>3, WentTo
  <2> QED
    BY <2>1 DEF HandTrue
<1>4. CASE /\ disk' = IF fileWrite[r.at, r.path].truncate THEN TruncatedFile(r.path) ELSE disk
           /\ Went(t, TRUE, "answer")
  <2>1. pc'[t] = "answer" /\ job'[t].req = r
    BY <1>0, <1>4, WentTo
  <2>2. fileWrite[<<1, p>>].truncate \/ Fitting(p)
    <3>1. WaitsToWrite(r)
      BY <1>0, <1>1 DEF WaitsToWrite
    <3> QED
      BY <1>2, <3>1 DEF WaitingInv
  <2>3. CASE fileWrite[<<1, p>>].truncate
    <3>1. disk' = With(disk, p, <<>>)
      BY <1>2, <1>4, <2>3 DEF TruncatedFile
    <3>2. disk'[p] = <<>>
      BY <3>1, WithSame
    <3>3. Len(disk'[p]) <= Len(ServerDirs[1][p])
      BY <1>2, <3>2
    <3> QED
      BY <1>2, <2>1, <3>3 DEF HandTrue, Truly, Fitting
  <2>4. CASE ~ fileWrite[<<1, p>>].truncate
    <3>1. disk' = disk
      BY <1>2, <1>4, <2>4
    <3> QED
      BY <1>2, <2>1, <2>2, <2>4, <3>1 DEF HandTrue, Truly, Fitting
  <2> QED
    BY <2>3, <2>4
<1> QED
  BY <1>1, <1>3, <1>4

LEMMA HandsBlockKept ==
    ASSUME MaxAttempts = 1, Typed, HandsInv, NEW t \in Procs,
           LookForFile(t) \/ OpenFile(t) \/ WriteBlock(t)
    PROVE  HandTrue(t)'
<1> DEFINE r == job[t].req
           p == r.path
<1>0. /\ t \in Threads /\ ThreadsTyped
      /\ DOMAIN pc = Threads /\ DOMAIN job = Threads
  BY DEF Typed, ThreadsTyped, Threads
<1>1. /\ pc[t] \in {"data", "open", "create", "put"} /\ r.kind = "data"
  BY BusyAbout DEF Busy, Fits, LookForFile, OpenFile, WriteBlock
<1>2. CASE LookForFile(t)
  <2>1. pc'[t] \in {"open", "create"}
    BY <1>0, <1>2 DEF LookForFile, Continue, Goto
  <2> QED
    BY <2>1 DEF HandTrue, Past, Ahead
<1>3. CASE Went(t, FALSE, "dirty")
  <2>1. pc'[t] = "dirty" /\ ~ job'[t].ok
    BY <1>0, <1>3, WentTo
  <2> QED
    BY <2>1 DEF HandTrue
<1>4. CASE OpenFile(t)
  <2>1. \/ /\ pc[t] = "create" \/ p \in DOMAIN disk
           /\ disk' = IF pc[t] = "create" THEN With(disk, p, <<>>) ELSE disk
           /\ Continue(t, "put")
        \/ Went(t, FALSE, "dirty")
    BY <1>4, Zenon DEF OpenFile, Failed
  <2>2. CASE /\ pc[t] = "create" \/ p \in DOMAIN disk
             /\ disk' = IF pc[t] = "create" THEN With(disk, p, <<>>) ELSE disk
             /\ Continue(t, "put")
    <3>1. pc'[t] = "put" /\ job' = job
      BY <1>0, <2>2 DEF Continue, Goto
    <3>2. p \in DOMAIN disk'
      BY <2>2, WithSame
    <3> QED
      BY <3>1, <3>2 DEF HandTrue, Past, Ahead
  <2> QED
    BY <1>3, <2>1, <2>2
<1>5. CASE WriteBlock(t)
  <2>1. /\ pc[t] = "put"
        /\ \/ UNCHANGED disk /\ Went(t, TRUE, "answer")
           \/ /\ disk' = With(disk, p, Written(r, disk[p]))
              /\ Went(t, TRUE, "answer")
           \/ Went(t, FALSE, "dirty")
    BY <1>5, Zenon DEF WriteBlock, Failed, Succeeded
  <2>2. p \in DOMAIN disk
    BY <2>1 DEF HandsInv, HandTrue
  <2>3. CASE /\ \/ UNCHANGED disk
                \/ disk' = With(disk, p, Written(r, disk[p]))
             /\ Went(t, TRUE, "answer")
    <3>1. pc'[t] = "answer" /\ job'[t].req = r
      BY <1>0, <2>3, WentTo
    <3>2. p \in DOMAIN disk'
      BY <2>2, <2>3, WithSame
    <3> QED
      BY <1>1, <3>1, <3>2 DEF HandTrue, Truly
  <2> QED
    BY <1>3, <2>1, <2>3
<1> QED
  BY <1>2, <1>4, <1>5

\* A file not longer than the server's that begins with the server's is the server's.
LEMMA ValidatesTrue ==
    ASSUME NEW f \in Seq(Blocks), NEW new \in Seq(Blocks), Len(f) <= Len(new),
           new # <<>>, Len(f) >= Len(new), SubSeq(f, 1, Len(new)) = new
    PROVE  f = new
<1>1. Len(f) = Len(new)
  OBVIOUS
<1>2. SubSeq(f, 1, Len(f)) = f
  OBVIOUS
<1> QED
  BY <1>1, <1>2

LEMMA HandsFinishKept ==
    ASSUME MaxAttempts = 1, Typed, HandsInv, WaitingInv, NEW t \in Procs,
           FinishWriteFile(t) \/ AddFile(t)
    PROVE  HandTrue(t)'
<1> DEFINE r == job[t].req
           p == r.path
<1>0. /\ t \in Threads /\ ThreadsTyped
      /\ DOMAIN pc = Threads /\ DOMAIN job = Threads
  BY DEF Typed, ThreadsTyped, Threads
<1>1. UNCHANGED disk
  BY DEF FinishWriteFile, AddFile
<1>2. /\ FileRequest(r) /\ r.kind = "finish" /\ r.at = 1
      /\ p \in DOMAIN ServerDirs[1] /\ ServerDirs[1][p] \in Seq(Blocks)
  <2>1. Busy(t) /\ pc[t] \in {"finish", "add"}
    BY DEF Busy, FinishWriteFile, AddFile
  <2>2. FileRequest(r) /\ r.kind = "finish"
    BY <2>1, BusyAbout DEF Fits, FileRequest, Kinds
  <2>3. r.at = 1 /\ p \in DOMAIN ServerDirs[1]
    BY <2>2, OneAttempt, RequestFields DEF FileRequest, HasFile
  <2> QED
    BY <2>2, <2>3, ServerFiles DEF Attempts
<1>3. CASE Went(t, FALSE, "dirty")
  <2>1. pc'[t] = "dirty" /\ ~ job'[t].ok
    BY <1>0, <1>3, WentTo
  <2> QED
    BY <2>1 DEF HandTrue
<1>4. ASSUME NEW to \in {"add", "answer"}, Went(t, TRUE, to), Truly(r, <<>>)
      PROVE  HandTrue(t)'
  <2>1. pc'[t] = to /\ job'[t].req = r /\ job'[t].ok
    BY <1>0, <1>4, WentTo
  <2> QED
    BY <1>1, <1>2, <1>4, <2>1 DEF HandTrue, Truly
<1>5. CASE FinishWriteFile(t)
  <2>1. /\ pc[t] = "finish"
        /\ \/ Validates(r) /\ Went(t, TRUE, "add")
           \/ Went(t, FALSE, "dirty")
    BY <1>5, Zenon DEF FinishWriteFile, Failed
  <2>2. ASSUME Validates(r)
        PROVE  Truly(r, <<>>)
    <3> DEFINE new == ServerDirs[1][p]
    <3>1. WaitsToFinish(r)
      BY <1>0, <2>1 DEF WaitsToFinish
    <3>2. Ready(p)
      BY <1>2, <3>1 DEF WaitingInv
    <3>3. p \in DOMAIN disk
      BY <1>2, <2>2, <3>2 DEF Validates, Ready
    <3>4. disk[p] \in Seq(Blocks) /\ new \in Seq(Blocks) /\ Len(disk[p]) <= Len(new)
      BY <1>2, <3>2, <3>3 DEF Ready, Fitting, Typed, LayoutsTyped, IsDir
    <3>5. new = <<>> \/ (Len(disk[p]) >= Len(new) /\ SubSeq(disk[p], 1, Len(new)) = new)
      BY <1>2, <2>2 DEF Validates
    <3>6. disk[p] = new
      <4> HIDE DEF new
      <4>1. CASE new = <<>>
        <5>1. Len(disk[p]) = 0
          BY <3>4, <4>1
        <5> QED
          BY <3>4, <4>1, <5>1
      <4>2. CASE new # <<>>
        BY <3>4, <3>5, <4>2, ValidatesTrue
      <4> QED
        BY <4>1, <4>2
    <3> QED
      BY <1>2, <3>3, <3>6 DEF Truly
  <2> QED
    BY <1>3, <1>4, <2>1, <2>2
<1>6. CASE AddFile(t)
  <2>1. /\ pc[t] = "add"
        /\ Went(t, FALSE, "dirty") \/ Went(t, TRUE, "answer")
    BY <1>6, Zenon DEF AddFile, Failed, Succeeded
  <2>2. Truly(r, job[t].body)
    BY <1>2, <2>1 DEF HandsInv, HandTrue, Past, Busy, Ahead, FileRequest
  <2>3. Truly(r, <<>>)
    BY <1>2, <2>2 DEF Truly
  <2> QED
    BY <1>3, <1>4, <2>1, <2>3
<1> QED
  BY <1>5, <1>6

LEMMA HandsInvKept ==
    ASSUME MaxAttempts = 1, Typed, HandsEmpty, InOrder, ClaimsInv, [Next]_vars
    PROVE  HandsInv'
<1> SUFFICES ASSUME NEW t \in Procs
             PROVE  HandTrue(t)'
  BY DEF HandsInv
<1> USE DEF ClaimsInv
<1>0. /\ t \in Threads /\ ThreadsTyped
      /\ DOMAIN pc = Threads /\ DOMAIN job = Threads
  BY DEF Typed, ThreadsTyped, Threads
<1>1. CASE pc'[t] = pc[t] /\ job'[t] = job[t]
  BY <1>1, HandUntouched
<1>2. CASE ~ Busy(t)'
  BY <1>2 DEF HandTrue, Past, Busy
<1>3. CASE ProcStep(t)
  <2>1. CASE TakeTask(t)
    <3>1. PICK i \in DOMAIN pending :
             /\ Goto(t, pending[i].kind)
             /\ job' = [job EXCEPT ![t] = JobOf(pending[i])]
      BY <2>1, Zenon DEF TakeTask
    <3>2. pending[i].kind \in Kinds \cup {"layout"}
      BY RequestFields DEF Typed, QueuesTyped
    <3>3. pc'[t] = pending[i].kind /\ job'[t] = JobOf(pending[i])
      BY <1>0, <3>1 DEF Goto
    <3>4. job'[t].req.kind = pc'[t] /\ job'[t].ok
      BY <3>3 DEF JobOf, NoJob
    <3> QED
      BY <3>2, <3>3, <3>4 DEF HandTrue, Past, Ahead, Kinds
  <2>2. CASE ExitRun(t) \/ SetFileLayout(t) \/ SendResponse(t)
    <3>1. pc'[t] \in {"off", "idle"}
      BY <1>0, <2>2 DEF ExitRun, SetFileLayout, SendResponse, Return, Continue, Goto
    <3> QED
      BY <1>2, <3>1 DEF Busy
  <2>3. CASE ListFiles(t) \/ AddFileToLayout(t) \/ LayoutBuilt(t)
    <3>1. pc[t] \in {"layout", "hashing"} /\ AtWork(t)
      BY <2>3 DEF ListFiles, AddFileToLayout, LayoutBuilt, AtWork
    <3>2. job'[t].req = job[t].req /\ job[t].req.kind = "layout"
      BY <1>0, <3>1, WorkGoesOn, BusyAbout DEF Busy, Fits
    <3>3. pc'[t] \in {"hashing", "publish"}
      BY <1>0, <2>3 DEF ListFiles, AddFileToLayout, LayoutBuilt, Went, Goto
    <3> QED
      BY <3>2, <3>3 DEF HandTrue, Kinds
  <2>4. CASE SetDirtyFileLayout(t)
    <3>1. pc[t] = "dirty" /\ job' = job /\ pc'[t] = "answer"
      BY <1>0, <2>4 DEF SetDirtyFileLayout, Continue, Goto
    <3>2. ~ job'[t].ok
      BY <3>1 DEF HandsInv, HandTrue
    <3> QED
      BY <3>1, <3>2 DEF HandTrue
  <2>5. CASE CalcFileBlockHashes(t) \/ StoreFileBlockHashes(t)
             \/ DeleteFile(t) \/ RemoveFileIfPresent(t)
    BY <2>5, HandsHashesKept, HandsDeleteKept
  <2>6. CASE WriteFile(t) \/ LookForFile(t) \/ OpenFile(t) \/ WriteBlock(t)
             \/ FinishWriteFile(t) \/ AddFile(t)
    BY <2>6, HandsWriteKept, HandsBlockKept, HandsFinishKept
  <2> QED
    BY <1>3, <2>1, <2>2, <2>3, <2>4, <2>5, <2>6, ProcSteps DEF AtWork
<1> QED
  BY <1>1, <1>2, <1>3, ProcGoes

\* A processor at the beginning of a task took it from the queue.
LEMMA AtBeginning ==
    ASSUME Typed, HandsEmpty, [Next]_vars, NEW t \in Procs, NEW where \in {"write", "finish"},
           NEW r, FileRequest(r), job[t].req = r, pc'[t] = where
    PROVE  pc[t] = where
<1>0. /\ t \in Threads /\ DOMAIN pc = Threads /\ r # NoRequest
  BY RequestFields DEF Typed, ThreadsTyped, Threads, FileRequest, NoRequest, Request, Kinds
<1>1. Busy(t)
  BY <1>0 DEF HandsEmpty
<1>2. CASE ProcStep(t)
  <2>1. CASE TakeTask(t) \/ ExitRun(t) \/ SetFileLayout(t) \/ SendResponse(t)
    BY <1>0, <1>1, <2>1
       DEF TakeTask, ExitRun, SetFileLayout, SendResponse, Return, Goto, Busy
  <2>2. CASE CalcFileBlockHashes(t) \/ StoreFileBlockHashes(t)
             \/ DeleteFile(t) \/ RemoveFileIfPresent(t)
    BY <1>0, <2>2
       DEF CalcFileBlockHashes, StoreFileBlockHashes, DeleteFile, RemoveFileIfPresent,
           Went, Failed, Succeeded, Continue, Goto
  <2>3. CASE WriteFile(t) \/ LookForFile(t) \/ OpenFile(t) \/ WriteBlock(t)
    BY <1>0, <2>3
       DEF WriteFile, LookForFile, OpenFile, WriteBlock, Went, Failed, Succeeded, Continue, Goto
  <2>4. CASE FinishWriteFile(t) \/ AddFile(t) \/ SetDirtyFileLayout(t)
    BY <1>0, <2>4
       DEF FinishWriteFile, AddFile, SetDirtyFileLayout, Went, Failed, Succeeded, Continue, Goto
  <2>5. CASE ListFiles(t) \/ AddFileToLayout(t) \/ LayoutBuilt(t)
    BY <1>0, <2>5 DEF ListFiles, AddFileToLayout, LayoutBuilt, Went, Goto
  <2> QED
    BY <1>2, <2>1, <2>2, <2>3, <2>4, <2>5, ProcSteps DEF AtWork
<1> QED
  BY <1>1, <1>2, ProcGoes

\* A file still to be opened waited before, or is asked for now.
LEMMA WaitsToWriteMoved ==
    ASSUME MaxAttempts = 1, Typed, HandsEmpty, InOrder, [Next]_vars,
           NEW r, FileRequest(r), r.kind = "write", WaitsToWrite(r)'
    PROVE  WaitsToWrite(r) \/ Begins(r)
<1>1. CASE Asks(r)
  BY <1>1, AskingIs DEF WaitsToWrite, threads
<1>2. CASE ~ Asks(r)
  <2>1. Moved(r)
    BY <1>2, RequestsMove DEF InOrder
  <2>2. ~ (Has(queueReceived, r) /\ Accepts /\ Head(queueReceived) = r)
    BY DEF Accepts, ProcessRequestDeleteFile, ProcessSendFileData,
           ProcessRequestFinishWriteFile, Receives
  <2>3. CASE Has(pending', r)
    BY <2>1, <2>2, <2>3 DEF Moved, WaitsToWrite, Threads
  <2>4. ASSUME NEW t \in Threads, job'[t].req = r, t = Main \/ pc'[t] = "write"
        PROVE  WaitsToWrite(r) \/ Begins(r)
    <3>1. CASE job[t].req = r
      <4>1. t = Main \/ pc[t] = "write"
        BY <2>4, <3>1, AtBeginning DEF Threads
      <4> QED
        BY <3>1, <4>1 DEF WaitsToWrite
    <3>2. CASE Has(pending, r)
      BY <3>2 DEF WaitsToWrite
    <3>3. CASE t = Main /\ Keeps /\ Head(queueReceived) = r /\ job[t].req # r
      <4>1. ProcessRequestWriteFile
        BY <3>3 DEF Keeps, ProcessRequestFileBlockHashes, Receives
      <4>2. ~ UNCHANGED threads
        BY <2>4, <3>3 DEF threads
      <4> QED
        BY <3>3, <4>1, <4>2, WriteBegins
    <3> QED
      BY <2>1, <2>4, <3>1, <3>2, <3>3 DEF Moved
  <2> QED
    BY <2>3, <2>4 DEF WaitsToWrite
<1> QED
  BY <1>1, <1>2

LEMMA WaitsToFinishMoved ==
    ASSUME MaxAttempts = 1, Typed, HandsEmpty, InOrder, [Next]_vars,
           NEW r, FileRequest(r), r.kind = "finish", WaitsToFinish(r)'
    PROVE  WaitsToFinish(r) \/ Asks(r)
<1>2. CASE ~ Asks(r)
  <2>1. Moved(r)
    BY <1>2, RequestsMove DEF InOrder
  <2>2. CASE Has(queueReceived', r) \/ Has(pending', r)
    BY <2>1, <2>2 DEF Moved, WaitsToFinish, Threads
  <2>3. ASSUME NEW t \in Threads, job'[t].req = r, t = Main \/ pc'[t] = "finish"
        PROVE  WaitsToFinish(r)
    <3>1. CASE job[t].req = r
      <4>1. t = Main \/ pc[t] = "finish"
        BY <2>3, <3>1, AtBeginning DEF Threads
      <4> QED
        BY <3>1, <4>1 DEF WaitsToFinish
    <3>2. CASE Has(pending, r) \/ Has(queueReceived, r)
      BY <3>2 DEF WaitsToFinish
    <3> QED
      BY <2>1, <2>3, <3>1, <3>2 DEF Moved
  <2> QED
    BY <2>2, <2>3 DEF WaitsToFinish
<1> QED
  BY <1>2

LEMMA WaitsSomewhere ==
    ASSUME NEW r, WaitsToWrite(r) \/ WaitsToFinish(r)
    PROVE  Somewhere(r)
BY DEF WaitsToWrite, WaitsToFinish, Somewhere, Held

\* A file task begun will empty a file in the way.
LEMMA BeginsFitting ==
    ASSUME MaxAttempts = 1, Typed, InOrder, LayoutInv, StatusInv, KnownInv,
           NEW r, FileRequest(r), Begins(r)
    PROVE  fileWrite'[<<1, r.path>>].truncate \/ Fitting(r.path)'
<1> DEFINE p == r.path
<1>1. /\ layout # None /\ r.kind = "write" /\ Has(queueReceived, r)
      /\ fileWrite'[<<1, p>>].truncate = Truncates(r)
      /\ UNCHANGED disk
  BY DEF Begins, ProcessRequestWriteFile
<1>2. layout = 1 /\ nextLayout = 1
  BY <1>1 DEF LayoutInv, LayoutSlots, Typed, LayoutsTyped, None
<1>3. p \in DOMAIN ServerDirs[1] /\ r.at = 1
  BY <1>1, OneAttempt, RequestFields DEF FileRequest, HasFile
<1>4. ServerDirs[1][p] \in Seq(Blocks)
  BY <1>3, ServerFiles DEF Attempts
<1>5. SameAt(content[1], disk, p)
  BY <1>1, <1>2, <1>3 DEF KnownInv, KnownUntilWritten, StatusInv
<1>6. ~ Truncates(r) => Fitting(p)
  BY <1>2, <1>3, <1>4, <1>5 DEF Truncates, SizeToWrite, Fitting, SameAt
<1> QED
  BY <1>1, <1>6 DEF Fitting

LEMMA WriteWaitsKept ==
    ASSUME MaxAttempts = 1, Typed, HandsEmpty, InOrder, LayoutInv, StatusInv, KnownInv,
           WaitingInv, [Next]_vars,
           NEW r, FileRequest(r), r.kind = "write", WaitsToWrite(r)'
    PROVE  fileWrite'[<<1, r.path>>].truncate \/ Fitting(r.path)'
<1> DEFINE p == r.path
<1>0. /\ p \in Paths /\ p \in DOMAIN ServerDirs[1]
      /\ ServerDirs[1][p] \in Seq(Blocks)
  <2>1. p \in Paths /\ r.at = 1 /\ p \in DOMAIN ServerDirs[1]
    BY RequestFields, OneAttempt DEF FileRequest, HasFile
  <2> QED
    BY <2>1, ServerFiles DEF Attempts
<1>1. CASE Begins(r)
  BY <1>1, BeginsFitting
<1>2. CASE ~ Begins(r)
  <2>1. WaitsToWrite(r) /\ Somewhere(r)
    BY <1>2, WaitsToWriteMoved, WaitsSomewhere
  <2>2. fileWrite[<<1, p>>].truncate \/ Fitting(p)
    BY <2>1 DEF WaitingInv
  <2>3. fileWrite'[<<1, p>>].truncate = fileWrite[<<1, p>>].truncate
    <3>1. ASSUME NEW x, Begins(x)
          PROVE  x.path # p
      <4>1. FileRequest(x) /\ x.kind = "write" /\ Somewhere(x)
        BY <3>1 DEF Begins, Somewhere
      <4>2. x.index = 0 /\ r.index = 0
        BY <2>1, <4>1 DEF InOrder, Sensible
      <4> QED
        BY <1>2, <3>1, <4>1, <4>2, OneAttempt DEF FileRequest
    <3>2. \A x : Begins(x) => fileWrite'[<<1, p>>] = fileWrite[<<1, p>>]
      BY <1>0, <3>1 DEF Begins
    <3>3. \A q : Marked(q) => fileWrite'[<<1, p>>].truncate = fileWrite[<<1, p>>].truncate
      BY <1>0 DEF Marked
    <3> QED
      BY <3>2, <3>3, WritesMove DEF Ends, Marks
  <2>4. ASSUME Fitting(p)
        PROVE  Fitting(p)'
    <3>1. ASSUME NEW t \in Procs, Touches(t), job[t].req = r
          PROVE  Fitting(p)'
      <4>1. p \in DOMAIN disk' /\ disk'[p] = <<>>
        BY <3>1 DEF Touches
      <4> QED
        BY <1>0, <4>1 DEF Fitting
    <3>2. ASSUME UNCHANGED disk \/ \E t \in Procs : Touches(t) /\ job[t].req # r
          PROVE  Fitting(p)'
      <4>1. SameAt(disk', disk, p)
        BY <2>1, <3>2, FileKept
      <4> QED
        BY <2>4, <4>1 DEF SameAt, Fitting
    <3> QED
      BY <3>1, <3>2, DiskMoves
  <2> QED
    BY <2>2, <2>3, <2>4
<1> QED
  BY <1>1, <1>2

\* The server asks to finish a file when every block is answered.
LEMMA AskedReady ==
    ASSUME MaxAttempts = 1, Typed, AskInv, PlacesInv, AnswersInv, ReliedInv,
           NEW r, FileRequest(r), r.kind = "finish", Asks(r)
    PROVE  Ready(r.path)
<1> DEFINE p == r.path
<1>0. /\ p \in Paths /\ p \in DOMAIN ServerDirs[1]
      /\ ServerDirs[1][p] \in Seq(Blocks)
  <2>1. p \in Paths /\ r.at = 1 /\ p \in DOMAIN ServerDirs[1]
    BY RequestFields, OneAttempt DEF FileRequest, HasFile
  <2> QED
    BY <2>1, ServerFiles DEF Attempts
<1>1. srv.state = "work" /\ srv.attempt = 1 /\ AskedInOrder /\ r \in WantedRequests /\ Live
  BY DEF Asks, AskInv, Live
<1>2. /\ Answered(Ask("write", p, 0))
      /\ \A d \in DataRequests(p) : Answered(d)
  BY <1>1, WantedByKind
<1>3. ~ BlockFailed(p)
  <2>1. ASSUME NEW d, FileRequest(d), d.kind = "data", d.path = p, Somewhere(d)
        PROVE  FALSE
    <3>1. d \in srv.sent /\ ~ Answered(d)
      BY <1>1, <2>1, Unanswered DEF FileRequest
    <3>2. d \in DataRequests(p)
      BY <1>1, <2>1, <3>1 DEF AskedInOrder
    <3> QED
      BY <1>2, <3>1, <3>2
  <2>2. ASSUME NEW t \in Procs, job[t].req.kind = "data", job[t].req.path = p, Past(t)
        PROVE  FALSE
    <3>1. FileRequest(job[t].req) /\ Somewhere(job[t].req)
      BY <2>2, BusyAbout DEF Past, FileRequest, Kinds, Somewhere
    <3> QED
      BY <2>1, <2>2, <3>1
  <2>3. ASSUME NEW i \in DOMAIN queueSend, queueSend[i].req.kind = "data",
               queueSend[i].req.path = p
        PROVE  FALSE
    <3>1. queueSend[i].req \in ServerRequests
      BY DEF AnswersInv
    <3>2. FileRequest(queueSend[i].req) /\ Somewhere(queueSend[i].req)
      BY <2>3, <3>1 DEF FileRequest, Kinds, Somewhere, HasAnswer
    <3> QED
      BY <2>1, <2>3, <3>2
  <2> QED
    BY <2>2, <2>3 DEF BlockFailed
<1>4. Fitting(p)
  BY <1>0, <1>1, <1>2, <1>3 DEF ReliedInv
<1>5. ASSUME ServerDirs[1][p] = <<>>
      PROVE  p \in DOMAIN disk
  <2> DEFINE d == Ask("data", p, 1)
  <2>1. SyncedDir = ServerDirs[1]
    BY <1>1 DEF SyncedDir
  <2>2. p \notin HashPaths
    <3>1. ASSUME SameSize(p)
          PROVE  srv.layout[p] = SyncedDir[p]
      <4>1. p \in DOMAIN srv.layout /\ Len(srv.layout[p]) = 0
        BY <1>5, <2>1, <3>1 DEF SameSize
      <4>2. srv.layout[p] \in Seq(Blocks)
        BY <4>1 DEF Typed, ServerTyped, IsDir
      <4>3. srv.layout[p] = <<>>
        BY <4>1, <4>2
      <4> QED
        BY <1>5, <2>1, <4>3
    <3> QED
      BY <3>1 DEF HashPaths, WritePaths, SameSize
  <2>3. 1 \in WriteBlocks(p)
    BY <1>5, <2>1, <2>2 DEF WriteBlocks, BlocksOf
  <2>4. d \in DataRequests(p)
    BY <2>3 DEF DataRequests
  <2>5. Answered(d) /\ d \in srv.sent /\ d.kind = "data" /\ d.path = p
    BY <1>2, <2>4 DEF Answered, Ask, Request
  <2> HIDE DEF d
  <2>6. Truly(d, <<>>)
    BY <1>1, <2>5 DEF ReliedInv
  <2> QED
    BY <2>5, <2>6 DEF Truly
<1> QED
  BY <1>4, <1>5 DEF Ready

LEMMA FinishWaitsKept ==
    ASSUME MaxAttempts = 1, Typed, HandsEmpty, AskInv, PlacesInv, InOrder,
           AnswersInv, WaitingInv, ReliedInv, [Next]_vars,
           NEW r, FileRequest(r), r.kind = "finish", WaitsToFinish(r)'
    PROVE  Ready(r.path)'
<1>1. CASE Asks(r)
  <2>1. UNCHANGED disk
    BY <1>1, AskingIs
  <2>2. Ready(r.path)
    BY <1>1, AskedReady
  <2> QED
    BY <2>1, <2>2 DEF Ready, Fitting
<1>2. CASE ~ Asks(r)
  <2>1. WaitsToFinish(r) /\ Somewhere(r)
    BY <1>2, WaitsToFinishMoved, WaitsSomewhere
  <2>2. Ready(r.path)
    BY <2>1 DEF WaitingInv
  <2>3. UNCHANGED disk \/ \E t \in Procs : Touches(t) /\ job[t].req # r
    BY DiskMoves DEF Touches
  <2>4. SameAt(disk', disk, r.path)
    BY <2>1, <2>3, FileKept
  <2> QED
    BY <2>2, <2>4 DEF Ready, Fitting, SameAt
<1> QED
  BY <1>1, <1>2

LEMMA ClaimsInvKept ==
    ASSUME MaxAttempts = 1, Typed, HandsEmpty, AskInv, PlacesInv, InOrder, LayoutInv,
           StatusInv, KnownInv, ClaimsInv, ReliedInv, [Next]_vars
    PROVE  ClaimsInv'
<1>1. AnswersInv'
  BY AnswersInvKept
<1>2. HandsInv'
  BY HandsInvKept
<1>3. WaitingInv'
  <2>1. ASSUME NEW r, FileRequest(r), r.kind = "write", WaitsToWrite(r)'
        PROVE  fileWrite'[<<1, r.path>>].truncate \/ Fitting(r.path)'
    BY <2>1, WriteWaitsKept DEF ClaimsInv
  <2>2. ASSUME NEW r, FileRequest(r), r.kind = "finish", WaitsToFinish(r)'
        PROVE  Ready(r.path)'
    BY <2>2, FinishWaitsKept DEF ClaimsInv
  <2> QED
    BY <2>1, <2>2 DEF WaitingInv
<1> QED
  BY <1>1, <1>2, <1>3 DEF ClaimsInv

\* An answer queued is there until it is sent.
LEMMA AnswerStays ==
    ASSUME Typed, [Next]_vars, NEW i \in DOMAIN queueSend
    PROVE  \/ \E j \in DOMAIN queueSend' : queueSend'[j] = queueSend[i]
           \/ SendQueuedMessages /\ queueSend # <<>> /\ queueSend[i] = Head(queueSend)
<1> DEFINE Stays == \E j \in DOMAIN queueSend' : queueSend'[j] = queueSend[i]
<1>1. UNCHANGED queueSend => Stays
  OBVIOUS
<1>2. PICK S : queueSend \in Seq(S)
  BY DEF Typed, QueuesTyped
<1>3. ASSUME NEW n, queueSend' = Append(queueSend, n)
      PROVE  Stays
  <2>1. DOMAIN queueSend = 1 .. Len(queueSend) /\ Len(queueSend) \in Nat
    BY <1>2
  <2>2. i \in DOMAIN queueSend' /\ queueSend'[i] = queueSend[i]
    BY <1>2, <1>3, <2>1
  <2> QED
    BY <2>2
<1>4. ASSUME NEW n, queueSend' = Queued(n)
      PROVE  Stays
  BY <1>1, <1>3, <1>4 DEF Queued
<1> SUFFICES ASSUME ~ (SendQueuedMessages /\ queueSend # <<>> /\ queueSend[i] = Head(queueSend))
             PROVE  Stays
  OBVIOUS
<1> HIDE DEF Stays
<1>5. CASE SendQueuedMessages
  <2>1. CASE queueSend = <<>>
    BY <2>1
  <2>2. CASE queueSend # <<>>
    <3> DEFINE q == queueSend
    <3>1. queueSend' = Tail(q) /\ q[i] # Head(q)
      BY <1>5, <2>2 DEF SendQueuedMessages
    <3> HIDE DEF q
    <3>2. q \in Seq(S) /\ q # <<>> /\ i \in DOMAIN q
      BY <1>2, <2>2 DEF q
    <3>3. i - 1 \in DOMAIN Tail(q) /\ Tail(q)[i - 1] = q[i]
      BY <3>1, <3>2
    <3> QED
      BY <3>1, <3>3 DEF q, Stays
  <2> QED
    BY <2>1, <2>2
<1>6. CASE UpdateStep
  <2>1. CASE UpdateLayoutChanged \/ PutFileWithoutBlocks \/ AddPendingTask
             \/ ProcessRequestDeleteFile \/ NothingReceived
             \/ StopTaskProcessors \/ JoinTaskProcessors
    BY <1>1, <2>1
       DEF UpdateLayoutChanged, PutFileWithoutBlocks, AddPendingTask,
           ProcessRequestDeleteFile, NothingReceived,
           StopTaskProcessors, JoinTaskProcessors, queues
  <2>2. CASE ProcessSendFileData \/ ProcessRequestFinishWriteFile
    BY <1>1, <2>2 DEF ProcessSendFileData, ProcessRequestFinishWriteFile
  <2>3. CASE OnFileLayoutChanged
    <3>1. UNCHANGED queueSend \/ \E n : queueSend' = Queued(n)
      BY <2>3 DEF OnFileLayoutChanged
    <3> QED
      BY <1>1, <1>4, <3>1
  <2>4. CASE ProcessRequestLayout \/ ProcessRequestFileBlockHashes
    <3>1. UNCHANGED queueSend \/ \E n : queueSend' = Queued(n)
      BY <2>4 DEF ProcessRequestLayout, ProcessRequestFileBlockHashes
    <3> QED
      BY <1>1, <1>4, <3>1
  <2>5. CASE ProcessRequestWriteFile
    <3>1. UNCHANGED queueSend \/ \E n : queueSend' = Queued(n)
      BY <2>5 DEF ProcessRequestWriteFile
    <3> QED
      BY <1>1, <1>4, <3>1
  <2> QED
    BY <1>5, <1>6, <2>1, <2>2, <2>3, <2>4, <2>5 DEF UpdateStep
<1>7. CASE UNCHANGED vars \/ ConnectTo \/ Disconnect \/ ConnectionClosed \/ NetworkStep
  BY <1>1, <1>7
     DEF vars, ConnectTo, Disconnect, ConnectionClosed, Close, NetworkStep,
         ConnectionEstablished, MessageReceivedConnect, MessageReceived, queues
<1>8. ASSUME NEW t \in Procs, ProcStep(t)
      PROVE  Stays
  <2>1. CASE TakeTask(t) \/ ExitRun(t) \/ SetFileLayout(t)
    BY <1>1, <2>1 DEF TakeTask, ExitRun, SetFileLayout, queues
  <2>2. CASE AtWork(t)
    BY <1>1, <2>2, WorkGoesOn
  <2>3. CASE SendResponse(t)
    <3>1. \E n : queueSend' = Queued(n)
      BY <2>3, Zenon DEF SendResponse
    <3> QED
      BY <1>4, <3>1
  <2> QED
    BY <1>8, <2>1, <2>2, <2>3, ProcSteps
<1> QED
  BY <1>6, <1>7, <1>8 DEF Next

\* While the attempt goes on what is about is what the server waits for.
LEMMA AboutOpen ==
    ASSUME Typed, PlacesInv, srv.state = "work", NEW r, FileRequest(r), Somewhere(r)
    PROVE  r \in srv.open /\ r \in srv.sent /\ ~ Answered(r)
BY Unanswered DEF Live, FileRequest

\* The server will be told of the block unless the attempt ends before.
LEMMA BlockFailedKept ==
    ASSUME MaxAttempts = 1, Typed, AskInv, PlacesInv, AnswersInv, [Next]_vars,
           srv.state = "work", srv'.state = "work", NEW p \in Paths, BlockFailed(p)
    PROVE  BlockFailed(p)'
<1>1. Connected
  BY DEF AskInv, Connected
<1>2. ASSUME NEW t \in Procs, job[t].req.kind = "data", job[t].req.path = p,
             Past(t), ~ job[t].ok
      PROVE  BlockFailed(p)'
  <2>0. t \in Threads /\ DOMAIN pc = Threads /\ DOMAIN job = Threads
    BY DEF Typed, ThreadsTyped, Threads
  <2>1. pc[t] \in {"dirty", "answer"} /\ Busy(t)
    <3>1. Busy(t) /\ Fits("data", pc[t]) /\ pc[t] \in ProcPC
      BY <1>2, BusyAbout DEF Past, Typed, ThreadsTyped
    <3> QED
      BY <1>2, <3>1 DEF Past, Fits, Ahead, Busy, ProcPC
  <2>2. CASE pc'[t] = pc[t] /\ job'[t] = job[t]
    BY <1>2, <2>2 DEF BlockFailed, Past, Busy
  <2>3. CASE SetDirtyFileLayout(t)
    <3>1. pc'[t] = "answer" /\ job' = job
      BY <2>0, <2>3 DEF SetDirtyFileLayout, Continue, Goto
    <3> QED
      BY <1>2, <3>1 DEF BlockFailed, Past, Busy, Ahead
  <2>4. CASE SendResponse(t)
    <3> DEFINE n == Answer(job[t].req, job[t].ok, job[t].body)
               i == Len(queueSend) + 1
    <3>1. queueSend' = Append(queueSend, n)
      BY <1>1, <2>4, Zenon DEF SendResponse, Queued
    <3>2. n.req.kind = "data" /\ n.req.path = p /\ ~ n.ok
      BY <1>2 DEF Answer
    <3>3. PICK S : queueSend \in Seq(S)
      BY DEF Typed, QueuesTyped
    <3> HIDE DEF n
    <3>4. i \in DOMAIN queueSend' /\ queueSend'[i] = n
      BY <3>1, <3>3
    <3> HIDE DEF i
    <3> QED
      BY <3>2, <3>4 DEF BlockFailed
  <2>5. CASE ProcStep(t)
    <3>1. SetDirtyFileLayout(t) \/ SendResponse(t)
      BY <2>1, <2>5
         DEF ProcStep, TakeTask, ExitRun, RunTaskStep, ListFiles, AddFileToLayout,
             LayoutBuilt, SetFileLayout, CalcFileBlockHashes, StoreFileBlockHashes,
             DeleteFile, RemoveFileIfPresent, WriteFile, LookForFile, OpenFile,
             WriteBlock, FinishWriteFile, AddFile
    <3> QED
      BY <2>3, <2>4, <3>1
  <2> QED
    BY <2>1, <2>2, <2>5, ProcGoes
<1>3. ASSUME NEW i \in DOMAIN queueSend, queueSend[i].req.kind = "data",
             queueSend[i].req.path = p, ~ queueSend[i].ok
      PROVE  BlockFailed(p)'
  <2> PICK m : m = queueSend[i]
    OBVIOUS
  <2>1. CASE \E j \in DOMAIN queueSend' : queueSend'[j] = m
    BY <1>3, <2>1 DEF BlockFailed
  <2>2. CASE SendQueuedMessages /\ queueSend # <<>> /\ m = Head(queueSend)
    <3>1. srv' = AnswerReceived(m)
      BY <1>1, <2>2 DEF SendQueuedMessages
    <3>2. m.req \in ServerRequests
      BY DEF AnswersInv
    <3>3. FileRequest(m.req) /\ Somewhere(m.req)
      BY <1>3, <3>2 DEF FileRequest, Kinds, Somewhere, HasAnswer
    <3>4. m.req \in srv.open
      BY <3>3, AboutOpen
    <3>5. Matching(m) # {}
      BY <3>4 DEF Matching
    <3>6. srv'.state = "failed"
      BY <1>3, <3>1, <3>5, AnswerEffect DEF Typed
    <3> QED
      BY <3>6
  <2> QED
    BY <2>1, <2>2, AnswerStays
<1> QED
  BY <1>2, <1>3 DEF BlockFailed

\* What is answered already is not disturbed by what is not.
LEMMA TouchesOthers ==
    ASSUME MaxAttempts = 1, Typed, AskInv, PlacesInv, SentInv, ReliedInv,
           srv.state = "work", NEW t \in Procs, Touches(t)
    PROVE  /\ \A r \in srv.sent :
                 r.kind \in {"delete", "data", "finish"} /\ Answered(r) => Truly(r, <<>>)'
           /\ \A p \in Paths :
                 Answered(Ask("write", p, 0)) /\ Fitting(p) => Fitting(p)' \/ BlockFailed(p)'
           /\ \A p \in Paths : LeftAlone(p) => SameAt(disk', disk, p)
<1> PICK q : q = job[t].req
  OBVIOUS
<1>1. /\ FileRequest(q) /\ q \in ServerRequests /\ q \in srv.open /\ q \in srv.sent
      /\ ~ Answered(q)
      /\ q.kind \in {"delete", "write", "data"} /\ q.path \in Paths
      /\ \A o \in Paths \ {q.path} : SameAt(disk', disk, o)
  <2>1. FileRequest(q) /\ Somewhere(q)
    BY DEF Touches, Somewhere
  <2> QED
    BY <2>1, AboutOpen DEF Touches, FileRequest
<1>2. srv.attempt = 1 /\ AskedInOrder /\ SyncedDir = ServerDirs[1] /\ q.at = 1
  BY <1>1, OneAttempt DEF AskInv, SyncedDir
<1>3. /\ q.kind = "delete" => q.path \notin DOMAIN ServerDirs[1]
      /\ q.kind \in {"write", "data"} => q.path \in DOMAIN ServerDirs[1]
  BY <1>1, <1>2, RequestFields DEF SentInv, DeletePaths, HasFile
<1>4. q.kind \in {"delete", "write"} => q = Ask(q.kind, q.path, 0)
  BY <1>1, <1>2, OneAttempt DEF SentInv, Kinds, Ask
<1>5. ASSUME NEW r \in srv.sent, r.kind \in {"delete", "data", "finish"}, Answered(r)
      PROVE  Truly(r, <<>>)'
  <2>1. Truly(r, <<>>)
    BY <1>5 DEF ReliedInv
  <2>2. r \in ServerRequests /\ r.path \in Paths /\ r.at = 1
    BY <1>5, RequestFields, OneAttempt DEF Typed, ServerTyped, Kinds
  <2>3. CASE r.path # q.path
    BY <1>1, <1>5, <2>1, <2>2, <2>3 DEF Truly, SameAt
  <2>4. CASE r.path = q.path
    <3>1. CASE r.kind = "delete"
      <4>1. r.path \notin DOMAIN ServerDirs[1] /\ r = Ask("delete", r.path, 0)
        BY <1>2, <2>2, <3>1, OneAttempt DEF SentInv, DeletePaths, Kinds, Ask
      <4>2. q = r
        BY <1>1, <1>3, <1>4, <2>4, <4>1
      <4> QED
        BY <1>1, <1>5, <4>2
    <3>2. CASE r.kind \in {"data", "finish"}
      <4>1. r.path \in DOMAIN ServerDirs[1]
        BY <2>2, <3>2, RequestFields DEF HasFile
      <4>2. Answered(Ask("write", r.path, 0))
        BY <1>2, <3>2 DEF AskedInOrder
      <4>3. q.kind = "data"
        BY <1>1, <1>3, <1>4, <2>4, <4>1, <4>2
      <4>4. r.path \in DOMAIN disk'
        BY <2>4, <4>3 DEF Touches
      <4>5. r.kind # "finish"
        BY <1>1, <1>2, <2>4, <4>3 DEF AskedInOrder
      <4> QED
        BY <3>2, <4>4, <4>5 DEF Truly
    <3> QED
      BY <1>5, <3>1, <3>2
  <2> QED
    BY <2>3, <2>4
<1>6. ASSUME NEW p \in Paths, Answered(Ask("write", p, 0)), Fitting(p)
      PROVE  Fitting(p)' \/ BlockFailed(p)'
  <2>1. p \in DOMAIN ServerDirs[1] /\ ServerDirs[1][p] \in Seq(Blocks)
    <3>1. Ask("write", p, 0) \in ServerRequests
      BY <1>6 DEF Answered, Typed, ServerTyped
    <3>2. p \in DOMAIN ServerDirs[1]
      BY <1>2, <3>1 DEF ServerRequests, HasFile, Ask, Request
    <3> QED
      BY <3>2, ServerFiles DEF Attempts
  <2>2. CASE p # q.path
    <3>1. SameAt(disk', disk, p)
      BY <1>1, <2>2
    <3> QED
      BY <1>6, <3>1 DEF Fitting, SameAt
  <2>3. CASE p = q.path
    <3>1. q.kind = "data"
      BY <1>1, <1>3, <1>4, <1>6, <2>1, <2>3
    <3>2. /\ job'[t].req = q
          /\ p \in DOMAIN disk'
          /\ \/ disk'[p] = <<>>
             \/ Past(t)' /\ (job'[t].ok => (Fitting(p) => Fitting(p)'))
      <4>1. Fitting(q.path)' <=> Fitting(p)'
        BY <2>3 DEF Fitting
      <4> QED
        BY <2>3, <3>1, <4>1 DEF Touches, Fitting
    <3>3. CASE disk'[p] = <<>>
      BY <2>1, <3>3 DEF Fitting
    <3>4. CASE Past(t)' /\ ~ job'[t].ok
      BY <2>3, <3>1, <3>2, <3>4 DEF BlockFailed
    <3> QED
      BY <1>6, <3>2, <3>3, <3>4
  <2> QED
    BY <2>2, <2>3
<1>7. ASSUME NEW p \in Paths, LeftAlone(p)
      PROVE  SameAt(disk', disk, p)
  <2>1. q.kind = "data" => Answered(Ask("write", q.path, 0))
    BY <1>1, <1>2 DEF AskedInOrder
  <2>2. q.kind = "data" => Ask("write", q.path, 0) \in srv.sent
    BY <2>1 DEF Answered
  <2>3. q.path # p
    BY <1>1, <1>7, <2>2 DEF LeftAlone, Ask, Request
  <2> QED
    BY <1>1, <1>7, <2>3
<1> QED
  BY <1>5, <1>6, <1>7

ReliedOn(r) == r.kind \in {"delete", "data", "finish"}

LEMMA ReliedSameServer ==
    ASSUME MaxAttempts = 1, Typed, HandsEmpty, AskInv, PlacesInv, SentInv, AnswersInv,
           ReliedInv, [Next]_vars, UNCHANGED srv
    PROVE  ReliedInv'
<1> SUFFICES ASSUME srv.state = "work"
             PROVE  ReliedInv'
  BY DEF ReliedInv
<1>1. ASSUME NEW r \in srv.sent, ReliedOn(r), Answered(r)
      PROVE  Truly(r, <<>>)'
  <2>1. Truly(r, <<>>)
    BY <1>1 DEF ReliedInv, ReliedOn
  <2>2. UNCHANGED disk => Truly(r, <<>>)'
    BY <2>1, TrulyStays
  <2> QED
    BY <1>1, <2>2, TouchesOthers, DiskMoves DEF ReliedOn
<1>2. ASSUME NEW p \in Paths, Answered(Ask("write", p, 0))
      PROVE  Fitting(p)' \/ BlockFailed(p)'
  <2>1. BlockFailed(p) => BlockFailed(p)'
    BY BlockFailedKept
  <2>2. Fitting(p) \/ BlockFailed(p)
    BY <1>2 DEF ReliedInv
  <2>3. UNCHANGED disk /\ Fitting(p) => Fitting(p)'
    BY DEF Fitting
  <2> QED
    BY <1>2, <2>1, <2>2, <2>3, TouchesOthers, DiskMoves
<1>3. ASSUME Answered(TheLayout), NEW p \in Paths, LeftAlone(p)
      PROVE  SameAt(srv.layout, disk', p)
  <2>1. SameAt(srv.layout, disk, p)
    BY <1>3 DEF ReliedInv
  <2>2. SameAt(disk', disk, p)
    BY <1>3, TouchesOthers, DiskMoves DEF SameAt
  <2> QED
    BY <2>1, <2>2 DEF SameAt
<1>4. /\ srv' = srv
      /\ \A r : Answered(r)' <=> Answered(r)
      /\ \A p : Ask("write", p, 0)' = Ask("write", p, 0)
      /\ \A p : LeftAlone(p)' <=> LeftAlone(p)
  BY DEF Answered, Ask, LeftAlone
<1> QED
  BY <1>1, <1>2, <1>3, <1>4 DEF ReliedInv, ReliedOn

\* What an answer makes the server rely on is true.
LEMMA ReliedAnswered ==
    ASSUME MaxAttempts = 1, Typed, AskInv, PlacesInv, SentInv, AnswersInv,
           ReliedInv, [Next]_vars, SendQueuedMessages, queueSend # <<>>, Connected,
           srv'.state = "work"
    PROVE  ReliedInv'
<1> PICK m : m = Head(queueSend)
  OBVIOUS
<1>1. srv' = AnswerReceived(m) /\ UNCHANGED <<disk, threads>>
  BY DEF SendQueuedMessages
<1>2. /\ srv'.attempt = srv.attempt /\ srv'.sent = srv.sent
      /\ srv'.open = srv.open \ Matching(m)
      /\ srv'.state = srv.state \/ (srv'.state = "failed" /\ Matching(m) # {})
      /\ Matching(m) # {} /\ ~ m.ok /\ m.req.kind # "hashes" => srv'.state = "failed"
      /\ srv'.layout = srv.layout \/ (m.req.kind = "layout" /\ Matching(m) # {})
  BY <1>1, AnswerEffect DEF Typed
<1>3. srv.state = "work" /\ srv.attempt = 1
  BY <1>2 DEF AskInv
<1>4. /\ m.req \in ServerRequests
      /\ m.req = TheLayout => m.body = disk
      /\ m.req.kind \in Kinds /\ m.ok => Truly(m.req, m.body)
  <2>1. 1 \in DOMAIN queueSend /\ m = queueSend[1]
    BY DEF Typed, QueuesTyped
  <2> QED
    BY <2>1 DEF AnswersInv
<1>5. ASSUME NEW r \in srv.sent, Answered(r)'
      PROVE  \/ Answered(r)
             \/ r = m.req /\ (r.kind # "hashes" => m.ok) /\ Matching(m) # {}
  <2>1. CASE r \in srv.open
    <3>1. r \in Matching(m)
      BY <1>2, <1>5, <2>1 DEF Answered
    <3>2. r = m.req
      BY <1>4, <3>1, OneAttempt DEF Matching, Typed, ServerTyped
    <3> QED
      BY <1>2, <3>1, <3>2
  <2>2. CASE r \notin srv.open
    BY <2>2 DEF Answered
  <2> QED
    BY <2>1, <2>2
<1>6. ASSUME NEW r \in srv.sent, ReliedOn(r), Answered(r)'
      PROVE  Truly(r, <<>>)'
  <2>1. CASE Answered(r)
    BY <1>1, <1>3, <1>6, <2>1, TrulyStays DEF ReliedInv, ReliedOn
  <2>2. CASE r = m.req /\ m.ok
    <3>1. Truly(r, m.body)
      BY <1>4, <1>6, <2>2 DEF ReliedOn, Kinds
    <3>2. Truly(r, <<>>)
      BY <1>6, <3>1 DEF Truly, ReliedOn
    <3> QED
      BY <1>1, <3>2, TrulyStays
  <2> QED
    BY <1>5, <1>6, <2>1, <2>2 DEF ReliedOn
<1>7. ASSUME NEW p \in Paths, Answered(Ask("write", p, 0))'
      PROVE  Fitting(p)' \/ BlockFailed(p)'
  <2> PICK w : w = Ask("write", p, 0)
    OBVIOUS
  <2>1. w.kind = "write" /\ w.path = p /\ Ask("write", p, 0)' = w
    BY <1>2 DEF Ask, Request
  <2>2. Answered(w)' /\ w \in srv.sent
    BY <1>2, <1>7, <2>1 DEF Answered
  <2>3. BlockFailed(p) => BlockFailed(p)'
    BY <1>3, BlockFailedKept
  <2>4. Fitting(p) => Fitting(p)'
    BY <1>1 DEF Fitting
  <2>5. CASE Answered(w)
    BY <1>3, <2>3, <2>4, <2>5 DEF ReliedInv
  <2>6. CASE w = m.req /\ m.ok
    BY <1>4, <2>1, <2>4, <2>6 DEF Truly, Kinds
  <2> QED
    BY <1>5, <2>1, <2>2, <2>5, <2>6
<1>8. ASSUME Answered(TheLayout)', NEW p \in Paths, LeftAlone(p)'
      PROVE  SameAt(srv'.layout, disk', p)
  <2>1. LeftAlone(p)
    BY <1>2, <1>8 DEF LeftAlone
  <2>2. TheLayout \in srv.sent /\ TheLayout.kind = "layout"
    BY <1>2, <1>8, TheLayoutIs DEF Answered
  <2>3. CASE Answered(TheLayout)
    <3>1. srv'.layout = srv.layout
      <4>1. ASSUME m.req.kind = "layout", NEW r \in Matching(m)
            PROVE  FALSE
        <5>1. r \in srv.open /\ r \in ServerRequests /\ r.kind = "layout"
          BY <4>1 DEF Matching, Typed, ServerTyped
        <5>2. r = TheLayout
          BY <5>1, TheLayoutIs
        <5> QED
          BY <2>3, <5>1, <5>2 DEF Answered
      <4> QED
        BY <1>2, <4>1
    <3>2. SameAt(srv.layout, disk, p)
      BY <1>3, <2>1, <2>3 DEF ReliedInv
    <3> QED
      BY <1>1, <3>1, <3>2
  <2>4. CASE TheLayout = m.req /\ Matching(m) # {}
    <3>1. srv'.layout = m.body
      BY <1>1, <2>2, <2>4 DEF AnswerReceived, Matching, Typed, ServerTyped, NewServer
    <3> QED
      BY <1>1, <1>4, <2>4, <3>1 DEF SameAt
  <2> QED
    BY <1>5, <1>8, <2>2, <2>3, <2>4
<1> QED
  BY <1>2, <1>6, <1>7, <1>8 DEF ReliedInv, ReliedOn

LEMMA ReliedAsked ==
    ASSUME MaxAttempts = 1, Typed, AskInv, ReliedInv, MessageReceived, NEW r, Asks(r)
    PROVE  ReliedInv'
<1>1. UNCHANGED <<disk, threads, queueSend>> /\ srv.state = "work"
  BY DEF MessageReceived, Asks
<1>2. /\ srv'.attempt = srv.attempt /\ srv'.layout = srv.layout
      /\ srv'.sent = srv.sent \cup {r} /\ srv'.open = srv.open \cup {r}
  BY DEF Asks
<1>3. \A x : Answered(x)' => Answered(x)
  BY <1>2 DEF Answered
<1>4. /\ \A p : Ask("write", p, 0)' = Ask("write", p, 0)
      /\ \A p : LeftAlone(p)' => LeftAlone(p)
      /\ \A p : BlockFailed(p) => BlockFailed(p)'
      /\ \A p : Fitting(p) => Fitting(p)'
      /\ \A x : Truly(x, <<>>) => Truly(x, <<>>)'
  BY <1>1, <1>2 DEF Ask, LeftAlone, BlockFailed, Past, Busy, Fitting, Truly, threads
<1>5. ASSUME NEW x \in srv'.sent, ReliedOn(x), Answered(x)'
      PROVE  Truly(x, <<>>)'
  <2>1. Answered(x) /\ x \in srv.sent
    BY <1>3, <1>5 DEF Answered
  <2> QED
    BY <1>1, <1>4, <1>5, <2>1 DEF ReliedInv, ReliedOn
<1>6. ASSUME NEW p \in Paths, Answered(Ask("write", p, 0))'
      PROVE  Fitting(p)' \/ BlockFailed(p)'
  <2>1. Answered(Ask("write", p, 0))
    BY <1>2, <1>6 DEF Answered, Ask
  <2> QED
    BY <1>1, <1>4, <2>1 DEF ReliedInv
<1>7. ASSUME Answered(TheLayout)', NEW p \in Paths, LeftAlone(p)'
      PROVE  SameAt(srv'.layout, disk', p)
  BY <1>1, <1>2, <1>3, <1>4, <1>7 DEF ReliedInv
<1> QED
  BY <1>5, <1>6, <1>7 DEF ReliedInv, ReliedOn

LEMMA ReliedInvKept ==
    ASSUME MaxAttempts = 1, Typed, HandsEmpty, AskInv, PlacesInv, SentInv, AnswersInv,
           ReliedInv, [Next]_vars
    PROVE  ReliedInv'
<1>1. CASE UNCHANGED srv
  BY <1>1, ReliedSameServer
<1>2. CASE ConnectTo \/ Disconnect \/ ConnectionClosed
  <2>1. ConnectTo => UNCHANGED srv
    BY DEF ConnectTo
  <2>2. Disconnect \/ ConnectionClosed => srv'.state = "idle"
    BY CloseResets
  <2> QED
    BY <1>1, <1>2, <2>1, <2>2 DEF ReliedInv
<1>3. CASE SendQueuedMessages
  <2>1. UNCHANGED srv \/ (queueSend # <<>> /\ Connected)
    BY <1>3 DEF SendQueuedMessages
  <2> QED
    BY <1>1, <1>3, <2>1, ReliedAnswered DEF ReliedInv
<1>4. CASE NetworkStep
  <2>1. CASE ConnectionEstablished \/ MessageReceivedConnect
    BY <1>1, <2>1 DEF ConnectionEstablished, MessageReceivedConnect
  <2>2. CASE MessageReceived /\ SendRequest
    BY <2>2, SendsOne, ReliedAsked DEF Typed
  <2>3. CASE MessageReceived /\ BeginAttempt
    <3>1. srv'.sent = {LayoutRequest(1)} /\ srv'.open = {LayoutRequest(1)}
      BY <2>3, BeginsOne DEF Typed
    <3>2. \A r : ~ Answered(r)'
      BY <3>1 DEF Answered
    <3>3. ~ Answered(TheLayout)' /\ \A p : ~ Answered(Ask("write", p, 0))'
      BY <3>1 DEF Answered
    <3> QED
      BY <3>2, <3>3 DEF ReliedInv
  <2> QED
    BY <1>4, <2>1, <2>2, <2>3 DEF NetworkStep, MessageReceived
<1> QED
  BY <1>1, <1>2, <1>3, <1>4, ServerLeftAlone

-------------------------------------------------------------------------------
(* Together *)

TruthInv ==
    /\ SentInv /\ ClosedInv /\ LayoutInv /\ StatusInv /\ KnownInv /\ ClaimsInv /\ ReliedInv

LEMMA InitTruth ==
    ASSUME MaxAttempts = 1, Init
    PROVE  TruthInv
<1>1. /\ queueReceived = <<>> /\ pending = <<>> /\ queueSend = <<>>
      /\ layout = None /\ nextLayout = None /\ ~ dirty /\ ~ pendingRequest
      /\ DOMAIN writeTasks = {}
      /\ srv.state = "idle" /\ srv.attempt = None
      /\ pc[Main] = "layout"
      /\ \A t \in Procs : pc[t] = "off"
      /\ \A t \in Threads : job[t].req = NoRequest
      /\ \A p \in Paths : StatusOf(p) = "none"
  BY ThreadsAssumption DEF Init, Threads, NewServer, NoJob, None, StatusOf, Attempts
<1>2. \A r : ~ Has(queueReceived, r) /\ ~ Has(pending, r) /\ ~ HasAnswer(queueSend, r)
  BY <1>1 DEF Has, HasAnswer
<1>3. \A r \in ServerRequests : ~ Held(r)
  <2>1. \A r \in ServerRequests : r.kind # "none"
    BY RequestFields DEF Kinds
  <2> QED
    BY <1>1, <2>1 DEF Held, NoRequest, Request
<1>4. \A r \in ServerRequests : ~ Somewhere(r) /\ NotTwice(r)
  BY <1>1, <1>2, <1>3
     DEF Somewhere, NotTwice, AtMostOne, AtMostOneAnswer, HeldOnce, Held
<1>5. \A t \in Procs : ~ Busy(t) /\ ~ Past(t)
  BY <1>1 DEF Busy, Past
<1>6. SentInv /\ ClosedInv /\ ReliedInv
  BY <1>1 DEF SentInv, ClosedInv, Live, ReliedInv
<1>7. LayoutInv
  <2>1. TheLayout \in ServerRequests
    BY TheLayoutIs
  <2>2. ~ Building /\ ~ LayoutDue
    BY <1>1, <1>2, <1>3, <2>1 DEF Building, LayoutDue, LayoutAsked, LayoutTold
  <2> QED
    BY <1>1, <1>4, <2>1, <2>2
       DEF LayoutInv, LayoutOnce, LayoutSlots, LayoutFirst, LayoutAsked, LayoutDue
<1>8. StatusInv
  BY <1>1, <1>2, <1>3 DEF StatusInv, Waiting, FileRequest
<1>9. KnownInv
  BY <1>1
     DEF KnownInv, BuiltTruly, KnownOrUnsettled, KnownUntilWritten, PutBackTruly,
         ForgottenInTheLayout, None
<1>10. ClaimsInv
  <2>1. AnswersInv
    BY <1>1 DEF AnswersInv
  <2>2. HandsInv
    BY <1>1, <1>5 DEF HandsInv, HandTrue
  <2>3. WaitingInv
    BY <1>4, WaitsSomewhere DEF WaitingInv, FileRequest
  <2> QED
    BY <2>1, <2>2, <2>3 DEF ClaimsInv
<1> QED
  BY <1>6, <1>7, <1>8, <1>9, <1>10 DEF TruthInv

LEMMA TruthInOrder ==
    ASSUME MaxAttempts = 1, Typed, RequestsInv, TruthInv
    PROVE  InOrder
BY LiveInOrder DEF TruthInv, ClosedInv, RequestsInv

LEMMA TruthKept ==
    ASSUME MaxAttempts = 1, "cut" \notin Faults, Typed, RequestsInv, TruthInv, [Next]_vars
    PROVE  TruthInv'
<1>1. InOrder
  BY TruthInOrder
<1>2. /\ HandsEmpty /\ AskInv /\ PlacesInv
      /\ SentInv /\ ClosedInv /\ LayoutInv /\ StatusInv /\ KnownInv /\ ClaimsInv /\ ReliedInv
      /\ HandsInv /\ AnswersInv
  BY DEF RequestsInv, TruthInv, ClaimsInv
<1>3. SentInv' /\ ClosedInv'
  BY <1>1, <1>2, SentInvKept, ClosedInvKept
<1>4. LayoutInv' /\ StatusInv'
  BY <1>1, <1>2, LayoutInvKept, StatusInvKept
<1>5. KnownInv'
  BY <1>1, <1>2, KnownInvKept
<1>6. ClaimsInv'
  BY <1>1, <1>2, ClaimsInvKept
<1>7. ReliedInv'
  BY <1>1, <1>2, ReliedInvKept
<1> QED
  BY <1>3, <1>4, <1>5, <1>6, <1>7 DEF TruthInv

\* The invariant of every behaviour.
LEMMA TruthAlways ==
    ASSUME MaxAttempts = 1, "cut" \notin Faults
    PROVE  Spec => [](Typed /\ RequestsInv /\ TruthInv)
<1> DEFINE I == Typed /\ RequestsInv /\ TruthInv
<1>1. Init => I
  BY InitTyped, InitRequests, InitTruth
<1>2. I /\ [Next]_vars => I'
  <2> SUFFICES ASSUME Typed, RequestsInv, TruthInv, [Next]_vars
               PROVE  Typed' /\ RequestsInv' /\ TruthInv'
    OBVIOUS
  <2>1. Typed'
    BY NextTyped
  <2>2. RequestsInv'
    BY HandsEmptyKept, AskInvKept, PlacesInvKept, WriteInvKept DEF RequestsInv
  <2>3. TruthInv'
    BY TruthKept
  <2> QED
    BY <2>1, <2>2, <2>3
<1> HIDE DEF I
<1>3. Spec => []I
  BY <1>1, <1>2, PTL DEF Spec
<1> QED
  BY <1>3 DEF I

LEMMA TruthOfLayout ==
    ASSUME MaxAttempts = 1, Typed, TruthInv
    PROVE  LayoutTrue
<1> SUFFICES ASSUME layout # None, ~ dirty, NEW p \in Paths, Settled(p)
             PROVE  SameAt(content[layout], disk, p)
  BY DEF LayoutTrue
<1>1. layout = 1 /\ nextLayout = 1
  BY DEF TruthInv, LayoutInv, LayoutSlots, Typed, LayoutsTyped, None
<1>2. ~ Unsettled(p)
  <2>1. ~ Has(pending, Request("finish", 1, p, 0))
    BY DEF Settled, Has, Range, Request
  <2> QED
    BY <2>1, ThreadsAssumption DEF Settled, Unsettled
<1> QED
  BY <1>1, <1>2 DEF TruthInv, KnownInv, KnownOrUnsettled

LEMMA TruthOfAnswers ==
    ASSUME MaxAttempts = 1, TruthInv
    PROVE  AnswersTrue
<1> SUFFICES ASSUME NEW i \in DOMAIN queueSend, NEW m, m = queueSend[i], m.ok
             PROVE  CASE m.req.kind = "layout" -> m.body = disk
                      [] m.req.kind = "hashes" ->
                            m.req.path \in DOMAIN disk /\ m.body = disk[m.req.path]
                      [] m.req.kind = "delete" -> m.req.path \notin DOMAIN disk
                      [] m.req.kind = "write" ->
                            m.req.path \in DOMAIN disk =>
                               Len(disk[m.req.path]) <= SizeToWrite(m.req)
                      [] m.req.kind = "finish" ->
                            /\ m.req.path \in DOMAIN disk
                            /\ disk[m.req.path] = ServerDirs[m.req.at][m.req.path]
                      [] OTHER -> TRUE
  BY DEF AnswersTrue
<1>1. /\ m.req \in ServerRequests
      /\ m.req = TheLayout => m.body = disk
      /\ m.req.kind \in Kinds => Truly(m.req, m.body)
  BY DEF TruthInv, ClaimsInv, AnswersInv
<1>2. m.req.at = 1 /\ (m.req.kind = "layout" => m.req = TheLayout)
  BY <1>1, OneAttempt, TheLayoutIs
<1> QED
  BY <1>1, <1>2 DEF Truly, Fitting, SizeToWrite, Kinds

LEMMA TruthAtTheEnd ==
    ASSUME MaxAttempts = 1, Typed, RequestsInv, TruthInv
    PROVE  SynchronizedTruly
<1> SUFFICES ASSUME srv.state = "work", Finished, NEW p \in Paths
             PROVE  SameAt(disk, SyncedDir, p)
  BY DEF SynchronizedTruly, SameDir
<1>1. srv.attempt = 1 /\ SyncedDir = ServerDirs[1]
  BY DEF RequestsInv, AskInv, SyncedDir
<1>2. Answered(TheLayout) /\ Answered(LayoutRequest(srv.attempt))
  BY <1>1 DEF Finished, TheLayout
<1>3. \A r \in WantedRequests : Answered(r) /\ r \in srv.sent
  BY DEF Finished, Answered
<1>4. \A r \in HashRequests : Answered(r)
  BY <1>2, <1>3 DEF WantedRequests
<1>5. /\ \A r \in srv.sent :
            r.kind \in {"delete", "data", "finish"} /\ Answered(r) => Truly(r, <<>>)
      /\ LeftAlone(p) => SameAt(srv.layout, disk, p)
  BY <1>2 DEF TruthInv, ReliedInv
<1>6. CASE p \in DeletePaths
  <2> DEFINE r == Ask("delete", p, 0)
  <2>1. r \in WantedRequests
    BY <1>2, <1>4, <1>6 DEF WantedRequests
  <2>2. Answered(r) /\ r \in srv.sent
    BY <1>3, <2>1
  <2>3. r.kind = "delete" /\ r.path = p
    BY DEF Ask, Request
  <2>4. Truly(r, <<>>)
    BY <1>5, <2>2, <2>3
  <2> QED
    BY <1>6, <2>3, <2>4 DEF Truly, DeletePaths, SameAt
<1>7. CASE p \in WritePaths
  <2> DEFINE w == Ask("write", p, 0)
             r == Ask("finish", p, 0)
  <2>0. \A x \in FileRequests(p) : x \in WantedRequests
    BY <1>2, <1>4, <1>7 DEF WantedRequests
  <2>1. Answered(w)
    BY <1>3, <2>0 DEF FileRequests
  <2>2. \A d \in DataRequests(p) : Answered(d)
    BY <1>3, <2>0, <2>1 DEF FileRequests
  <2>3. r \in WantedRequests
    BY <2>0, <2>1, <2>2 DEF FileRequests
  <2>4. Answered(r) /\ r \in srv.sent
    BY <1>3, <2>3
  <2>5. r.kind = "finish" /\ r.path = p
    BY DEF Ask, Request
  <2>6. Truly(r, <<>>)
    BY <1>5, <2>4, <2>5
  <2>7. p \in DOMAIN SyncedDir
    BY <1>7 DEF WritePaths
  <2> QED
    BY <1>1, <2>5, <2>6, <2>7 DEF Truly, SameAt
<1>8. CASE p \notin DeletePaths /\ p \notin WritePaths
  <2>1. LeftAlone(p)
    BY <1>8 DEF LeftAlone, TruthInv, SentInv
  <2>2. SameAt(srv.layout, disk, p)
    BY <1>5, <2>1
  <2>3. SameAt(srv.layout, SyncedDir, p)
    BY <1>8 DEF DeletePaths, WritePaths, SameAt
  <2> QED
    BY <2>2, <2>3 DEF SameAt
<1> QED
  BY <1>6, <1>7, <1>8

(* In an attempt, whatever fails and however many processors there are, the layout
   that is not marked dirty says of every file no task is about what is on the disk:
   UpdateLayoutChanged(), the tasks that add and remove files and the fault paths of
   derlTaskProcessorLauncherClient keep them together.  A processor is not stopped
   in the middle of listing the files. *)
THEOREM LayoutIsTrue ==
    ASSUME MaxAttempts = 1, "cut" \notin Faults
    PROVE  Spec => []LayoutTrue
<1>1. Typed /\ RequestsInv /\ TruthInv => LayoutTrue
  BY TruthOfLayout
<1> QED
  BY <1>1, TruthAlways, PTL

(* In an attempt, under the same conditions, every answer reporting success that
   waits in pQueueSend is true of the disk as it is now: no later task takes back what
   an answer says before the server has it. *)
THEOREM AnswersAreTrue ==
    ASSUME MaxAttempts = 1, "cut" \notin Faults
    PROVE  Spec => []AnswersTrue
<1>1. Typed /\ RequestsInv /\ TruthInv => AnswersTrue
  BY TruthOfAnswers
<1> QED
  BY <1>1, TruthAlways, PTL

(* An attempt at whose end everything is answered and nothing failed leaves the
   server's files below the data directory: however the processors interleave, the
   blocks of a file are written before it is finished, no file is finished with
   more than the server has, and nothing else is touched. *)
THEOREM EndsSynchronized ==
    ASSUME MaxAttempts = 1, "cut" \notin Faults
    PROVE  Spec => []SynchronizedTruly
<1>1. Typed /\ RequestsInv /\ TruthInv => SynchronizedTruly
  BY TruthAtTheEnd
<1> QED
  BY <1>1, TruthAlways, PTL
===============================================================================
