--------------------------- MODULE RemoteClientProofs --------------------------
(***************************************************************************)
(* Theorems about RemoteClient, for every set of processors, paths and     *)
(* contents, every limit and any number of synchronisations.               *)
(***************************************************************************)
EXTENDS RemoteClient, SequenceFacts, FiniteSetTheorems

-------------------------------------------------------------------------------
(* Sync tasks stay well formed *)

LEMMA WithoutProperties ==
    ASSUME NEW f, NEW x
    PROVE  /\ DOMAIN Without(f, x) = DOMAIN f \ {x}
           /\ \A y \in DOMAIN f \ {x} : Without(f, x)[y] = f[y]
           /\ \A D, R : IsMap(f, D, R) => IsMap(Without(f, x), D, R)
BY DEF Without, Restrict, IsMap

LEMMA ServerDirProperties ==
    /\ DOMAIN ServerDir \subseteq Paths
    /\ \A p \in DOMAIN ServerDir :
          /\ ServerDir[p] \in Seq(Blocks)
          /\ BlockCount(ServerDir[p]) \in Nat
          /\ ServerDir[p] # <<>> =>
                \A i \in ServerBlocks(p) : ServerDir[p][i] \in Blocks
          /\ ServerBlocks(p) \subseteq Nat
          /\ IsFiniteSet(ServerBlocks(p))
<1>1. DOMAIN ServerDir \subseteq Paths
  BY DirsAssumption DEF IsDir, IsMap
<1>2. ASSUME NEW p \in DOMAIN ServerDir
      PROVE  /\ ServerDir[p] \in Seq(Blocks)
             /\ BlockCount(ServerDir[p]) \in Nat
             /\ ServerDir[p] # <<>> =>
                   \A i \in ServerBlocks(p) : ServerDir[p][i] \in Blocks
             /\ ServerBlocks(p) \subseteq Nat
             /\ IsFiniteSet(ServerBlocks(p))
  <2>1. ServerDir[p] \in Seq(Blocks)
    BY DirsAssumption DEF IsDir, IsMap
  <2>2. Len(ServerDir[p]) \in Nat
    BY <2>1, LenProperties
  <2>3. BlockCount(ServerDir[p]) \in Nat
    BY <2>2 DEF BlockCount
  <2>4. ServerDir[p] # <<>> => \A i \in ServerBlocks(p) : ServerDir[p][i] \in Blocks
    BY <2>1, ElementOfSeq DEF ServerBlocks, BlockCount
  <2>5. IsFiniteSet(ServerBlocks(p))
    BY <2>3, FS_Interval DEF ServerBlocks
  <2> QED
    BY <2>1, <2>3, <2>4, <2>5 DEF ServerBlocks
<1> QED
  BY <1>1, <1>2

LEMMA SetTask ==
    ASSUME TasksTypeOK, NEW s \in Syncs, NEW tk, IsSyncTask(tk),
           task' = [task EXCEPT ![s] = tk]
    PROVE  TasksTypeOK'
BY DEF TasksTypeOK, IsSyncTask, IsWriteTask, IsMap

\* One field of a sync task is set.
LEMMA SetField ==
    ASSUME NEW tk, IsSyncTask(tk)
    PROVE  /\ \A v \in TaskStatus : IsSyncTask([tk EXCEPT !.status = v])
           /\ \A v \in SUBSET {"server", "client"} : IsSyncTask([tk EXCEPT !.want = v])
           /\ \A v \in SUBSET Paths : IsSyncTask([tk EXCEPT !.hashes = v])
           /\ \A v \in SUBSET Paths : IsSyncTask([tk EXCEPT !.deletes = v])
           /\ \A v : IsMap(v, Paths, [data : Seq(Blocks), hashes : Seq(Blocks)])
                        => IsSyncTask([tk EXCEPT !.layout = v])
           /\ \A v : DOMAIN v \subseteq DOMAIN ServerDir
                       /\ (\A p \in DOMAIN v : IsWriteTask(v[p], p))
                        => IsSyncTask([tk EXCEPT !.writes = v])
<1>1. DOMAIN tk = {"status", "want", "layout", "hashes", "deletes", "writes"}
  BY DEF IsSyncTask, NewTask
<1>2. \A v \in TaskStatus : IsSyncTask([tk EXCEPT !.status = v])
  BY <1>1 DEF IsSyncTask
<1>3. \A v \in SUBSET {"server", "client"} : IsSyncTask([tk EXCEPT !.want = v])
  BY <1>1 DEF IsSyncTask
<1>4. \A v \in SUBSET Paths : IsSyncTask([tk EXCEPT !.hashes = v])
  BY <1>1 DEF IsSyncTask
<1>5. \A v \in SUBSET Paths : IsSyncTask([tk EXCEPT !.deletes = v])
  BY <1>1 DEF IsSyncTask
<1>6. \A v : IsMap(v, Paths, [data : Seq(Blocks), hashes : Seq(Blocks)])
                => IsSyncTask([tk EXCEPT !.layout = v])
  BY <1>1 DEF IsSyncTask
<1>7. ASSUME NEW v, DOMAIN v \subseteq DOMAIN ServerDir,
             \A p \in DOMAIN v : IsWriteTask(v[p], p)
      PROVE  IsSyncTask([tk EXCEPT !.writes = v])
  BY <1>1, <1>7 DEF IsSyncTask
<1> QED
  BY Zenon, <1>2, <1>3, <1>4, <1>5, <1>6, <1>7

\* One write task of a sync task is set.
LEMMA SetWriteTask ==
    ASSUME NEW tk, IsSyncTask(tk), NEW p \in DOMAIN tk.writes, NEW w, IsWriteTask(w, p)
    PROVE  IsSyncTask([tk EXCEPT !.writes = [tk.writes EXCEPT ![p] = w]])
<1>1. IsWriteTask(tk.writes[p], p)
  BY DEF IsSyncTask
<1> QED
  BY <1>1, SetField DEF IsSyncTask

-------------------------------------------------------------------------------
(* Parts of the state a step leaves alone, and the ways a thread moves *)

LEMMA PartsUnchanged ==
    ASSUME TypeOK
    PROVE  /\ UNCHANGED client => ClientTypeOK'
           /\ UNCHANGED task => TasksTypeOK'
           /\ UNCHANGED counts => LimitsKept'
           /\ UNCHANGED <<pending, queues, wire>> => QueuesTypeOK'
           /\ UNCHANGED threads => ThreadsTypeOK' /\ ArgsTypeOK'
           /\ UNCHANGED files => IsDir(files)'
<1>1. UNCHANGED client => ClientTypeOK'
  BY DEF TypeOK, ClientTypeOK, client
<1>2. UNCHANGED task => TasksTypeOK'
  BY DEF TypeOK, TasksTypeOK
<1>3. UNCHANGED counts => LimitsKept'
  BY DEF TypeOK, LimitsKept, counts
<1>4. UNCHANGED <<pending, queues, wire>> => QueuesTypeOK'
  BY DEF TypeOK, QueuesTypeOK, queues
<1>5. UNCHANGED threads => ThreadsTypeOK'
  BY DEF TypeOK, ThreadsTypeOK, threads
<1>6. UNCHANGED threads => ArgsTypeOK'
  BY DEF TypeOK, ArgsTypeOK, threads
<1> QED
  BY <1>1, <1>2, <1>3, <1>4, <1>5, <1>6 DEF TypeOK

\* Places where a thread needs neither a message nor a task nor a layout.
FreePC(t) ==
    IF t = Main THEN {"idle", "checkHashes", "enqueue", "checkWrite"} \cup SharedPC
                ELSE {"idle", "building", "secondTest", "prepareHashing",
                      "prepareWriting", "blockRead"} \cup SharedPC

LEMMA ReturnTyped ==
    ASSUME TypeOK, NEW t \in Threads, Return(t)
    PROVE  ThreadsTypeOK' /\ ArgsTypeOK'
<1> USE ThreadsAssumption
<1>1. ThreadsTypeOK'
  BY LimitsAssumption
     DEF TypeOK, ThreadsTypeOK, Return, Goto, Threads, MainPC, ProcPC, SharedPC, None
<1>2. ArgsTypeOK'
  BY DEF TypeOK, ThreadsTypeOK, ArgsTypeOK, Return, Goto, Threads
<1> QED
  BY <1>1, <1>2

LEMMA MoveTyped ==
    ASSUME TypeOK, NEW t \in Threads, NEW to \in FreePC(t), Goto(t, to),
           NEW s \in Syncs, sync' = [sync EXCEPT ![t] = s], UNCHANGED <<todo, arg>>
    PROVE  ThreadsTypeOK' /\ ArgsTypeOK'
<1> USE ThreadsAssumption
<1>1. ThreadsTypeOK'
  BY DEF TypeOK, ThreadsTypeOK, FreePC, Goto, Threads, MainPC, ProcPC, SharedPC, None,
         Syncs
<1>2. ArgsTypeOK'
  BY DEF TypeOK, ThreadsTypeOK, ArgsTypeOK, FreePC, Goto, Threads, SharedPC
<1> QED
  BY <1>1, <1>2

LEMMA ContinueTyped ==
    ASSUME TypeOK, NEW t \in Threads, pc[t] # "idle", NEW to \in FreePC(t),
           Continue(t, to)
    PROVE  ThreadsTypeOK' /\ ArgsTypeOK'
<1>1. sync[t] \in Syncs /\ sync' = [sync EXCEPT ![t] = sync[t]]
  BY LimitsAssumption DEF TypeOK, ThreadsTypeOK, Continue, None, Syncs
<1> QED
  BY Zenon, <1>1, MoveTyped DEF Continue

LEMMA SyncOfBusyThread ==
    ASSUME TypeOK, NEW t \in Threads, pc[t] # "idle"
    PROVE  sync[t] \in Syncs /\ IsSyncTask(task[sync[t]])
BY LimitsAssumption DEF TypeOK, ThreadsTypeOK, TasksTypeOK, None, Syncs

\* One field of one sync task is set, and nothing else of the tasks.
LEMMA SetFieldOfTask ==
    ASSUME TypeOK, NEW s \in Syncs
    PROVE  /\ \A v \in TaskStatus : task' = [task EXCEPT ![s].status = v] => TasksTypeOK'
           /\ \A v \in SUBSET {"server", "client"} :
                 task' = [task EXCEPT ![s].want = v] => TasksTypeOK'
           /\ \A v \in SUBSET Paths : task' = [task EXCEPT ![s].hashes = v] => TasksTypeOK'
           /\ \A v \in SUBSET Paths : task' = [task EXCEPT ![s].deletes = v] => TasksTypeOK'
<1>1. TasksTypeOK /\ IsSyncTask(task[s])
  BY DEF TypeOK, TasksTypeOK
<1>2. ASSUME NEW v \in TaskStatus, task' = [task EXCEPT ![s].status = v]
      PROVE  TasksTypeOK'
  <2> DEFINE tk == [task[s] EXCEPT !.status = v]
  <2>1. IsSyncTask(tk) /\ task' = [task EXCEPT ![s] = tk]
    BY <1>1, <1>2, SetField
  <2> QED
    BY Zenon, <1>1, <2>1, SetTask
<1>3. ASSUME NEW v \in SUBSET {"server", "client"}, task' = [task EXCEPT ![s].want = v]
      PROVE  TasksTypeOK'
  <2> DEFINE tk == [task[s] EXCEPT !.want = v]
  <2>1. IsSyncTask(tk) /\ task' = [task EXCEPT ![s] = tk]
    BY Zenon, <1>1, <1>3, SetField
  <2> QED
    BY Zenon, <1>1, <2>1, SetTask
<1>4. ASSUME NEW v \in SUBSET Paths, task' = [task EXCEPT ![s].hashes = v]
      PROVE  TasksTypeOK'
  <2> DEFINE tk == [task[s] EXCEPT !.hashes = v]
  <2>1. IsSyncTask(tk) /\ task' = [task EXCEPT ![s] = tk]
    BY Zenon, <1>1, <1>4, SetField
  <2> QED
    BY Zenon, <1>1, <2>1, SetTask
<1>5. ASSUME NEW v \in SUBSET Paths, task' = [task EXCEPT ![s].deletes = v]
      PROVE  TasksTypeOK'
  <2> DEFINE tk == [task[s] EXCEPT !.deletes = v]
  <2>1. IsSyncTask(tk) /\ task' = [task EXCEPT ![s] = tk]
    BY Zenon, <1>1, <1>5, SetField
  <2> QED
    BY Zenon, <1>1, <2>1, SetTask
<1> QED
  BY <1>2, <1>3, <1>4, <1>5

\* One write task is replaced, or its status or its blocks are.
LEMMA SetWriteOfTask ==
    ASSUME TypeOK, NEW s \in Syncs, NEW p \in DOMAIN task[s].writes
    PROVE  /\ \A v \in FileStatus :
                 task' = [task EXCEPT ![s].writes[p].status = v] => TasksTypeOK'
           /\ \A v : /\ IsMap(v, ServerBlocks(p), BlockStatus)
                     /\ task' = [task EXCEPT ![s].writes[p].blocks = v]
                     => TasksTypeOK'
<1> DEFINE w == task[s].writes[p]
<1>1. TasksTypeOK /\ IsSyncTask(task[s]) /\ IsWriteTask(w, p)
  BY Zenon DEF TypeOK, TasksTypeOK, IsSyncTask
<1>2. ASSUME NEW v, IsWriteTask(v, p), task' = [task EXCEPT ![s].writes[p] = v]
      PROVE  TasksTypeOK'
  <2> DEFINE tk == [task[s] EXCEPT !.writes = [task[s].writes EXCEPT ![p] = v]]
  <2>1. IsSyncTask(tk) /\ task' = [task EXCEPT ![s] = tk]
    BY <1>1, <1>2, SetWriteTask
  <2> QED
    BY Zenon, <1>1, <2>1, SetTask
<1>3. ASSUME NEW v \in FileStatus, task' = [task EXCEPT ![s].writes[p].status = v]
      PROVE  TasksTypeOK'
  <2>1. IsWriteTask([w EXCEPT !.status = v], p)
    BY <1>1 DEF IsWriteTask
  <2> QED
    BY Zenon, <1>2, <1>3, <2>1
<1>4. ASSUME NEW v, IsMap(v, ServerBlocks(p), BlockStatus),
             task' = [task EXCEPT ![s].writes[p].blocks = v]
      PROVE  TasksTypeOK'
  <2>1. IsWriteTask([w EXCEPT !.blocks = v], p)
    BY <1>1, <1>4 DEF IsWriteTask
  <2> QED
    BY Zenon, <1>2, <1>4, <2>1
<1> QED
  BY <1>3, <1>4

-------------------------------------------------------------------------------
(* Type correctness: one step for every action *)

LEMMA InitTypeOK == Init => TypeOK
<1> SUFFICES ASSUME Init PROVE TypeOK
  OBVIOUS
<1> USE LimitsAssumption, ThreadsAssumption
<1>1. ClientTypeOK
  BY DEF Init, ClientTypeOK, None
<1>2. TasksTypeOK
  <2>1. IsSyncTask(NewTask)
    BY DEF IsSyncTask, NewTask, IsMap, TaskStatus
  <2> QED
    BY <2>1 DEF Init, TasksTypeOK
<1>3. LimitsKept
  BY DEF Init, LimitsKept
<1>4. QueuesTypeOK
  BY EmptySeq DEF Init, QueuesTypeOK, Range
<1>5. ThreadsTypeOK
  BY DEF Init, ThreadsTypeOK, MainPC, ProcPC, SharedPC, Threads, None
<1>6. ArgsTypeOK
  BY DEF Init, ArgsTypeOK, Threads
<1>7. IsDir(files)
  BY DirsAssumption DEF Init
<1> QED
  BY <1>1, <1>2, <1>3, <1>4, <1>5, <1>6, <1>7 DEF TypeOK

LEMMA QueueMembers ==
    ASSUME NEW s \in Syncs
    PROVE  /\ LayoutTask(s) \in PendingTasks
           /\ SyncTask(s) \in PendingTasks
           /\ LayoutRequest(s) \in Requests
           /\ \A k \in {"hashes", "delete", "write", "finish"}, p \in Paths :
                 PathRequest(k, s, p) \in Requests
           /\ \A p \in DOMAIN ServerDir : \A i \in ServerBlocks(p) :
                 DataRequest(s, p, i) \in Requests /\ BlockTask(s, p, i) \in PendingTasks
BY DEF PendingTasks, Requests, AboutBlocks

\* The send and pending queues grow, the received messages and the wire do not change.
LEMMA QueuesGrow ==
    ASSUME TypeOK,
           pending' \in Seq(PendingTasks), queueSend' \in Seq(Requests),
           UNCHANGED <<wire, queueReceived>>
    PROVE  QueuesTypeOK'
BY DEF TypeOK, QueuesTypeOK

LEMMA SynchronizeTypeOK == TypeOK /\ Synchronize => TypeOK'
<1> SUFFICES ASSUME TypeOK, Synchronize PROVE TypeOK'
  OBVIOUS
<1>1. syncs + 1 \in Syncs
  BY LimitsAssumption DEF Synchronize, TypeOK, ClientTypeOK, Syncs
<1>2. ClientTypeOK'
  BY <1>1, LimitsAssumption DEF Synchronize, TypeOK, ClientTypeOK, Syncs, None
<1>3. pending' \in Seq(PendingTasks) /\ queueSend' \in Seq(Requests)
  BY <1>1, QueueMembers, AppendProperties DEF Synchronize, TypeOK, QueuesTypeOK
<1>4. QueuesTypeOK'
  BY <1>3, QueuesGrow DEF Synchronize, launcher
<1> QED
  BY <1>2, <1>4, PartsUnchanged DEF Synchronize, TypeOK, launcher

LEMMA UpdateTypeOK == TypeOK /\ UpdateStep => TypeOK'
<1> SUFFICES ASSUME TypeOK, UpdateStep PROVE TypeOK'
  OBVIOUS
<1> USE ThreadsAssumption, LimitsAssumption
<1> DEFINE s == sync[Main]
<1> Main \in Threads
  BY DEF Threads
<1>a. pc[Main] # "idle" => s \in Syncs /\ IsSyncTask(task[s])
  BY SyncOfBusyThread
<1>1. CASE SendQueuedMessages
  <2>1. Range(queueSend) \in SUBSET Requests
    BY RangeOfSeq DEF TypeOK, QueuesTypeOK
  <2>2. QueuesTypeOK'
    BY <1>1, <2>1, EmptySeq DEF SendQueuedMessages, TypeOK, QueuesTypeOK
  <2> QED
    BY <1>1, <2>2, PartsUnchanged DEF SendQueuedMessages, TypeOK
<1>2. CASE ReceiveMessage
  <2> DEFINE m == Head(queueReceived)
  <2>1. /\ m \in Range(queueReceived)
        /\ Tail(queueReceived) \in Seq(Range(Tail(queueReceived)))
        /\ Range(Tail(queueReceived)) \subseteq Range(queueReceived)
    BY <1>2, TailTyped DEF ReceiveMessage, TypeOK, QueuesTypeOK
  <2>2. QueuesTypeOK'
    BY <1>2, <2>1 DEF ReceiveMessage, TypeOK, QueuesTypeOK, launcher
  <2>3. IsResponse(m)
    BY <2>1 DEF TypeOK, QueuesTypeOK
  <2>4. ThreadsTypeOK' /\ ArgsTypeOK'
    <3>1. CASE UNCHANGED threads
      BY <3>1, PartsUnchanged
    <3>2. CASE /\ taskSync # None
               /\ Goto(Main, "apply")
               /\ sync' = [sync EXCEPT ![Main] = taskSync]
               /\ arg' = [arg EXCEPT ![Main] = m]
               /\ UNCHANGED todo
      <4>1. ThreadsTypeOK'
        BY <3>2 DEF TypeOK, ClientTypeOK, ThreadsTypeOK, Goto, Threads, MainPC, ProcPC,
                    SharedPC, None
      <4>2. ArgsTypeOK'
        BY <2>3, <3>2 DEF TypeOK, ThreadsTypeOK, ArgsTypeOK, Goto, Threads
      <4> QED
        BY <4>1, <4>2
    <3> QED
      BY <1>2, <3>1, <3>2 DEF ReceiveMessage
  <2> QED
    BY <1>2, <2>2, <2>4, PartsUnchanged DEF ReceiveMessage, TypeOK, launcher
<1>3. CASE ProcessResponseFileLayout
  <2> DEFINE dir == arg[Main].body
             l == [p \in DOMAIN dir |-> [data |-> dir[p], hashes |-> <<>>]]
  <2>1. pc[Main] # "idle" /\ IsDir(dir)
    BY <1>3 DEF ProcessResponseFileLayout, Applies, TypeOK, ArgsTypeOK, IsResponse
  <2>2. IsMap(l, Paths, [data : Seq(Blocks), hashes : Seq(Blocks)])
    BY <2>1, EmptySeq DEF IsDir, IsMap
  <2>3. CASE /\ task' = [task EXCEPT ![s].layout = l]
             /\ layoutClient' = s
             /\ Continue(Main, "layoutDone")
    <3> DEFINE tk == [task[s] EXCEPT !.layout = l]
    <3>1. TasksTypeOK /\ IsSyncTask(tk) /\ task' = [task EXCEPT ![s] = tk]
      BY Zenon, <1>a, <2>1, <2>2, <2>3, SetField DEF TypeOK
    <3>2. TasksTypeOK'
      BY Zenon, <1>a, <2>1, <3>1, SetTask
    <3>3. ClientTypeOK'
      BY <1>3, <1>a, <2>1, <2>3
         DEF ProcessResponseFileLayout, TypeOK, ClientTypeOK, Syncs
    <3>4. ThreadsTypeOK' /\ ArgsTypeOK'
      BY <2>1, <2>3, ContinueTyped DEF FreePC, SharedPC
    <3> QED
      BY <1>3, <3>2, <3>3, <3>4, PartsUnchanged
         DEF ProcessResponseFileLayout, TypeOK, launcher
  <2>4. CASE Return(Main) /\ UNCHANGED <<task, layoutClient>>
    <3>1. ClientTypeOK'
      BY <1>3, <2>4 DEF ProcessResponseFileLayout, TypeOK, ClientTypeOK
    <3>2. ThreadsTypeOK' /\ ArgsTypeOK'
      BY <2>4, ReturnTyped
    <3> QED
      BY <1>3, <2>4, <3>1, <3>2, PartsUnchanged
         DEF ProcessResponseFileLayout, TypeOK, launcher
  <2> QED
    BY <1>3, <2>3, <2>4 DEF ProcessResponseFileLayout
<1>4. CASE ProcessResponseFileBlockHashes
  <2> DEFINE p == arg[Main].req.path
             hashes == arg[Main].body
             l == layoutClient
             erased == [task EXCEPT ![s].hashes = @ \ {p}]
  <2>1. pc[Main] # "idle" /\ hashes \in Seq(Blocks)
    BY Zenon, <1>4
       DEF ProcessResponseFileBlockHashes, Applies, TypeOK, ArgsTypeOK, IsResponse
  <2>2. DOMAIN erased = Syncs /\ \A x \in Syncs : IsSyncTask(erased[x])
    <3> DEFINE tk == [task[s] EXCEPT !.hashes = task[s].hashes \ {p}]
    <3>1. task[s].hashes \ {p} \in SUBSET Paths
      BY <1>a, <2>1 DEF IsSyncTask
    <3>2. IsSyncTask(tk) /\ erased = [task EXCEPT ![s] = tk]
      BY Zenon, <1>a, <2>1, <3>1, SetField
    <3> HIDE DEF tk
    <3> QED
      BY Zenon, <3>2 DEF TypeOK, TasksTypeOK
  <2>3. CASE Return(Main) /\ UNCHANGED task
    BY Zenon, <1>4, <2>3, ReturnTyped, PartsUnchanged
       DEF ProcessResponseFileBlockHashes, TypeOK, launcher
  <2>4. CASE task' = erased /\ Continue(Main, "fail")
    <3>1. TasksTypeOK'
      BY <2>2, <2>4 DEF TasksTypeOK
    <3>2. ThreadsTypeOK' /\ ArgsTypeOK'
      BY <2>1, <2>4, ContinueTyped DEF FreePC, SharedPC
    <3> QED
      BY Zenon, <1>4, <3>1, <3>2, PartsUnchanged
         DEF ProcessResponseFileBlockHashes, TypeOK, launcher
  <2>5. CASE /\ l # None
             /\ p \in DOMAIN task[l].layout
             /\ task' = [erased EXCEPT ![l].layout[p].hashes =
                  [i \in DOMAIN @ |-> IF i \in DOMAIN hashes THEN hashes[i] ELSE @[i]]]
             /\ Continue(Main, "checkHashes")
    <3> DEFINE lay == erased[l].layout
               old == lay[p].hashes
               new == [i \in DOMAIN old |-> IF i \in DOMAIN hashes THEN hashes[i] ELSE old[i]]
               lay2 == [lay EXCEPT ![p] = [lay[p] EXCEPT !.hashes = new]]
               tk == [erased[l] EXCEPT !.layout = lay2]
    <3>1. l \in Syncs /\ IsSyncTask(erased[l])
      <4>1. l # None
        BY Zenon, <2>5
      <4>2. l \in Syncs
        BY <4>1 DEF TypeOK, ClientTypeOK, Syncs, None
      <4> HIDE DEF erased
      <4> QED
        BY <2>2, <4>2
    <3>2. IsMap(lay, Paths, [data : Seq(Blocks), hashes : Seq(Blocks)])
      BY <3>1 DEF IsSyncTask
    <3>3. p \in DOMAIN lay
      <4>1. IsSyncTask(task[s]) /\ s \in Syncs
        BY <1>a, <2>1
      <4>2. erased[l].layout = task[l].layout
        BY <3>1, <4>1 DEF TypeOK, TasksTypeOK, IsSyncTask, NewTask
      <4> QED
        BY Zenon, <2>5, <4>2
    <3>4. new \in Seq(Blocks)
      <4>1. old \in Seq(Blocks)
        BY <3>2, <3>3 DEF IsMap
      <4> HIDE DEF old, hashes
      <4>2. /\ DOMAIN old = 1 .. Len(old) /\ Len(old) \in Nat
            /\ \A i \in DOMAIN old : old[i] \in Blocks
            /\ \A i \in DOMAIN hashes : hashes[i] \in Blocks
        BY <2>1, <4>1, LenProperties, ElementOfSeq
      <4>3. new \in [1 .. Len(old) -> Blocks]
        BY <4>2
      <4> QED
        BY <4>2, <4>3, SeqDef
    <3>5. IsMap(lay2, Paths, [data : Seq(Blocks), hashes : Seq(Blocks)])
      <4> HIDE DEF new, lay
      <4> QED
        BY Zenon, <3>2, <3>3, <3>4 DEF IsMap
    <3>6. IsSyncTask(tk)
      <4> HIDE DEF lay2
      <4> QED
        BY Zenon, <3>1, <3>5, SetField
    <3>7. task' = [erased EXCEPT ![l] = tk]
      BY Zenon, <2>5
    <3>8. TasksTypeOK'
      <4> HIDE DEF tk, erased
      <4> QED
        BY <2>2, <3>1, <3>6, <3>7 DEF TasksTypeOK
    <3>9. ThreadsTypeOK' /\ ArgsTypeOK'
      BY Zenon, <2>1, <2>5, ContinueTyped DEF FreePC
    <3> QED
      BY Zenon, <1>4, <3>8, <3>9, PartsUnchanged
         DEF ProcessResponseFileBlockHashes, TypeOK, launcher
  <2> QED
    BY Zenon, <1>4, <2>3, <2>4, <2>5 DEF ProcessResponseFileBlockHashes
<1>5. CASE CheckFinishedHashes
  <2>1. pc[Main] # "idle"
    BY <1>5 DEF CheckFinishedHashes
  <2>2. TasksTypeOK'
    BY <1>5, <1>a, <2>1, SetFieldOfTask, PartsUnchanged
       DEF CheckFinishedHashes, TaskStatus
  <2>3. ThreadsTypeOK' /\ ArgsTypeOK'
    BY <1>5, <2>1, ContinueTyped, ReturnTyped DEF CheckFinishedHashes, FreePC
  <2> QED
    BY <1>5, <2>2, <2>3, PartsUnchanged DEF CheckFinishedHashes, TypeOK, launcher
<1>6. CASE EnqueueSyncTask
  <2>1. s \in Syncs
    BY <1>6, <1>a DEF EnqueueSyncTask
  <2>2. pending' \in Seq(PendingTasks)
    BY <1>6, <2>1, QueueMembers, AppendProperties
       DEF EnqueueSyncTask, TypeOK, QueuesTypeOK
  <2>3. QueuesTypeOK'
    BY <1>6, <2>2, QueuesGrow DEF EnqueueSyncTask, TypeOK, QueuesTypeOK, queues, launcher
  <2> QED
    BY <1>6, <2>3, ReturnTyped, PartsUnchanged DEF EnqueueSyncTask, TypeOK, launcher
<1>7. CASE ProcessResponseDeleteFile
  <2>1. pc[Main] # "idle"
    BY <1>7 DEF ProcessResponseDeleteFile, Applies
  <2>2. \A p : task[s].deletes \ {p} \in SUBSET Paths
    BY <1>a, <2>1 DEF IsSyncTask
  <2>3. TasksTypeOK'
    <3>1. CASE UNCHANGED task
      BY <3>1, PartsUnchanged
    <3>2. ASSUME NEW p, task' = [task EXCEPT ![s].deletes = @ \ {p}]
          PROVE  TasksTypeOK'
      <4> DEFINE v == task[s].deletes \ {p}
      <4>1. task' = [task EXCEPT ![s].deletes = v] /\ v \in SUBSET Paths
        BY Zenon, <2>2, <3>2
      <4> HIDE DEF v
      <4> QED
        BY Zenon, <1>a, <2>1, <4>1, SetFieldOfTask
    <3> QED
      BY <1>7, <3>1, <3>2 DEF ProcessResponseDeleteFile
  <2>4. ThreadsTypeOK' /\ ArgsTypeOK'
    BY <1>7, <2>1, ContinueTyped, ReturnTyped
       DEF ProcessResponseDeleteFile, FreePC, SharedPC
  <2> QED
    BY <1>7, <2>3, <2>4, PartsUnchanged DEF ProcessResponseDeleteFile, TypeOK, launcher
<1>8. CASE ProcessResponseWriteFile
  <2>1. pc[Main] # "idle"
    BY <1>8 DEF ProcessResponseWriteFile, Applies
  <2>2. TasksTypeOK'
    BY <1>8, <1>a, <2>1, SetWriteOfTask, PartsUnchanged
       DEF ProcessResponseWriteFile, Writing, FileStatus
  <2>3. ThreadsTypeOK' /\ ArgsTypeOK'
    BY <1>8, <2>1, ContinueTyped, ReturnTyped
       DEF ProcessResponseWriteFile, FreePC, SharedPC
  <2> QED
    BY <1>8, <2>2, <2>3, PartsUnchanged DEF ProcessResponseWriteFile, TypeOK, launcher
<1>9. CASE ProcessFileDataReceived
  <2> DEFINE p == arg[Main].req.path
             i == arg[Main].req.index
  <2>1. pc[Main] # "idle"
    BY Zenon, <1>9 DEF ProcessFileDataReceived, Applies
  <2>2. CASE /\ p \in DOMAIN task[s].writes
             /\ task' = [task EXCEPT ![s].writes[p].blocks = Without(@, i)]
             /\ countBlocks' = Decrement(countBlocks)
             /\ \/ Continue(Main, "sendLock")
                \/ Continue(Main, "fail")
    <3> DEFINE v == Without(task[s].writes[p].blocks, i)
    <3>1. IsMap(v, ServerBlocks(p), BlockStatus)
      BY Zenon, <1>a, <2>1, <2>2, WithoutProperties DEF IsSyncTask, IsWriteTask
    <3>2. task' = [task EXCEPT ![s].writes[p].blocks = v]
      BY Zenon, <2>2
    <3> HIDE DEF v
    <3>3. TasksTypeOK'
      BY Zenon, <1>a, <2>1, <2>2, <3>1, <3>2, SetWriteOfTask
    <3>4. LimitsKept'
      <4>0. countBlocks' = Decrement(countBlocks)
        BY Zenon, <2>2
      <4>1. UNCHANGED countFiles
        BY Zenon, <1>9 DEF ProcessFileDataReceived
      <4> QED
        BY <4>0, <4>1 DEF TypeOK, LimitsKept, Decrement
    <3>5. ThreadsTypeOK' /\ ArgsTypeOK'
      BY <2>1, <2>2, ContinueTyped DEF FreePC, SharedPC
    <3> QED
      BY Zenon, <1>9, <3>3, <3>4, <3>5, PartsUnchanged
         DEF ProcessFileDataReceived, TypeOK, launcher
  <2>3. CASE Return(Main) /\ UNCHANGED <<task, countBlocks>>
    BY Zenon, <1>9, <2>3, ReturnTyped, PartsUnchanged
       DEF ProcessFileDataReceived, TypeOK, counts, launcher
  <2> QED
    BY Zenon, <1>9, <2>2, <2>3 DEF ProcessFileDataReceived, Writing
<1>10. CASE ProcessResponseFinishWriteFile
  <2> DEFINE p == arg[Main].req.path
  <2>1. pc[Main] # "idle"
    BY <1>10 DEF ProcessResponseFinishWriteFile, Applies
  <2>2. CASE /\ task' = [task EXCEPT ![s].writes = Without(@, p)]
             /\ countFiles' = Decrement(countFiles)
             /\ \/ Continue(Main, "checkWrite")
                \/ Continue(Main, "fail")
    <3> DEFINE v == Without(task[s].writes, p)
               tk == [task[s] EXCEPT !.writes = v]
    <3>1. DOMAIN v \subseteq DOMAIN ServerDir /\ \A x \in DOMAIN v : IsWriteTask(v[x], x)
      <4> DEFINE f == task[s].writes
      <4>1. DOMAIN f \subseteq DOMAIN ServerDir /\ \A x \in DOMAIN f : IsWriteTask(f[x], x)
        BY <1>a, <2>1 DEF IsSyncTask
      <4> HIDE DEF f
      <4>2. DOMAIN Without(f, p) = DOMAIN f \ {p}
        BY Zenon, WithoutProperties
      <4>3. \A x \in DOMAIN f \ {p} : Without(f, p)[x] = f[x]
        BY Zenon, WithoutProperties
      <4>4. /\ DOMAIN Without(f, p) \subseteq DOMAIN ServerDir
            /\ \A x \in DOMAIN Without(f, p) : IsWriteTask(Without(f, p)[x], x)
        BY <4>1, <4>2, <4>3
      <4> QED
        BY <4>4 DEF f
    <3>2. task' = [task EXCEPT ![s] = tk]
      BY <2>2
    <3>3. IsSyncTask(tk)
      <4> HIDE DEF v
      <4> QED
        BY <1>a, <2>1, <3>1, SetField
    <3> HIDE DEF tk
    <3>4. TasksTypeOK'
      BY Zenon, <1>a, <2>1, <3>2, <3>3, SetTask DEF TypeOK
    <3>5. LimitsKept'
      <4>0. countFiles' = Decrement(countFiles)
        BY <2>2
      <4>1. UNCHANGED countBlocks
        BY <1>10 DEF ProcessResponseFinishWriteFile
      <4> QED
        BY <4>0, <4>1 DEF TypeOK, LimitsKept, Decrement
    <3>6. ThreadsTypeOK' /\ ArgsTypeOK'
      BY <2>1, <2>2, ContinueTyped DEF FreePC, SharedPC
    <3> QED
      BY <1>10, <3>4, <3>5, <3>6, PartsUnchanged
         DEF ProcessResponseFinishWriteFile, TypeOK, launcher
  <2>3. CASE Return(Main) /\ UNCHANGED <<task, countFiles>>
    BY <1>10, <2>3, ReturnTyped, PartsUnchanged
       DEF ProcessResponseFinishWriteFile, TypeOK, counts, launcher
  <2> QED
    BY <1>10, <2>2, <2>3 DEF ProcessResponseFinishWriteFile
<1>11. CASE CheckFinishedWrite
  <2>1. pc[Main] # "idle"
    BY <1>11 DEF CheckFinishedWrite
  <2>2. TasksTypeOK'
    BY <1>11, <1>a, <2>1, SetFieldOfTask, PartsUnchanged
       DEF CheckFinishedWrite, TaskStatus
  <2>3. ThreadsTypeOK' /\ ArgsTypeOK'
    BY <1>11, <2>1, ContinueTyped DEF CheckFinishedWrite, FreePC, SharedPC
  <2> QED
    BY <1>11, <2>2, <2>3, PartsUnchanged DEF CheckFinishedWrite, TypeOK, launcher
<1> QED
  BY <1>1, <1>2, <1>3, <1>4, <1>5, <1>6, <1>7, <1>8, <1>9, <1>10, <1>11 DEF UpdateStep

\* The loops over paths: paths to visit are found, or one is visited.
LEMMA VisitTyped ==
    ASSUME TypeOK, NEW t \in Threads, NEW todoNew \in SUBSET Paths,
           todo' = [todo EXCEPT ![t] = todoNew], UNCHANGED <<sync, arg>>,
           \/ /\ UNCHANGED pc
              /\ todoNew \in SUBSET todo[t]
           \/ /\ pc[t] \in {"sendLock", "send"}
              /\ Goto(t, "send") \/ Goto(t, "fail")
           \/ /\ t # Main
              /\ pc[t] = "deleteLock"
              /\ Goto(t, "delete")
           \/ /\ t # Main
              /\ pc[t] = "hashLock"
              /\ Goto(t, "hash")
              /\ todoNew \in SUBSET DOMAIN ServerDir
    PROVE  ThreadsTypeOK' /\ ArgsTypeOK'
<1> USE ThreadsAssumption
<1>1. /\ pc' \in [Threads -> MainPC \cup ProcPC \cup SharedPC]
      /\ pc'[Main] \in MainPC \cup SharedPC
      /\ \A p \in Procs : pc'[p] \in ProcPC \cup SharedPC
      /\ \A x \in Threads : pc'[x] # "idle" => sync'[x] # None
  BY DEF TypeOK, ThreadsTypeOK, Goto, Threads, MainPC, ProcPC, SharedPC
<1>2. /\ sync' \in [Threads -> 0 .. MaxSyncs]
      /\ todo' \in [Threads -> SUBSET Paths]
      /\ \A p \in Procs : pc'[p] = "hash" => todo'[p] \subseteq DOMAIN ServerDir
  BY DEF TypeOK, ThreadsTypeOK, Goto, Threads
<1>3. ArgsTypeOK'
  BY DEF TypeOK, ThreadsTypeOK, ArgsTypeOK, Goto, Threads
<1> QED
  BY <1>1, <1>2, <1>3 DEF ThreadsTypeOK

\* A listing of block numbers in ascending order is a sequence of them.
LEMMA AscendingProperties ==
    ASSUME NEW S, IsFiniteSet(S), NEW r \in Ascending(S)
    PROVE  /\ Cardinality(S) \in Nat
           /\ DOMAIN r = 1 .. Cardinality(S)
           /\ \A n \in DOMAIN r : r[n] \in S
BY FS_CardinalityType DEF Ascending

LEMMA SendFileDataTypeOK ==
    ASSUME TypeOK, NEW t \in Threads, NEW p, SendFileData(t, p)
    PROVE  TypeOK'
<1> USE ThreadsAssumption, LimitsAssumption
<1> DEFINE s == sync[t]
           blocks == task[s].writes[p].blocks
           empty == ServerDir[p] = <<>>
           visited(S) == {i \in DOMAIN blocks : \A j \in DOMAIN blocks \ S :
                            blocks[j] = "pending" => i < j}
           reads(S) == IF empty THEN {} ELSE S
           sends(S) == {i \in visited(S) : blocks[i] = "dataReady"} \cup (S \ reads(S))
<1>1. pc[t] # "idle" /\ p \in todo[t] /\ p \in DOMAIN task[s].writes
  BY Zenon DEF SendFileData, Visit, Writing
<1>2. s \in Syncs /\ IsSyncTask(task[s])
  BY <1>1, SyncOfBusyThread
<1>3. p \in DOMAIN ServerDir /\ IsMap(blocks, ServerBlocks(p), BlockStatus)
  BY <1>1, <1>2 DEF IsSyncTask, IsWriteTask
<1>4. PICK S \in Started(blocks) :
         /\ task' = [task EXCEPT ![s].writes[p].blocks =
               [i \in DOMAIN blocks |->
                   CASE i \in reads(S) -> "readingData"
                     [] i \in sends(S) -> "dataSent"
                     [] OTHER -> blocks[i]]]
         /\ countBlocks' = countBlocks + Cardinality(S)
         /\ \E r \in Ascending(reads(S)) :
               pending' = pending \o [n \in DOMAIN r |-> BlockTask(s, p, r[n])]
         /\ \E q \in Ascending(sends(S)) :
               queueSend' = queueSend \o [n \in DOMAIN q |-> DataRequest(s, p, q[n])]
  BY Zenon DEF SendFileData
<1> DEFINE v == [i \in DOMAIN blocks |->
                   CASE i \in reads(S) -> "readingData"
                     [] i \in sends(S) -> "dataSent"
                     [] OTHER -> blocks[i]]
<1>5. /\ S \in SUBSET DOMAIN blocks
      /\ Cardinality(S) <= MaxInProgressBlocks - countBlocks
  BY DEF Started
<1>6. /\ reads(S) \in SUBSET ServerBlocks(p)
      /\ sends(S) \in SUBSET ServerBlocks(p)
      /\ S \in SUBSET ServerBlocks(p)
  BY <1>3, <1>5 DEF IsMap
<1>7. TasksTypeOK'
  <2>1. IsMap(v, ServerBlocks(p), BlockStatus)
    <3>1. DOMAIN v \in SUBSET ServerBlocks(p)
      BY <1>3 DEF IsMap
    <3>2. \A i \in DOMAIN v : v[i] \in BlockStatus
      BY Zenon, <1>3 DEF IsMap, BlockStatus
    <3> QED
      BY Zenon, <3>1, <3>2 DEF IsMap
  <2>2. task' = [task EXCEPT ![s].writes[p].blocks = v]
    BY Zenon, <1>4
  <2> HIDE DEF v
  <2> QED
    BY Zenon, <1>1, <1>2, <2>1, <2>2, SetWriteOfTask
<1> HIDE DEF s, blocks, reads, sends, v
<1>8. /\ IsFiniteSet(S) /\ IsFiniteSet(reads(S)) /\ IsFiniteSet(sends(S))
      /\ Cardinality(S) \in Nat
  BY <1>3, <1>6, ServerDirProperties, FS_Subset, FS_CardinalityType
<1>9. LimitsKept'
  <2>1. UNCHANGED countFiles
    BY Zenon DEF SendFileData
  <2>2. countBlocks' = countBlocks + Cardinality(S)
    BY <1>4
  <2> QED
    BY <1>5, <1>8, <2>1, <2>2 DEF TypeOK, LimitsKept
<1>10. pending' \in Seq(PendingTasks)
  <2>1. PICK r \in Ascending(reads(S)) :
           pending' = pending \o [n \in DOMAIN r |-> BlockTask(s, p, r[n])]
    BY Zenon, <1>4
  <2>2. \A i \in reads(S) : BlockTask(s, p, i) \in PendingTasks
    BY <1>2, <1>3, <1>6, QueueMembers
  <2>3. [n \in DOMAIN r |-> BlockTask(s, p, r[n])] \in Seq(PendingTasks)
    <3>1. /\ Cardinality(reads(S)) \in Nat
          /\ DOMAIN r = 1 .. Cardinality(reads(S))
          /\ \A n \in DOMAIN r : r[n] \in reads(S)
      BY <1>8, AscendingProperties
    <3>2. [n \in DOMAIN r |-> BlockTask(s, p, r[n])] \in [1 .. Cardinality(reads(S)) -> PendingTasks]
      BY <2>2, <3>1
    <3> QED
      BY <3>1, <3>2, SeqDef
  <2> QED
    BY <2>1, <2>3, ConcatProperties DEF TypeOK, QueuesTypeOK
<1>11. queueSend' \in Seq(Requests)
  <2>1. PICK q \in Ascending(sends(S)) :
           queueSend' = queueSend \o [n \in DOMAIN q |-> DataRequest(s, p, q[n])]
    BY Zenon, <1>4
  <2>2. \A i \in sends(S) : DataRequest(s, p, i) \in Requests
    BY <1>2, <1>3, <1>6, QueueMembers
  <2>3. [n \in DOMAIN q |-> DataRequest(s, p, q[n])] \in Seq(Requests)
    <3>1. /\ Cardinality(sends(S)) \in Nat
          /\ DOMAIN q = 1 .. Cardinality(sends(S))
          /\ \A n \in DOMAIN q : q[n] \in sends(S)
      BY <1>8, AscendingProperties
    <3>2. [n \in DOMAIN q |-> DataRequest(s, p, q[n])] \in [1 .. Cardinality(sends(S)) -> Requests]
      BY <2>2, <3>1
    <3> QED
      BY <3>1, <3>2, SeqDef
  <2> QED
    BY <2>1, <2>3, ConcatProperties DEF TypeOK, QueuesTypeOK
<1>12. QueuesTypeOK'
  BY Zenon, <1>10, <1>11, QueuesGrow DEF SendFileData, Visit, launcher
<1>13. ThreadsTypeOK' /\ ArgsTypeOK'
  <2> DEFINE rest == todo[t] \ {p}
  <2>1. /\ todo' = [todo EXCEPT ![t] = rest]
        /\ UNCHANGED <<pc, sync, arg>>
    BY Zenon DEF SendFileData, Visit
  <2>2. rest \in SUBSET Paths /\ rest \in SUBSET todo[t]
    BY DEF TypeOK, ThreadsTypeOK
  <2> HIDE DEF rest
  <2> QED
    BY Zenon, <2>1, <2>2, VisitTyped
<1> QED
  BY Zenon, <1>7, <1>9, <1>12, <1>13, PartsUnchanged DEF SendFileData, Visit, TypeOK, launcher

LEMMA SharedTypeOK ==
    ASSUME TypeOK, NEW t \in Threads, SharedStep(t)
    PROVE  TypeOK'
<1> USE ThreadsAssumption, LimitsAssumption
<1> DEFINE s == sync[t]
<1>a. pc[t] # "idle" => s \in Syncs /\ IsSyncTask(task[s])
  BY SyncOfBusyThread
<1>1. CASE FinishLayout(t)
  <2> DEFINE left == task[s].want \ {IF t = Main THEN "client" ELSE "server"}
  <2>1. pc[t] # "idle"
    BY <1>1 DEF FinishLayout
  <2>2. left \in SUBSET {"server", "client"}
    BY <1>a, <2>1 DEF IsSyncTask
  <2>3. TasksTypeOK'
    <3>1. task' = [task EXCEPT ![s].want = left]
      BY <1>1 DEF FinishLayout
    <3> HIDE DEF left
    <3> QED
      BY Zenon, <1>a, <2>1, <2>2, <3>1, SetFieldOfTask
  <2>4. pending' \in Seq(PendingTasks)
    BY <1>1, <1>a, <2>1, QueueMembers, AppendProperties
       DEF FinishLayout, TypeOK, QueuesTypeOK
  <2>5. QueuesTypeOK'
    BY <1>1, <2>4, QueuesGrow DEF FinishLayout, TypeOK, QueuesTypeOK, queues, launcher
  <2> QED
    BY <1>1, <2>3, <2>5, ReturnTyped, PartsUnchanged DEF FinishLayout, TypeOK, launcher
<1>2. CASE LockForSending(t)
  <2> DEFINE ps == DOMAIN task[s].writes
  <2>1. pc[t] = "sendLock" /\ Goto(t, "send")
    BY <1>2 DEF LockForSending
  <2>2. ps \in SUBSET Paths
    BY <1>a, <2>1, ServerDirProperties DEF IsSyncTask
  <2>3. todo' = [todo EXCEPT ![t] = ps] /\ UNCHANGED <<sync, arg>>
    BY <1>2 DEF LockForSending
  <2> HIDE DEF ps
  <2>4. ThreadsTypeOK' /\ ArgsTypeOK'
    BY Zenon, <2>1, <2>2, <2>3, VisitTyped
  <2> QED
    BY <1>2, <2>4, PartsUnchanged DEF LockForSending, TypeOK, launcher
<1>3. ASSUME NEW p \in todo[t],
             RequestWriteFile(t, p) \/ RequestFinishWriteFile(t, p) \/ SkipFile(t, p)
      PROVE  TypeOK'
  <2> DEFINE rest == todo[t] \ {p}
  <2>1. /\ Visit(t, p) /\ pc[t] = "send"
        /\ UNCHANGED <<client, pending, queueReceived, launcher, countBlocks>>
    BY <1>3 DEF RequestWriteFile, RequestFinishWriteFile, SkipFile, Visit, counts
  <2>2. /\ todo' = [todo EXCEPT ![t] = rest]
        /\ rest \in SUBSET Paths /\ rest \in SUBSET todo[t]
        /\ UNCHANGED <<sync, arg>>
    BY <2>1 DEF Visit, TypeOK, ThreadsTypeOK
  <2>3. UNCHANGED pc \/ Goto(t, "fail")
    BY <1>3 DEF RequestWriteFile, RequestFinishWriteFile, SkipFile
  <2>4. ThreadsTypeOK' /\ ArgsTypeOK'
    <3> HIDE DEF rest
    <3> QED
      BY Zenon, <2>1, <2>2, <2>3, VisitTyped
  <2>5. s \in Syncs /\ p \in Paths
    BY <1>a, <2>1 DEF TypeOK, ThreadsTypeOK
  <2>6. TasksTypeOK'
    <3>1. CASE UNCHANGED task
      BY <3>1, PartsUnchanged
    <3>2. ASSUME p \in DOMAIN task[s].writes, NEW v \in FileStatus,
                 task' = [task EXCEPT ![s].writes[p].status = v]
          PROVE  TasksTypeOK'
      BY Zenon, <2>5, <3>2, SetWriteOfTask
    <3> QED
      BY <1>3, <3>1, <3>2
         DEF RequestWriteFile, RequestFinishWriteFile, SkipFile, Writing, FileStatus
  <2>7. queueSend' \in Seq(Requests)
    <3>1. \/ UNCHANGED queueSend
          \/ \E k \in {"write", "finish"} :
                queueSend' = Append(queueSend, PathRequest(k, s, p))
      BY <1>3 DEF RequestWriteFile, RequestFinishWriteFile, SkipFile
    <3>2. \A k \in {"write", "finish"} : PathRequest(k, s, p) \in Requests
      BY <2>5, QueueMembers
    <3>3. queueSend \in Seq(Requests)
      BY DEF TypeOK, QueuesTypeOK
    <3>4. ASSUME NEW m \in Requests PROVE Append(queueSend, m) \in Seq(Requests)
      BY <3>3, AppendProperties
    <3> QED
      BY <3>1, <3>2, <3>3, <3>4
  <2>8. QueuesTypeOK'
    BY <2>1, <2>7, QueuesGrow DEF TypeOK, QueuesTypeOK, launcher
  <2>9. LimitsKept'
    <3>1. \/ UNCHANGED countFiles
          \/ countFiles < MaxInProgressFiles /\ countFiles' = countFiles + 1
      BY <1>3 DEF RequestWriteFile, RequestFinishWriteFile, SkipFile, counts
    <3> QED
      BY <2>1, <3>1 DEF TypeOK, LimitsKept
  <2> QED
    BY <2>1, <2>4, <2>6, <2>8, <2>9, PartsUnchanged DEF TypeOK, launcher
<1>4. ASSUME NEW p, SendFileData(t, p) PROVE TypeOK'
  BY <1>4, SendFileDataTypeOK
<1>5. CASE SendingDone(t)
  BY <1>5, ReturnTyped, PartsUnchanged DEF SendingDone, TypeOK, launcher
<1>6. CASE SucceedSynchronization(t)
  <2>1. ClientTypeOK'
    BY <1>6 DEF SucceedSynchronization, TypeOK, ClientTypeOK, None
  <2>2. TasksTypeOK'
    <3>1. CASE taskSync = None
      BY <1>6, <3>1, PartsUnchanged DEF SucceedSynchronization
    <3>2. CASE taskSync # None
      <4>1. taskSync \in Syncs /\ "success" \in TaskStatus
        BY <3>2 DEF TypeOK, ClientTypeOK, Syncs, None, TaskStatus
      <4>2. task' = [task EXCEPT ![taskSync].status = "success"]
        BY <1>6, <3>2 DEF SucceedSynchronization
      <4> QED
        BY Zenon, <4>1, <4>2, SetFieldOfTask
    <3> QED
      BY <3>1, <3>2
  <2> QED
    BY <1>6, <2>1, <2>2, ReturnTyped, PartsUnchanged
       DEF SucceedSynchronization, TypeOK, launcher
<1>7. CASE FailSynchronization(t)
  <2>1. ClientTypeOK'
    BY <1>7 DEF FailSynchronization, TypeOK, ClientTypeOK, None
  <2>2. pc[t] # "idle"
    BY <1>7 DEF FailSynchronization
  <2>3. TasksTypeOK'
    <3>1. CASE taskSync = None
      BY <1>7, <3>1, PartsUnchanged DEF FailSynchronization
    <3>2. CASE taskSync # None
      <4>1. taskSync \in Syncs /\ "failure" \in TaskStatus
        BY <3>2 DEF TypeOK, ClientTypeOK, Syncs, None, TaskStatus
      <4>2. task' = [task EXCEPT ![taskSync].status = "failure"]
        BY <1>7, <3>2 DEF FailSynchronization
      <4> QED
        BY Zenon, <4>1, <4>2, SetFieldOfTask
    <3> QED
      BY <3>1, <3>2
  <2>4. ThreadsTypeOK' /\ ArgsTypeOK'
    BY <1>7, <2>2, ReturnTyped, ContinueTyped DEF FailSynchronization, FreePC, SharedPC
  <2> QED
    BY <1>7, <2>1, <2>3, <2>4, PartsUnchanged DEF FailSynchronization, TypeOK, launcher
<1>8. CASE ClearPendingTasks(t)
  <2>1. pending' \in Seq(PendingTasks)
    BY <1>8, EmptySeq DEF ClearPendingTasks
  <2>2. QueuesTypeOK'
    BY <1>8, <2>1, QueuesGrow DEF ClearPendingTasks, TypeOK, QueuesTypeOK, queues, launcher
  <2> QED
    BY <1>8, <2>2, ReturnTyped, PartsUnchanged DEF ClearPendingTasks, TypeOK, launcher
<1> QED
  BY <1>1, <1>2, <1>3, <1>4, <1>5, <1>6, <1>7, <1>8
     DEF SharedStep, SendNextWriteRequests

\* The two layouts of a sync task are compared without leaving the known paths.
LEMMA LayoutProperties ==
    ASSUME NEW tk, IsSyncTask(tk)
    PROVE  /\ HashPaths(tk.layout) \in SUBSET DOMAIN ServerDir
           /\ DeletePaths(tk.layout) \in SUBSET Paths
           /\ WritePaths(tk.layout) \in SUBSET DOMAIN ServerDir
           /\ \A p \in DOMAIN ServerDir : IsWriteTask(WriteTask(tk.layout, p), p)
<1>1. DOMAIN tk.layout \subseteq Paths
  BY DEF IsSyncTask, IsMap
<1>2. ASSUME NEW p \in DOMAIN ServerDir
      PROVE  IsWriteTask(WriteTask(tk.layout, p), p)
  <2>1. WriteBlocks(tk.layout, p) \subseteq ServerBlocks(p)
    BY DEF WriteBlocks
  <2> QED
    BY <2>1 DEF WriteTask, IsWriteTask, IsMap, FileStatus, BlockStatus
<1> QED
  BY <1>1, <1>2 DEF HashPaths, DeletePaths, WritePaths

LEMMA TakeTaskTypeOK ==
    ASSUME TypeOK, NEW p \in Procs, TakeTask(p)
    PROVE  TypeOK'
<1> USE ThreadsAssumption, LimitsAssumption
<1>1. PICK i \in DOMAIN pending :
         /\ pending' = SubSeq(pending, 1, i - 1) \o SubSeq(pending, i + 1, Len(pending))
         /\ Goto(p, pending[i].kind)
         /\ sync' = [sync EXCEPT ![p] = pending[i].sync]
         /\ arg' = [arg EXCEPT ![p] = pending[i]]
         /\ UNCHANGED todo
  BY Zenon DEF TakeTask
<1> DEFINE e == pending[i]
<1>2. e \in PendingTasks /\ pending' \in Seq(PendingTasks)
  BY Zenon, <1>1, EraseFromSequence DEF TypeOK, QueuesTypeOK
<1>3. QueuesTypeOK'
  BY Zenon, <1>2, QueuesGrow DEF TakeTask, TypeOK, QueuesTypeOK, queues, launcher
<1> HIDE DEF e
<1>4. e.sync \in Syncs /\ e.kind \in {"fileLayout", "syncClient", "fileWriteBlock"}
  BY <1>2 DEF PendingTasks, AboutBlocks, LayoutTask, SyncTask, BlockTask
<1>5. /\ Goto(p, e.kind)
      /\ sync' = [sync EXCEPT ![p] = e.sync]
      /\ arg' = [arg EXCEPT ![p] = e]
      /\ UNCHANGED todo
  BY <1>1 DEF e
<1>6. ThreadsTypeOK'
  BY <1>4, <1>5 DEF TypeOK, ThreadsTypeOK, Goto, Threads, ProcPC, None, Syncs
<1>7. ArgsTypeOK'
  BY <1>2, <1>4, <1>5 DEF TypeOK, ThreadsTypeOK, ArgsTypeOK, Goto, Threads
<1> QED
  BY <1>3, <1>6, <1>7, PartsUnchanged DEF TakeTask, TypeOK, launcher

LEMMA AddFileBlockHashTaskTypeOK ==
    ASSUME TypeOK, NEW t \in Procs, AddFileBlockHashTask(t)
    PROVE  TypeOK'
<1> USE ThreadsAssumption, LimitsAssumption
<1> DEFINE s == sync[t]
           a == arg[t].sync
<1>1. pc[t] = "hash" /\ t \in Threads
  BY DEF AddFileBlockHashTask, Threads
<1>2. PICK path \in todo[t] :
         /\ task' = [task EXCEPT
               ![a].layout[path].hashes = [i \in ServerBlocks(path) |-> Hole],
               ![s].hashes = @ \cup {path}]
         /\ queueSend' = Append(queueSend, PathRequest("hashes", s, path))
         /\ todo' = [todo EXCEPT ![t] = @ \ {path}]
  BY Zenon DEF AddFileBlockHashTask
<1>3. path \in DOMAIN ServerDir /\ path \in Paths
  BY <1>1, ServerDirProperties DEF TypeOK, ThreadsTypeOK
<1>4. s \in Syncs /\ a \in Syncs
  <2>1. \E x \in Syncs : arg[t] = LayoutOf(x)
    BY <1>1 DEF TypeOK, ArgsTypeOK
  <2>2. a \in Syncs
    BY <2>1 DEF LayoutOf
  <2> QED
    BY <1>1, <2>2, SyncOfBusyThread
<1>5. TasksTypeOK'
  <2> DEFINE lay == task[a].layout
             holes == [i \in ServerBlocks(path) |-> Hole]
             lay2 == [lay EXCEPT ![path].hashes = holes]
             tka == [task[a] EXCEPT !.layout = lay2]
             task1 == [task EXCEPT ![a] = tka]
             tks == [task1[s] EXCEPT !.hashes = task1[s].hashes \cup {path}]
  <2>1. DOMAIN task = Syncs /\ \A x \in Syncs : IsSyncTask(task[x])
    BY DEF TypeOK, TasksTypeOK
  <2>2. holes \in Seq(Blocks)
    <3>1. holes \in [1 .. BlockCount(ServerDir[path]) -> Blocks]
      BY DEF ServerBlocks, Blocks
    <3> QED
      BY <1>3, <3>1, ServerDirProperties, SeqDef
  <2> HIDE DEF holes
  <2>3. IsMap(lay2, Paths, [data : Seq(Blocks), hashes : Seq(Blocks)])
    <3>1. IsMap(lay, Paths, [data : Seq(Blocks), hashes : Seq(Blocks)])
      BY Zenon, <1>4, <2>1 DEF IsSyncTask
    <3> HIDE DEF lay
    <3> QED
      BY Zenon, <2>2, <3>1 DEF IsMap
  <2>4. IsSyncTask(tka)
    <3> HIDE DEF lay2
    <3> QED
      BY Zenon, <1>4, <2>1, <2>3, SetField
  <2>5. DOMAIN task1 = Syncs /\ \A x \in Syncs : IsSyncTask(task1[x])
    <3> HIDE DEF tka
    <3> QED
      BY <1>4, <2>1, <2>4
  <2>6. task' = [task1 EXCEPT ![s] = tks]
    BY Zenon, <1>2 DEF holes
  <2> HIDE DEF task1
  <2>7. IsSyncTask(tks)
    <3> DEFINE v == task1[s].hashes \cup {path}
    <3>1. v \in SUBSET Paths
      BY <1>3, <1>4, <2>5 DEF IsSyncTask
    <3> HIDE DEF v
    <3>2. IsSyncTask([task1[s] EXCEPT !.hashes = v])
      BY Zenon, <1>4, <2>5, <3>1, SetField
    <3> QED
      BY <3>2 DEF v
  <2> HIDE DEF tks
  <2> QED
    BY <1>4, <2>5, <2>6, <2>7 DEF TasksTypeOK
<1>6. QueuesTypeOK'
  <2>1. queueSend' \in Seq(Requests)
    BY <1>2, <1>3, <1>4, QueueMembers, AppendProperties DEF TypeOK, QueuesTypeOK
  <2> QED
    BY <2>1, QueuesGrow
       DEF AddFileBlockHashTask, TypeOK, QueuesTypeOK, launcher
<1>7. ThreadsTypeOK' /\ ArgsTypeOK'
  <2> DEFINE rest == todo[t] \ {path}
  <2>1. /\ todo' = [todo EXCEPT ![t] = rest]
        /\ rest \in SUBSET Paths /\ rest \in SUBSET todo[t]
        /\ UNCHANGED <<pc, sync, arg>>
    BY Zenon, <1>1, <1>2 DEF AddFileBlockHashTask, TypeOK, ThreadsTypeOK
  <2> HIDE DEF rest
  <2> QED
    BY Zenon, <1>1, <2>1, VisitTyped
<1> QED
  BY <1>5, <1>6, <1>7, PartsUnchanged DEF AddFileBlockHashTask, TypeOK, launcher

LEMMA WritingPreparedTypeOK ==
    ASSUME TypeOK, NEW t \in Procs, WritingPrepared(t)
    PROVE  TypeOK'
<1> USE ThreadsAssumption, LimitsAssumption
<1> DEFINE s == sync[t]
           lay == FoundLayout(t)
           new == WritePaths(lay)
           writes == [path \in new \cup DOMAIN task[s].writes |->
                        IF path \in new THEN WriteTask(lay, path)
                                        ELSE task[s].writes[path]]
<1>1. pc[t] = "delete" /\ t \in Threads
  BY DEF WritingPrepared, Threads
<1>2. s \in Syncs /\ IsSyncTask(task[s])
  BY <1>1, SyncOfBusyThread
<1>3. /\ new \in SUBSET DOMAIN ServerDir
      /\ \A p \in DOMAIN ServerDir : IsWriteTask(WriteTask(lay, p), p)
  <2>1. PICK x \in Syncs : arg[t] = LayoutOf(x)
    BY <1>1 DEF TypeOK, ArgsTypeOK
  <2>2. IsSyncTask(task[x]) /\ lay = task[x].layout
    BY <2>1 DEF FoundLayout, LayoutOf, TypeOK, TasksTypeOK
  <2> QED
    BY <2>2, LayoutProperties
<1>4. /\ DOMAIN writes \subseteq DOMAIN ServerDir
      /\ \A p \in DOMAIN writes : IsWriteTask(writes[p], p)
  <2> HIDE DEF new, lay
  <2> QED
    BY <1>2, <1>3 DEF IsSyncTask
<1>5. task' = [task EXCEPT ![s].writes = writes, ![s].status = "processWriting"]
  BY DEF WritingPrepared
<1>6. TasksTypeOK'
  <2> DEFINE tk == [task[s] EXCEPT !.writes = writes]
             tk2 == [tk EXCEPT !.status = "processWriting"]
  <2>1. task' = [task EXCEPT ![s] = tk2]
    <3> HIDE DEF writes
    <3> QED
      BY Zenon, <1>2, <1>5 DEF TypeOK, TasksTypeOK
  <2>2. IsSyncTask(tk)
    <3> HIDE DEF writes
    <3> QED
      BY <1>2, <1>4, SetField
  <2> HIDE DEF tk
  <2>3. IsSyncTask(tk2)
    BY Zenon, <2>2, SetField DEF TaskStatus
  <2> HIDE DEF tk2
  <2> QED
    BY Zenon, <1>2, <2>1, <2>3, SetTask DEF TypeOK
<1>7. ThreadsTypeOK' /\ ArgsTypeOK'
  BY <1>1, ContinueTyped DEF WritingPrepared, FreePC, SharedPC
<1> QED
  BY <1>6, <1>7, PartsUnchanged DEF WritingPrepared, TypeOK, launcher

LEMMA ReadFileBlockTypeOK ==
    ASSUME TypeOK, NEW t \in Procs, ReadFileBlock(t)
    PROVE  TypeOK'
<1> USE ThreadsAssumption, LimitsAssumption
<1> DEFINE s == sync[t]
           path == arg[t].path
           i == arg[t].index
<1>1. pc[t] # "idle" /\ t \in Threads
  BY Zenon DEF ReadFileBlock, Threads
<1>2. s \in Syncs /\ IsSyncTask(task[s])
  BY <1>1, SyncOfBusyThread
<1>3. TasksTypeOK'
  <2>1. CASE UNCHANGED task
    BY <2>1, PartsUnchanged
  <2>2. ASSUME path \in DOMAIN task[s].writes, i \in DOMAIN task[s].writes[path].blocks,
               NEW v \in {"dataReady", "failure"},
               task' = [task EXCEPT ![s].writes[path].blocks[i] = v]
        PROVE  TasksTypeOK'
    <3> DEFINE blocks == task[s].writes[path].blocks
               new == [blocks EXCEPT ![i] = v]
    <3>1. IsMap(blocks, ServerBlocks(path), BlockStatus)
      BY <1>2, <2>2 DEF IsSyncTask, IsWriteTask
    <3>2. IsMap(new, ServerBlocks(path), BlockStatus)
      <4> HIDE DEF blocks
      <4> QED
        BY Zenon, <3>1 DEF IsMap, BlockStatus
    <3>3. task' = [task EXCEPT ![s].writes[path].blocks = new]
      BY <2>2
    <3> HIDE DEF new
    <3> QED
      BY Zenon, <1>2, <2>2, <3>2, <3>3, SetWriteOfTask
  <2> QED
    BY Zenon, <2>1, <2>2 DEF ReadFileBlock
<1>4. ThreadsTypeOK' /\ ArgsTypeOK'
  BY Zenon, <1>1, ContinueTyped, ReturnTyped DEF ReadFileBlock, FreePC, SharedPC
<1> QED
  BY Zenon, <1>3, <1>4, PartsUnchanged DEF ReadFileBlock, TypeOK, launcher

LEMMA RunTaskTypeOK ==
    ASSUME TypeOK, NEW t \in Procs, RunTaskStep(t)
    PROVE  TypeOK'
<1> USE ThreadsAssumption, LimitsAssumption
<1> t \in Threads /\ t # Main
  BY DEF Threads
<1> DEFINE s == sync[t]
<1>a. pc[t] # "idle" => s \in Syncs /\ IsSyncTask(task[s])
  BY SyncOfBusyThread
<1>b. pc[t] \in {"hashLock", "deleteLock"} =>
         /\ HashPaths(FoundLayout(t)) \in SUBSET DOMAIN ServerDir
         /\ HashPaths(FoundLayout(t)) \in SUBSET Paths
         /\ DeletePaths(FoundLayout(t)) \in SUBSET Paths
  <2> SUFFICES ASSUME pc[t] \in {"hashLock", "deleteLock"}
               PROVE  /\ HashPaths(FoundLayout(t)) \in SUBSET DOMAIN ServerDir
                      /\ HashPaths(FoundLayout(t)) \in SUBSET Paths
                      /\ DeletePaths(FoundLayout(t)) \in SUBSET Paths
    OBVIOUS
  <2>1. PICK x \in Syncs : arg[t] = LayoutOf(x)
    BY DEF TypeOK, ArgsTypeOK
  <2>2. IsSyncTask(task[x]) /\ FoundLayout(t) = task[x].layout
    BY <2>1 DEF FoundLayout, LayoutOf, TypeOK, TasksTypeOK
  <2> QED
    BY <2>2, LayoutProperties, ServerDirProperties
<1>1. CASE TakeTask(t)
  BY <1>1, TakeTaskTypeOK
<1>2. CASE ProcessFileLayoutServer(t) \/ SendBlockRead(t)
  <2>1. ThreadsTypeOK' /\ ArgsTypeOK'
    <3>1. CASE Return(t)
      BY <3>1, ReturnTyped
    <3>2. CASE ~ Return(t)
      <4>1. /\ taskSync \in Syncs
            /\ Goto(t, "building") \/ Goto(t, "sendLock")
            /\ sync' = [sync EXCEPT ![t] = taskSync]
            /\ UNCHANGED <<todo, arg>>
        BY <1>2, <3>2
           DEF ProcessFileLayoutServer, SendBlockRead, TypeOK, ClientTypeOK, Syncs, None
      <4> QED
        BY Zenon, <4>1, MoveTyped DEF FreePC, SharedPC
    <3> QED
      BY <3>1, <3>2
  <2> QED
    BY <1>2, <2>1, PartsUnchanged
       DEF ProcessFileLayoutServer, SendBlockRead, TypeOK, launcher
<1>3. CASE LayoutServerBuilt(t)
  <2>1. pc[t] # "idle"
    BY <1>3 DEF LayoutServerBuilt
  <2>2. ClientTypeOK'
    BY <1>3 DEF LayoutServerBuilt, TypeOK, ClientTypeOK
  <2>3. ThreadsTypeOK' /\ ArgsTypeOK'
    BY <1>3, <2>1, ContinueTyped DEF LayoutServerBuilt, FreePC, SharedPC
  <2> QED
    BY <1>3, <2>2, <2>3, PartsUnchanged DEF LayoutServerBuilt, TypeOK, launcher
<1>4. CASE RunSyncTask(t)
  <2>1. pc[t] # "idle"
    BY <1>4 DEF RunSyncTask
  <2>2. ThreadsTypeOK' /\ ArgsTypeOK'
    BY <1>4, <2>1, ContinueTyped, ReturnTyped DEF RunSyncTask, FreePC
  <2> QED
    BY <1>4, <2>2, PartsUnchanged DEF RunSyncTask, TypeOK, launcher
<1>5. CASE LookUpLayouts(t)
  <2>1. pc[t] # "idle"
    BY <1>5 DEF LookUpLayouts
  <2>2. ClientTypeOK'
    BY <1>5 DEF LookUpLayouts, TypeOK, ClientTypeOK
  <2>3. ThreadsTypeOK' /\ ArgsTypeOK'
    <3>1. CASE Continue(t, "fail")
      BY <2>1, <3>1, ContinueTyped DEF FreePC, SharedPC
    <3>2. CASE ~ Continue(t, "fail")
      <4>1. /\ layoutClient \in Syncs
            /\ Goto(t, "hashLock") \/ Goto(t, "deleteLock")
            /\ arg' = [arg EXCEPT ![t] = LayoutOf(layoutClient)]
            /\ UNCHANGED <<sync, todo>>
        BY <1>5, <3>2 DEF LookUpLayouts, TypeOK, ClientTypeOK, Syncs, None
      <4>2. ThreadsTypeOK'
        BY <2>1, <4>1 DEF TypeOK, ThreadsTypeOK, Goto, Threads, ProcPC
      <4>3. ArgsTypeOK'
        BY <4>1 DEF TypeOK, ThreadsTypeOK, ArgsTypeOK, Goto, Threads
      <4> QED
        BY <4>2, <4>3
    <3> QED
      BY <3>1, <3>2
  <2> QED
    BY <1>5, <2>2, <2>3, PartsUnchanged DEF LookUpLayouts, TypeOK, launcher
<1>6. CASE LockForHashing(t)
  <2>1. pc[t] = "hashLock" /\ Goto(t, "hash") /\ UNCHANGED <<sync, arg>>
    BY <1>6 DEF LockForHashing
  <2>2. todo' = [todo EXCEPT ![t] = HashPaths(FoundLayout(t))]
    BY <1>6 DEF LockForHashing
  <2>3. ThreadsTypeOK' /\ ArgsTypeOK'
    BY Zenon, <1>b, <2>1, <2>2, VisitTyped
  <2> QED
    BY <1>6, <2>3, PartsUnchanged DEF LockForHashing, TypeOK, launcher
<1>7. CASE AddFileBlockHashTask(t)
  BY <1>7, AddFileBlockHashTaskTypeOK
<1>8. CASE HashingPrepared(t)
  <2>1. pc[t] # "idle"
    BY <1>8 DEF HashingPrepared
  <2>2. TasksTypeOK'
    BY Zenon, <1>8, <1>a, <2>1, SetFieldOfTask DEF HashingPrepared, TaskStatus
  <2>3. ThreadsTypeOK' /\ ArgsTypeOK'
    BY <1>8, <2>1, ContinueTyped DEF HashingPrepared, FreePC
  <2> QED
    BY <1>8, <2>2, <2>3, PartsUnchanged DEF HashingPrepared, TypeOK, launcher
<1>9. CASE LockForWriting(t)
  <2>1. pc[t] = "deleteLock" /\ Goto(t, "delete") /\ UNCHANGED <<sync, arg>>
    BY <1>9 DEF LockForWriting
  <2>2. todo' = [todo EXCEPT ![t] = DeletePaths(FoundLayout(t))]
    BY <1>9 DEF LockForWriting
  <2>3. ThreadsTypeOK' /\ ArgsTypeOK'
    BY Zenon, <1>b, <2>1, <2>2, VisitTyped
  <2> QED
    BY <1>9, <2>3, PartsUnchanged DEF LockForWriting, TypeOK, launcher
<1>10. CASE AddFileDeleteTask(t)
  <2>1. pc[t] = "delete"
    BY <1>10 DEF AddFileDeleteTask
  <2>2. PICK path \in todo[t] :
           /\ task' = [task EXCEPT ![s].deletes = @ \cup {path}]
           /\ queueSend' = Append(queueSend, PathRequest("delete", s, path))
           /\ todo' = [todo EXCEPT ![t] = @ \ {path}]
    BY Zenon, <1>10 DEF AddFileDeleteTask
  <2>3. path \in Paths /\ s \in Syncs
    BY <1>a, <2>1 DEF TypeOK, ThreadsTypeOK
  <2>4. TasksTypeOK'
    <3> DEFINE v == task[s].deletes \cup {path}
    <3>1. v \in SUBSET Paths
      BY <1>a, <2>1, <2>3 DEF IsSyncTask
    <3>2. task' = [task EXCEPT ![s].deletes = v]
      BY <2>2
    <3> HIDE DEF v
    <3> QED
      BY Zenon, <2>3, <3>1, <3>2, SetFieldOfTask
  <2>5. queueSend' \in Seq(Requests)
    BY <2>2, <2>3, QueueMembers, AppendProperties DEF TypeOK, QueuesTypeOK
  <2>6. QueuesTypeOK'
    BY <1>10, <2>5, QueuesGrow DEF AddFileDeleteTask, TypeOK, QueuesTypeOK, launcher
  <2>7. ThreadsTypeOK' /\ ArgsTypeOK'
    <3> DEFINE rest == todo[t] \ {path}
    <3>1. /\ todo' = [todo EXCEPT ![t] = rest]
          /\ rest \in SUBSET Paths /\ rest \in SUBSET todo[t]
          /\ UNCHANGED <<pc, sync, arg>>
      BY Zenon, <1>10, <2>2 DEF AddFileDeleteTask, TypeOK, ThreadsTypeOK
    <3> HIDE DEF rest
    <3> QED
      BY Zenon, <3>1, VisitTyped
  <2> QED
    BY <1>10, <2>4, <2>6, <2>7, PartsUnchanged DEF AddFileDeleteTask, TypeOK, launcher
<1>11. CASE WritingPrepared(t)
  BY <1>11, WritingPreparedTypeOK
<1>12. CASE ReadFileBlock(t)
  BY <1>12, ReadFileBlockTypeOK
<1> QED
  BY <1>1, <1>2, <1>3, <1>4, <1>5, <1>6, <1>7, <1>8, <1>9, <1>10, <1>11, <1>12
     DEF RunTaskStep

-------------------------------------------------------------------------------
(* The launcher *)

LEMMA WrittenTyped ==
    ASSUME IsDir(files), NEW p \in DOMAIN ServerDir, NEW i \in ServerBlocks(p)
    PROVE  Written(p, i) \in Seq(Blocks)
<1> DEFINE old == IF p \in DOMAIN files THEN files[p] ELSE <<>>
           length == IF i > Len(old) THEN i ELSE Len(old)
           new == [j \in 1 .. length |-> CASE j = i -> ServerDir[p][i]
                                           [] j # i /\ j <= Len(old) -> old[j]
                                           [] OTHER -> Hole]
<1>1. old \in Seq(Blocks)
  BY EmptySeq DEF IsDir, IsMap
<1>2. i \in Nat /\ (ServerDir[p] # <<>> => ServerDir[p][i] \in Blocks)
  BY ServerDirProperties
<1> HIDE DEF old
<1>3. Len(old) \in Nat /\ \A j \in 1 .. Len(old) : old[j] \in Blocks
  BY <1>1, LenProperties, ElementOfSeq
<1>4. length \in Nat
  BY <1>2, <1>3
<1>5. ASSUME ServerDir[p] # <<>>
      PROVE  new \in Seq(Blocks)
  <2> HIDE DEF length
  <2>1. ASSUME NEW j \in 1 .. length
        PROVE  new[j] \in Blocks
    <3>1. CASE j = i
      BY <1>2, <1>5, <3>1
    <3>2. CASE j # i /\ j <= Len(old)
      BY <1>3, <1>4, <3>2
    <3>3. CASE j # i /\ ~ (j <= Len(old))
      BY <3>3 DEF Blocks
    <3> QED
      BY <3>1, <3>2, <3>3
  <2>2. new \in [1 .. length -> Blocks]
    BY <2>1
  <2> QED
    BY <1>4, <2>2, SeqDef
<1> QED
  BY <1>1, <1>5 DEF Written, old

LEMMA RequestProperties ==
    ASSUME NEW m \in Requests
    PROVE  /\ m.kind \in {"layout", "hashes", "write", "delete", "data", "finish"}
           /\ m.kind = "data" => m.path \in DOMAIN ServerDir /\ m.index \in ServerBlocks(m.path)
BY DEF Requests, AboutBlocks, LayoutRequest, PathRequest, DataRequest

LEMMA FilesAfterTyped ==
    ASSUME IsDir(files), NEW m \in Requests
    PROVE  IsDir(FilesAfter(m))
<1>1. CASE m.kind = "delete"
  <2>1. IsMap(Without(files, m.path), Paths, Seq(Blocks))
    BY Zenon, WithoutProperties DEF IsDir
  <2> QED
    BY <1>1, <2>1 DEF FilesAfter, IsDir
<1>2. CASE m.kind = "write"
  BY <1>2, EmptySeq DEF FilesAfter, IsDir, IsMap
<1>3. CASE m.kind = "data"
  <2>1. m.path \in DOMAIN ServerDir /\ m.index \in ServerBlocks(m.path)
    BY <1>3, RequestProperties
  <2>2. Written(m.path, m.index) \in Seq(Blocks) /\ m.path \in Paths
    BY <2>1, WrittenTyped, ServerDirProperties
  <2>3. FilesAfter(m) = [q \in DOMAIN files \cup {m.path} |->
                          IF q = m.path THEN Written(q, m.index) ELSE files[q]]
    BY <1>3 DEF FilesAfter
  <2> QED
    BY <2>2, <2>3 DEF IsDir, IsMap
<1>4. CASE m.kind \notin {"delete", "write", "data"}
  BY <1>4 DEF FilesAfter
<1> QED
  BY <1>1, <1>2, <1>3, <1>4

LEMMA AnswerTypeOK == TypeOK /\ Answer => TypeOK'
<1> SUFFICES ASSUME TypeOK, Answer PROVE TypeOK'
  OBVIOUS
<1>1. PICK m \in wire, ok \in BOOLEAN :
         /\ wire' = wire \ {m}
         /\ files' = IF ok THEN FilesAfter(m) ELSE files
         /\ queueReceived' = Append(queueReceived,
               [req |-> m, ok |-> ok,
                body |-> CASE m.kind = "layout" -> files
                           [] m.kind = "hashes" /\ m.path \in DOMAIN files /\ ok ->
                                 files[m.path]
                           [] OTHER -> <<>>])
  BY DEF Answer
<1> DEFINE body == CASE m.kind = "layout" -> files
                     [] m.kind = "hashes" /\ m.path \in DOMAIN files /\ ok -> files[m.path]
                     [] OTHER -> <<>>
           r == [req |-> m, ok |-> ok, body |-> body]
<1>2. m \in Requests /\ IsDir(files)
  BY DEF TypeOK, QueuesTypeOK
<1>3. IsResponse(r)
  <2>1. m.kind = "layout" => body = files
    OBVIOUS
  <2>2. m.kind = "hashes" => body \in Seq(Blocks)
    BY <1>2, EmptySeq DEF IsDir, IsMap
  <2> HIDE DEF body
  <2> QED
    BY <1>2, <2>1, <2>2 DEF IsResponse
<1>4. queueReceived' = Append(queueReceived, r)
  BY <1>1
<1> HIDE DEF r
<1>5. /\ queueReceived' \in Seq(Range(queueReceived'))
      /\ Range(queueReceived') = Range(queueReceived) \cup {r}
  BY <1>4, AppendTyped DEF TypeOK, QueuesTypeOK
<1>6. QueuesTypeOK'
  BY <1>1, <1>3, <1>5 DEF Answer, TypeOK, QueuesTypeOK
<1>7. IsDir(files)'
  <2>1. IsDir(FilesAfter(m))
    BY <1>2, FilesAfterTyped
  <2>2. files' = files \/ files' = FilesAfter(m)
    BY <1>1
  <2> QED
    BY <1>2, <2>1, <2>2 DEF IsDir
<1> QED
  BY <1>6, <1>7, PartsUnchanged DEF Answer, TypeOK

-------------------------------------------------------------------------------
LEMMA NextTypeOK == TypeOK /\ [Next]_vars => TypeOK'
<1> SUFFICES ASSUME TypeOK, [Next]_vars PROVE TypeOK'
  OBVIOUS
<1>1. CASE Synchronize
  BY <1>1, SynchronizeTypeOK
<1>2. CASE UpdateStep
  BY <1>2, UpdateTypeOK
<1>3. ASSUME NEW t \in Procs, RunTaskStep(t) PROVE TypeOK'
  BY <1>3, RunTaskTypeOK
<1>4. ASSUME NEW t \in Threads, SharedStep(t) PROVE TypeOK'
  BY <1>4, SharedTypeOK
<1>5. CASE Answer
  BY <1>5, AnswerTypeOK
<1>6. CASE UNCHANGED vars
  BY <1>6, PartsUnchanged DEF vars, launcher, TypeOK
<1> QED
  BY <1>1, <1>2, <1>3, <1>4, <1>5, <1>6 DEF Next

(* Types, and with them the limits: whatever the order of requests, answers and
   failures, the guarded decrements never take a counter out of its range, and
   SendNextWriteRequests() never starts more files or blocks than
   pMaxInProgressFiles and pMaxInProgressBlocks allow. *)
THEOREM TypeCorrect == Spec => []TypeOK
<1>1. Init => TypeOK
  BY InitTypeOK
<1>2. TypeOK /\ [Next]_vars => TypeOK'
  BY NextTypeOK
<1> QED
  BY <1>1, <1>2, PTL DEF Spec

-------------------------------------------------------------------------------
(* Blocks start in order *)

\* A step that leaves the write tasks alone.
LEMMA SameWrites ==
    ASSUME BlocksStartInOrder, \A s \in Syncs : task'[s].writes = task[s].writes
    PROVE  BlocksStartInOrder'
BY DEF BlocksStartInOrder

\* A step that sets one field of one sync task, another than the write tasks.
LEMMA OtherField ==
    ASSUME TypeOK, BlocksStartInOrder, NEW s, NEW v,
           \/ task' = [task EXCEPT ![s].status = v]
           \/ task' = [task EXCEPT ![s].want = v]
           \/ task' = [task EXCEPT ![s].layout = v]
           \/ task' = [task EXCEPT ![s].hashes = v]
           \/ task' = [task EXCEPT ![s].deletes = v]
    PROVE  BlocksStartInOrder'
<1>1. ASSUME NEW x \in Syncs PROVE task'[x].writes = task[x].writes
  <2>1. DOMAIN task = Syncs
        /\ DOMAIN task[x] = {"status", "want", "layout", "hashes", "deletes", "writes"}
    BY DEF TypeOK, TasksTypeOK, IsSyncTask, NewTask
  <2> QED
    BY <2>1
<1> QED
  BY <1>1, SameWrites

\* A step that changes the status or the blocks of one write task.
LEMMA OneWriteTask ==
    ASSUME TypeOK, BlocksStartInOrder, NEW s \in Syncs, NEW p \in DOMAIN task[s].writes
    PROVE  /\ \A v : task' = [task EXCEPT ![s].writes[p].status = v] => BlocksStartInOrder'
           /\ \A v : task' = [task EXCEPT ![s].writes[p].blocks = v] /\ InOrder(v)
                        => BlocksStartInOrder'
<1> DEFINE w == task[s].writes[p]
<1>1. /\ DOMAIN task = Syncs
      /\ DOMAIN task[s] = {"status", "want", "layout", "hashes", "deletes", "writes"}
      /\ DOMAIN w = {"status", "blocks"}
  BY DEF TypeOK, TasksTypeOK, IsSyncTask, NewTask, IsWriteTask
<1>2. ASSUME NEW u, InOrder(u.blocks), task' = [task EXCEPT ![s].writes[p] = u]
      PROVE  BlocksStartInOrder'
  <2>1. \A x \in Syncs : x # s => task'[x] = task[x]
    BY <1>1, <1>2
  <2>2. task'[s].writes = [task[s].writes EXCEPT ![p] = u]
    BY <1>1, <1>2
  <2> QED
    BY <1>2, <2>1, <2>2 DEF BlocksStartInOrder
<1>3. ASSUME NEW v, task' = [task EXCEPT ![s].writes[p].status = v]
      PROVE  BlocksStartInOrder'
  <2> DEFINE u == [w EXCEPT !.status = v]
  <2>1. task' = [task EXCEPT ![s].writes[p] = u]
    BY <1>3
  <2>2. InOrder(u.blocks)
    <3>1. u.blocks = w.blocks
      BY <1>1
    <3> QED
      BY <3>1 DEF BlocksStartInOrder
  <2> HIDE DEF u
  <2> QED
    BY Zenon, <1>2, <2>1, <2>2
<1>4. ASSUME NEW v, InOrder(v), task' = [task EXCEPT ![s].writes[p].blocks = v]
      PROVE  BlocksStartInOrder'
  <2> DEFINE u == [w EXCEPT !.blocks = v]
  <2>1. task' = [task EXCEPT ![s].writes[p] = u]
    BY <1>4
  <2>2. InOrder(u.blocks)
    BY <1>1, <1>4
  <2> HIDE DEF u
  <2> QED
    BY Zenon, <1>2, <2>1, <2>2
<1> QED
  BY <1>3, <1>4

\* SendNextWriteRequests() starts the blocks at the front of those waiting.
LEMMA SendFileDataInOrder ==
    ASSUME TypeOK, BlocksStartInOrder, NEW t \in Threads, NEW p, SendFileData(t, p)
    PROVE  BlocksStartInOrder'
<1> DEFINE s == sync[t]
           blocks == task[s].writes[p].blocks
           empty == ServerDir[p] = <<>>
           visited(S) == {i \in DOMAIN blocks : \A j \in DOMAIN blocks \ S :
                            blocks[j] = "pending" => i < j}
           reads(S) == IF empty THEN {} ELSE S
           sends(S) == {i \in visited(S) : blocks[i] = "dataReady"} \cup (S \ reads(S))
<1>1. pc[t] # "idle" /\ p \in DOMAIN task[s].writes
  BY Zenon DEF SendFileData, Visit, Writing
<1>2. s \in Syncs /\ IsSyncTask(task[s])
  BY <1>1, SyncOfBusyThread
<1>3. DOMAIN blocks \in SUBSET Nat
  <2>1. p \in DOMAIN ServerDir /\ DOMAIN blocks \subseteq ServerBlocks(p)
    BY <1>1, <1>2 DEF IsSyncTask, IsWriteTask, IsMap
  <2> QED
    BY <2>1, ServerDirProperties
<1>4. PICK S \in Started(blocks) :
         task' = [task EXCEPT ![s].writes[p].blocks =
            [i \in DOMAIN blocks |->
                CASE i \in reads(S) -> "readingData"
                  [] i \in sends(S) -> "dataSent"
                  [] OTHER -> blocks[i]]]
  BY Zenon DEF SendFileData
<1> DEFINE v == [i \in DOMAIN blocks |->
                   CASE i \in reads(S) -> "readingData"
                     [] i \in sends(S) -> "dataSent"
                     [] OTHER -> blocks[i]]
<1>5. \A i \in DOMAIN blocks : v[i] = "pending" <=> blocks[i] = "pending" /\ i \notin S
  BY Zenon DEF Started
<1>6. \A i \in S, j \in DOMAIN blocks \ S : blocks[j] = "pending" => i < j
  BY DEF Started
<1>7. InOrder(blocks)
  BY <1>1, <1>2 DEF BlocksStartInOrder
<1>8. InOrder(v)
  <2>1. DOMAIN v = DOMAIN blocks
    OBVIOUS
  <2> HIDE DEF blocks, v
  <2> QED
    BY <1>3, <1>5, <1>6, <1>7, <2>1 DEF InOrder
<1>9. task' = [task EXCEPT ![s].writes[p].blocks = v]
  BY Zenon, <1>4
<1> HIDE DEF v
<1> QED
  BY Zenon, <1>1, <1>2, <1>8, <1>9, OneWriteTask

\* A block acknowledged leaves the list, a file finished leaves the task.
LEMMA RemovalInOrder ==
    ASSUME TypeOK, BlocksStartInOrder,
           ProcessFileDataReceived \/ ProcessResponseFinishWriteFile
    PROVE  BlocksStartInOrder'
<1> DEFINE s == sync[Main]
           p == arg[Main].req.path
           i == arg[Main].req.index
<1> Main \in Threads
  BY DEF Threads
<1>1. s \in Syncs /\ IsSyncTask(task[s])
  BY Zenon, SyncOfBusyThread
     DEF ProcessFileDataReceived, ProcessResponseFinishWriteFile, Applies
<1>2. CASE UNCHANGED task
  BY <1>2, SameWrites
<1>3. CASE /\ p \in DOMAIN task[s].writes
           /\ task' = [task EXCEPT ![s].writes[p].blocks = Without(@, i)]
  <2> DEFINE blocks == task[s].writes[p].blocks
             v == Without(blocks, i)
  <2>1. InOrder(blocks)
    BY <1>1, <1>3 DEF BlocksStartInOrder
  <2>2. task' = [task EXCEPT ![s].writes[p].blocks = v]
    BY <1>3
  <2>3. InOrder(v)
    <3> HIDE DEF blocks
    <3>1. DOMAIN v = DOMAIN blocks \ {i}
      BY Zenon, WithoutProperties
    <3>2. \A x \in DOMAIN blocks \ {i} : v[x] = blocks[x]
      BY Zenon, WithoutProperties
    <3> HIDE DEF v
    <3> QED
      BY <2>1, <3>1, <3>2 DEF InOrder
  <2> HIDE DEF v
  <2>4. s \in Syncs /\ p \in DOMAIN task[s].writes
    BY <1>1, <1>3
  <2>5. \A x : task' = [task EXCEPT ![s].writes[p].blocks = x] /\ InOrder(x)
                  => BlocksStartInOrder'
    BY Zenon, <2>4, OneWriteTask
  <2> QED
    BY Zenon, <2>2, <2>3, <2>5
<1>4. CASE task' = [task EXCEPT ![s].writes = Without(@, p)]
  <2> DEFINE f == task[s].writes
             v == Without(f, p)
  <2>1. DOMAIN v \subseteq DOMAIN f /\ \A x \in DOMAIN v : v[x] = f[x]
    <3> HIDE DEF f
    <3>1. DOMAIN v = DOMAIN f \ {p}
      BY Zenon, WithoutProperties
    <3>2. \A x \in DOMAIN f \ {p} : v[x] = f[x]
      BY Zenon, WithoutProperties
    <3> QED
      BY <3>1, <3>2
  <2>2. task' = [task EXCEPT ![s].writes = v]
    BY <1>4
  <2> HIDE DEF v
  <2>3. /\ task'[s].writes = v
        /\ \A x \in Syncs : x # s => task'[x] = task[x]
    BY <1>1, <2>2 DEF TypeOK, TasksTypeOK, IsSyncTask, NewTask
  <2> QED
    BY <1>1, <2>1, <2>3 DEF BlocksStartInOrder
<1> QED
  BY Zenon, <1>2, <1>3, <1>4
     DEF ProcessFileDataReceived, ProcessResponseFinishWriteFile, Writing

\* A file gets a new write task, all of its blocks pending, or keeps the old one.
LEMMA WritingPreparedInOrder ==
    ASSUME TypeOK, BlocksStartInOrder, NEW t \in Procs, WritingPrepared(t)
    PROVE  BlocksStartInOrder'
<1> DEFINE s == sync[t]
           lay == FoundLayout(t)
           new == WritePaths(lay)
           writes == [path \in new \cup DOMAIN task[s].writes |->
                        IF path \in new THEN WriteTask(lay, path)
                                        ELSE task[s].writes[path]]
<1>1. s \in Syncs
  BY SyncOfBusyThread DEF WritingPrepared, Threads
<1>2. \A path : InOrder(WriteTask(lay, path).blocks)
  BY DEF WriteTask, InOrder
<1>3. ASSUME NEW path \in DOMAIN writes
      PROVE  InOrder(writes[path].blocks)
  <2> HIDE DEF new, lay
  <2>1. CASE path \in new
    BY <1>2, <2>1
  <2>2. CASE path \notin new
    BY <1>1, <2>2 DEF BlocksStartInOrder
  <2> QED
    BY <2>1, <2>2
<1>4. task' = [task EXCEPT ![s].writes = writes, ![s].status = "processWriting"]
  BY DEF WritingPrepared
<1> HIDE DEF writes
<1>5. /\ task'[s].writes = writes
      /\ \A x \in Syncs : x # s => task'[x] = task[x]
  BY <1>1, <1>4 DEF TypeOK, TasksTypeOK, IsSyncTask, NewTask
<1> QED
  BY <1>3, <1>5 DEF BlocksStartInOrder

\* A block being read is not pending, nor is it afterwards.
LEMMA ReadFileBlockInOrder ==
    ASSUME TypeOK, BlocksStartInOrder, NEW t \in Procs, ReadFileBlock(t)
    PROVE  BlocksStartInOrder'
<1> DEFINE s == sync[t]
           path == arg[t].path
           i == arg[t].index
           blocks == task[s].writes[path].blocks
<1>1. s \in Syncs
  BY Zenon, SyncOfBusyThread DEF ReadFileBlock, Threads
<1>2. CASE UNCHANGED task
  BY <1>2, SameWrites
<1>3. ASSUME path \in DOMAIN task[s].writes, i \in DOMAIN blocks,
             blocks[i] = "readingData", NEW v \in {"dataReady", "failure"},
             task' = [task EXCEPT ![s].writes[path].blocks[i] = v]
      PROVE  BlocksStartInOrder'
  <2> DEFINE new == [blocks EXCEPT ![i] = v]
  <2>1. InOrder(blocks)
    BY <1>1, <1>3 DEF BlocksStartInOrder
  <2>2. InOrder(new)
    <3> HIDE DEF blocks
    <3> QED
      BY <1>3, <2>1 DEF InOrder
  <2>3. task' = [task EXCEPT ![s].writes[path].blocks = new]
    BY <1>3
  <2> HIDE DEF new
  <2>4. PICK k, p, w : k = s /\ p = path /\ w = new
    OBVIOUS
  <2>5. k \in Syncs /\ p \in DOMAIN task[k].writes /\ InOrder(w)
    BY <1>1, <1>3, <2>2, <2>4
  <2>6. task' = [task EXCEPT ![k].writes[p].blocks = w]
    BY Zenon, <2>3, <2>4
  <2> QED
    BY <2>5, <2>6, OneWriteTask
<1> QED
  BY Zenon, <1>2, <1>3 DEF ReadFileBlock

\* Hashes are asked for, or arrive: the layout and the hash tasks change.
LEMMA AddFileBlockHashTaskKeeps ==
    ASSUME TypeOK, NEW t \in Procs, AddFileBlockHashTask(t), NEW x \in Syncs
    PROVE  task'[x].writes = task[x].writes /\ task'[x].status = task[x].status
<1>1. PICK path \in todo[t] :
         task' = [task EXCEPT
            ![arg[t].sync].layout[path].hashes = [i \in ServerBlocks(path) |-> Hole],
            ![sync[t]].hashes = @ \cup {path}]
  BY Zenon DEF AddFileBlockHashTask
<1>2. DOMAIN task = Syncs
      /\ DOMAIN task[x] = {"status", "want", "layout", "hashes", "deletes", "writes"}
  BY DEF TypeOK, TasksTypeOK, IsSyncTask, NewTask
<1> QED
  BY <1>1, <1>2

LEMMA ResponseFileBlockHashesKeeps ==
    ASSUME TypeOK, ProcessResponseFileBlockHashes, NEW x \in Syncs
    PROVE  task'[x].writes = task[x].writes /\ task'[x].status = task[x].status
<1> DEFINE s == sync[Main]
           p == arg[Main].req.path
           hashes == arg[Main].body
           l == layoutClient
           erased == [task EXCEPT ![s].hashes = @ \ {p}]
<1>1. /\ DOMAIN task = Syncs
      /\ DOMAIN task[x] = {"status", "want", "layout", "hashes", "deletes", "writes"}
  BY DEF TypeOK, TasksTypeOK, IsSyncTask, NewTask
<1>2. /\ DOMAIN erased = Syncs
      /\ DOMAIN erased[x] = DOMAIN task[x]
      /\ erased[x].writes = task[x].writes
      /\ erased[x].status = task[x].status
  BY <1>1
<1>3. \/ task' = task
      \/ task' = erased
      \/ task' = [erased EXCEPT ![l].layout[p].hashes =
            [i \in DOMAIN @ |-> IF i \in DOMAIN hashes THEN hashes[i] ELSE @[i]]]
  BY Zenon DEF ProcessResponseFileBlockHashes
<1> HIDE DEF erased, p, hashes, l
<1>4. ASSUME NEW v, task' = [erased EXCEPT ![l].layout = v]
      PROVE  task'[x].writes = task[x].writes /\ task'[x].status = task[x].status
  BY <1>1, <1>2, <1>4
<1> QED
  BY <1>2, <1>3, <1>4

LEMMA UpdateInOrder ==
    ASSUME TypeOK, BlocksStartInOrder, UpdateStep
    PROVE  BlocksStartInOrder'
<1>1. CASE UNCHANGED task
  BY <1>1, SameWrites
<1>2. CASE ProcessResponseFileLayout
  BY Zenon, <1>1, <1>2, OtherField DEF ProcessResponseFileLayout
<1>3. CASE ProcessResponseFileBlockHashes
  BY <1>3, ResponseFileBlockHashesKeeps, SameWrites
<1>4. CASE CheckFinishedHashes
  BY <1>1, <1>4, OtherField DEF CheckFinishedHashes
<1>5. CASE ProcessResponseDeleteFile
  BY <1>1, <1>5, OtherField DEF ProcessResponseDeleteFile
<1>6. CASE ProcessResponseWriteFile
  <2>0. PICK s, p : s = sync[Main] /\ p = arg[Main].req.path
    OBVIOUS
  <2>1. s \in Syncs
    BY <1>6, <2>0, SyncOfBusyThread DEF ProcessResponseWriteFile, Applies, Threads
  <2>2. CASE Writing(s, p, "preparing")
    <3>1. PICK v : task' = [task EXCEPT ![s].writes[p].status = v]
      BY Zenon, <1>6, <2>0, <2>2 DEF ProcessResponseWriteFile
    <3>2. p \in DOMAIN task[s].writes
      BY <2>2 DEF Writing
    <3> QED
      BY Zenon, <2>1, <3>1, <3>2, OneWriteTask
  <2>3. CASE ~ Writing(s, p, "preparing")
    BY <1>1, <1>6, <2>0, <2>3 DEF ProcessResponseWriteFile
  <2> QED
    BY <2>2, <2>3
<1>7. CASE ProcessFileDataReceived \/ ProcessResponseFinishWriteFile
  BY <1>7, RemovalInOrder
<1>8. CASE CheckFinishedWrite
  BY Zenon, <1>1, <1>8, OtherField DEF CheckFinishedWrite
<1>9. CASE SendQueuedMessages \/ ReceiveMessage \/ EnqueueSyncTask
  BY <1>1, <1>9 DEF SendQueuedMessages, ReceiveMessage, EnqueueSyncTask
<1> QED
  BY <1>2, <1>3, <1>4, <1>5, <1>6, <1>7, <1>8, <1>9 DEF UpdateStep

LEMMA RunTaskInOrder ==
    ASSUME TypeOK, BlocksStartInOrder, NEW t \in Procs, RunTaskStep(t)
    PROVE  BlocksStartInOrder'
<1>1. CASE UNCHANGED task
  BY <1>1, SameWrites
<1>2. CASE AddFileBlockHashTask(t)
  BY <1>2, AddFileBlockHashTaskKeeps, SameWrites
<1>3. CASE HashingPrepared(t)
  BY Zenon, <1>3, OtherField DEF HashingPrepared
<1>4. CASE AddFileDeleteTask(t)
  BY Zenon, <1>4, OtherField DEF AddFileDeleteTask
<1>5. CASE WritingPrepared(t)
  BY <1>5, WritingPreparedInOrder
<1>6. CASE ReadFileBlock(t)
  BY <1>6, ReadFileBlockInOrder
<1>7. CASE \/ TakeTask(t) \/ ProcessFileLayoutServer(t) \/ LayoutServerBuilt(t)
           \/ RunSyncTask(t) \/ LookUpLayouts(t) \/ LockForHashing(t)
           \/ LockForWriting(t) \/ SendBlockRead(t)
  BY <1>1, <1>7
     DEF TakeTask, ProcessFileLayoutServer, LayoutServerBuilt, RunSyncTask,
         LookUpLayouts, LockForHashing, LockForWriting, SendBlockRead
<1> QED
  BY <1>2, <1>3, <1>4, <1>5, <1>6, <1>7 DEF RunTaskStep

LEMMA SharedInOrder ==
    ASSUME TypeOK, BlocksStartInOrder, NEW t \in Threads, SharedStep(t)
    PROVE  BlocksStartInOrder'
<1>1. CASE UNCHANGED task
  BY <1>1, SameWrites
<1>2. CASE FinishLayout(t)
  BY Zenon, <1>2, OtherField DEF FinishLayout
<1>3. ASSUME NEW p, RequestWriteFile(t, p) \/ RequestFinishWriteFile(t, p)
      PROVE  BlocksStartInOrder'
  <2>0. PICK s : s = sync[t]
    OBVIOUS
  <2>1. s \in Syncs /\ p \in DOMAIN task[s].writes
    BY <1>3, <2>0, SyncOfBusyThread
       DEF RequestWriteFile, RequestFinishWriteFile, Visit, Writing
  <2>2. PICK v : task' = [task EXCEPT ![s].writes[p].status = v]
    BY Zenon, <1>3, <2>0 DEF RequestWriteFile, RequestFinishWriteFile
  <2> QED
    BY Zenon, <2>1, <2>2, OneWriteTask
<1>4. ASSUME NEW p, SendFileData(t, p) PROVE BlocksStartInOrder'
  BY <1>4, SendFileDataInOrder
<1>5. CASE SucceedSynchronization(t) \/ FailSynchronization(t)
  BY Zenon, <1>1, <1>5, OtherField DEF SucceedSynchronization, FailSynchronization
<1>6. ASSUME \/ LockForSending(t) \/ SendingDone(t) \/ ClearPendingTasks(t)
             \/ \E p \in todo[t] : SkipFile(t, p)
      PROVE  BlocksStartInOrder'
  BY <1>1, <1>6 DEF LockForSending, SendingDone, ClearPendingTasks, SkipFile
<1> QED
  BY <1>2, <1>3, <1>4, <1>5, <1>6 DEF SharedStep, SendNextWriteRequests

(* Blocks start in the order of the list, with any number of task processors
   running SendNextWriteRequests() next to Update(): the `break' in its loop
   over the blocks never leaves a block unsent whose data has been read. *)
THEOREM StartedInOrder == Spec => []BlocksStartInOrder
<1>1. Init => BlocksStartInOrder
  BY DEF Init, NewTask, BlocksStartInOrder
<1>2. TypeOK /\ BlocksStartInOrder /\ [Next]_vars => BlocksStartInOrder'
  <2> SUFFICES ASSUME TypeOK, BlocksStartInOrder, [Next]_vars
               PROVE  BlocksStartInOrder'
    OBVIOUS
  <2>1. CASE UpdateStep
    BY <2>1, UpdateInOrder
  <2>2. ASSUME NEW t \in Procs, RunTaskStep(t) PROVE BlocksStartInOrder'
    BY <2>2, RunTaskInOrder
  <2>3. ASSUME NEW t \in Threads, SharedStep(t) PROVE BlocksStartInOrder'
    BY <2>3, SharedInOrder
  <2>4. CASE Synchronize \/ Answer \/ UNCHANGED vars
    BY Zenon, <2>4, SameWrites DEF Synchronize, Answer, vars
  <2> QED
    BY <2>1, <2>2, <2>3, <2>4 DEF Next
<1> QED
  BY <1>1, <1>2, TypeCorrect, PTL DEF Spec

-------------------------------------------------------------------------------
(* The counters of files and blocks in progress, with one task processor *)

HashPlaces == {"prepareHashing", "hashLock", "hash"}
WritePlaces == {"prepareWriting", "deleteLock", "delete"}

NothingToWrite(s) == DOMAIN task[s].writes = {}

Over == {"success", "failure"}

\* There are write tasks only once writing was prepared, however the attempt ends
\* meanwhile.
WritesComeLate ==
    \A s \in Syncs :
        task[s].status \in {"pending", "processHashing", "prepareTasksWriting"}
            => NothingToWrite(s)

\* The processor prepares hashing or writing at the right stage.
PreparedInTime ==
    \A p \in Procs :
        /\ pc[p] \in HashPlaces =>
              task[sync[p]].status \in {"pending"} \cup Over /\ NothingToWrite(sync[p])
        /\ pc[p] \in WritePlaces =>
              /\ task[sync[p]].status \in {"prepareTasksWriting"} \cup Over
              /\ NothingToWrite(sync[p])

\* Update() handles hashes of an attempt that is not being prepared.
TakesHashes ==
    \/ pc[Main] = "apply" /\ arg[Main].req.kind = "hashes"
    \/ pc[Main] = "checkHashes"

HashesInTime ==
    TakesHashes =>
        /\ task[sync[Main]].status \in {"processHashing"} \cup Over
        /\ NothingToWrite(sync[Main])
        /\ \A p \in Procs :
              pc[p] \in HashPlaces \cup WritePlaces => sync[p] # sync[Main]

\* A file about to be finished has no blocks left.
FinishedIsWritten ==
    \A s \in Syncs : \A p \in DOMAIN task[s].writes :
        Writing(s, p, "finishing") => DOMAIN task[s].writes[p].blocks = {}

StagesKept == WritesComeLate /\ PreparedInTime /\ HashesInTime

CountsInv ==
    /\ IsFiniteSet(BusyFiles)
    /\ IsFiniteSet(BusyBlocks)
    /\ CountersExact
    /\ FinishedIsWritten

-------------------------------------------------------------------------------
(* The stages of an attempt *)

WritesKept == \A s \in Syncs : task'[s].writes = task[s].writes

\* An attempt ends, or stays where it is.
StatusQuiet == \A s \in Syncs : task'[s].status \in {task[s].status} \cup Over

LEMMA FieldKept ==
    ASSUME TypeOK, NEW s, NEW v
    PROVE  /\ \/ task' = task
              \/ task' = [task EXCEPT ![s].want = v]
              \/ task' = [task EXCEPT ![s].layout = v]
              \/ task' = [task EXCEPT ![s].hashes = v]
              \/ task' = [task EXCEPT ![s].deletes = v]
              => WritesKept /\ StatusQuiet
           /\ task' = [task EXCEPT ![s].status = v] =>
                 /\ WritesKept
                 /\ v \in Over => StatusQuiet
                 /\ \A x \in Syncs \ {s} : task'[x].status = task[x].status
                 /\ s \in Syncs => task'[s].status = v
<1>1. /\ DOMAIN task = Syncs
      /\ \A x \in Syncs :
            DOMAIN task[x] = {"status", "want", "layout", "hashes", "deletes", "writes"}
  BY DEF TypeOK, TasksTypeOK, IsSyncTask, NewTask
<1> QED
  BY <1>1 DEF WritesKept, StatusQuiet

\* A step that begins no preparation and takes no hashes, and ends attempts at most.
LEMMA StagesContinue ==
    ASSUME TypeOK, StagesKept, StatusQuiet,
           \A s \in Syncs : DOMAIN task'[s].writes \subseteq DOMAIN task[s].writes,
           \A p \in Procs :
              /\ pc'[p] \in HashPlaces => pc[p] \in HashPlaces /\ sync'[p] = sync[p]
              /\ pc'[p] \in WritePlaces => pc[p] \in WritePlaces /\ sync'[p] = sync[p],
           TakesHashes' => TakesHashes /\ sync'[Main] = sync[Main]
    PROVE  StagesKept'
<1>1. \A t \in Threads : pc[t] # "idle" => sync[t] \in Syncs
  BY SyncOfBusyThread
<1>2. Main \in Threads /\ \A p \in Procs : p \in Threads
  BY DEF Threads
<1>3. \A s \in Syncs : NothingToWrite(s) => NothingToWrite(s)'
  BY DEF NothingToWrite
<1>4. WritesComeLate'
  BY <1>3 DEF StagesKept, WritesComeLate, StatusQuiet, Over
<1>5. PreparedInTime'
  <2> SUFFICES ASSUME NEW p \in Procs
               PROVE  /\ pc'[p] \in HashPlaces =>
                            /\ task'[sync'[p]].status \in {"pending"} \cup Over
                            /\ NothingToWrite(sync[p])'
                      /\ pc'[p] \in WritePlaces =>
                            /\ task'[sync'[p]].status \in {"prepareTasksWriting"} \cup Over
                            /\ NothingToWrite(sync[p])'
    BY DEF PreparedInTime
  <2> QED
    BY <1>1, <1>2, <1>3 DEF StagesKept, PreparedInTime, StatusQuiet, HashPlaces, WritePlaces,
       NothingToWrite
<1>6. HashesInTime'
  <2> SUFFICES ASSUME TakesHashes'
               PROVE  HashesInTime'
    BY DEF HashesInTime
  <2>1. TakesHashes /\ sync'[Main] = sync[Main] /\ sync[Main] \in Syncs
    BY <1>1, <1>2 DEF TakesHashes
  <2>2. /\ task[sync[Main]].status \in {"processHashing"} \cup Over
        /\ NothingToWrite(sync[Main])
        /\ \A p \in Procs :
              pc[p] \in HashPlaces \cup WritePlaces => sync[p] # sync[Main]
    BY <2>1 DEF StagesKept, HashesInTime
  <2> QED
    BY <1>3, <2>1, <2>2 DEF HashesInTime, StatusQuiet, NothingToWrite
<1> QED
  BY <1>4, <1>5, <1>6 DEF StagesKept

-------------------------------------------------------------------------------
(* What is counted *)

IsBusyFile(s, p) == p \in DOMAIN task[s].writes /\ task[s].writes[p].status # "pending"

IsBusyBlock(s, p, i) ==
    /\ p \in DOMAIN task[s].writes
    /\ i \in DOMAIN task[s].writes[p].blocks
    /\ task[s].writes[p].blocks[i] # "pending"

LEMMA BusyMembers ==
    /\ \A z : z \in BusyFiles <=> \E s \in Syncs : \E p : IsBusyFile(s, p) /\ z = <<s, p>>
    /\ \A z : z \in BusyBlocks <=>
                 \E s \in Syncs : \E p, i : IsBusyBlock(s, p, i) /\ z = <<<<s, p>>, i>>
<1>1. ASSUME NEW z
      PROVE  z \in BusyFiles <=> \E s \in Syncs : \E p : IsBusyFile(s, p) /\ z = <<s, p>>
  BY DEF BusyFiles, BusyFilesOf, IsBusyFile
<1>2. ASSUME NEW z
      PROVE  z \in BusyBlocks <=>
                 \E s \in Syncs : \E p, i : IsBusyBlock(s, p, i) /\ z = <<<<s, p>>, i>>
  BY DEF BusyBlocks, BusyBlocksOf, IsBusyBlock
<1> QED
  BY <1>1, <1>2

LEMMA BusyMembersNext ==
    /\ \A z : z \in BusyFiles' <=> \E s \in Syncs : \E p : IsBusyFile(s, p)' /\ z = <<s, p>>
    /\ \A z : z \in BusyBlocks' <=>
                 \E s \in Syncs : \E p, i : IsBusyBlock(s, p, i)' /\ z = <<<<s, p>>, i>>
<1>1. ASSUME NEW z
      PROVE  z \in BusyFiles' <=> \E s \in Syncs : \E p : IsBusyFile(s, p)' /\ z = <<s, p>>
  BY DEF BusyFiles, BusyFilesOf, IsBusyFile
<1>2. ASSUME NEW z
      PROVE  z \in BusyBlocks' <=>
                 \E s \in Syncs : \E p, i : IsBusyBlock(s, p, i)' /\ z = <<<<s, p>>, i>>
  BY DEF BusyBlocks, BusyBlocksOf, IsBusyBlock
<1> QED
  BY <1>1, <1>2

\* Files in progress: the same, one more, one less.
LEMMA SameFiles ==
    ASSUME \A s \in Syncs : \A p : IsBusyFile(s, p)' <=> IsBusyFile(s, p)
    PROVE  BusyFiles' = BusyFiles
BY BusyMembers, BusyMembersNext

LEMMA OneMoreFile ==
    ASSUME NEW s \in Syncs, NEW p, ~ IsBusyFile(s, p),
           \A x \in Syncs : \A q :
              IsBusyFile(x, q)' <=> IsBusyFile(x, q) \/ (x = s /\ q = p)
    PROVE  BusyFiles' = BusyFiles \cup {<<s, p>>} /\ <<s, p>> \notin BusyFiles
BY BusyMembers, BusyMembersNext

LEMMA OneLessFile ==
    ASSUME NEW s \in Syncs, NEW p, IsBusyFile(s, p),
           \A x \in Syncs : \A q :
              IsBusyFile(x, q)' <=> IsBusyFile(x, q) /\ ~ (x = s /\ q = p)
    PROVE  BusyFiles' = BusyFiles \ {<<s, p>>} /\ <<s, p>> \in BusyFiles
BY BusyMembers, BusyMembersNext

\* Blocks in progress: the same, some more of one file, one less.
LEMMA SameBlocks ==
    ASSUME \A s \in Syncs : \A p, i : IsBusyBlock(s, p, i)' <=> IsBusyBlock(s, p, i)
    PROVE  BusyBlocks' = BusyBlocks
BY BusyMembers, BusyMembersNext

LEMMA MoreBlocks ==
    ASSUME NEW s \in Syncs, NEW p, NEW S, \A i \in S : ~ IsBusyBlock(s, p, i),
           \A x \in Syncs : \A q, i :
              IsBusyBlock(x, q, i)' <=>
                 IsBusyBlock(x, q, i) \/ (x = s /\ q = p /\ i \in S)
    PROVE  /\ BusyBlocks' = BusyBlocks \cup ({<<s, p>>} \X S)
           /\ BusyBlocks \cap ({<<s, p>>} \X S) = {}
<1>1. \A z : z \in {<<s, p>>} \X S <=> \E i \in S : z = <<<<s, p>>, i>>
  OBVIOUS
<1> QED
  BY <1>1, BusyMembers, BusyMembersNext

LEMMA OneLessBlock ==
    ASSUME NEW s \in Syncs, NEW p, NEW i, IsBusyBlock(s, p, i),
           \A x \in Syncs : \A q, j :
              IsBusyBlock(x, q, j)' <=>
                 IsBusyBlock(x, q, j) /\ ~ (x = s /\ q = p /\ j = i)
    PROVE  BusyBlocks' = BusyBlocks \ {<<<<s, p>>, i>>} /\ <<<<s, p>>, i>> \in BusyBlocks
BY BusyMembers, BusyMembersNext

LEMMA PairsCounted ==
    ASSUME NEW A, IsFiniteSet(A), NEW x, NEW S, IsFiniteSet(S), A \cap ({x} \X S) = {}
    PROVE  /\ IsFiniteSet(A \cup ({x} \X S))
           /\ Cardinality(A \cup ({x} \X S)) = Cardinality(A) + Cardinality(S)
<1> DEFINE P == {x} \X S
<1>1. /\ IsFiniteSet({x}) /\ Cardinality({x}) = 1
      /\ Cardinality(S) \in Nat /\ Cardinality(A) \in Nat
  BY FS_Singleton, FS_CardinalityType
<1>2. IsFiniteSet(P) /\ Cardinality(P) = Cardinality(S)
  BY <1>1, FS_Product
<1>3. Cardinality({}) = 0
  BY FS_EmptySet
<1> HIDE DEF P
<1>4. /\ IsFiniteSet(A \cup P)
      /\ Cardinality(A \cup P) = Cardinality(A) + Cardinality(P) - Cardinality(A \cap P)
  BY <1>2, FS_Union
<1>5. Cardinality(A \cap P) = 0
  <2>1. A \cap P = {}
    BY DEF P
  <2> QED
    BY <1>3, <2>1, Zenon
<1>6. IsFiniteSet(A \cup P) /\ Cardinality(A \cup P) = Cardinality(A) + Cardinality(S)
  BY <1>1, <1>2, <1>4, <1>5
<1> QED
  BY <1>6 DEF P

-------------------------------------------------------------------------------
(* The ways the write tasks change *)

LEMMA CountsContinue ==
    ASSUME CountsInv, WritesKept, UNCHANGED counts
    PROVE  CountsInv'
<1>1. \A s \in Syncs : \A p : IsBusyFile(s, p)' <=> IsBusyFile(s, p)
  BY DEF WritesKept, IsBusyFile
<1>2. \A s \in Syncs : \A p, i : IsBusyBlock(s, p, i)' <=> IsBusyBlock(s, p, i)
  BY DEF WritesKept, IsBusyBlock
<1>3. BusyFiles' = BusyFiles /\ BusyBlocks' = BusyBlocks
  BY <1>1, <1>2, SameFiles, SameBlocks
<1>4. FinishedIsWritten'
  BY DEF CountsInv, FinishedIsWritten, WritesKept, Writing
<1> QED
  BY <1>3, <1>4 DEF CountsInv, CountersExact, counts

SameDomains == \A s \in Syncs : DOMAIN task'[s].writes = DOMAIN task[s].writes

\* The write task of one file is replaced, all else is kept.
OnlyWrite(s, p, w) ==
    /\ StatusQuiet /\ SameDomains
    /\ task'[s].writes[p] = w
    /\ \A x \in Syncs : \A q \in DOMAIN task[x].writes :
          ~ (x = s /\ q = p) => task'[x].writes[q] = task[x].writes[q]

LEMMA WriteReplaced ==
    ASSUME TypeOK, NEW s \in Syncs, NEW p \in DOMAIN task[s].writes
    PROVE  \A w : task' = [task EXCEPT ![s].writes[p] = w] => OnlyWrite(s, p, w)
<1> SUFFICES ASSUME NEW w, task' = [task EXCEPT ![s].writes[p] = w]
             PROVE  OnlyWrite(s, p, w)
  OBVIOUS
<1>1. /\ DOMAIN task = Syncs
      /\ \A x \in Syncs :
            DOMAIN task[x] = {"status", "want", "layout", "hashes", "deletes", "writes"}
  BY DEF TypeOK, TasksTypeOK, IsSyncTask, NewTask
<1>2. /\ \A x \in Syncs : x # s => task'[x] = task[x]
      /\ task'[s].status = task[s].status
      /\ task'[s].writes = [task[s].writes EXCEPT ![p] = w]
  BY <1>1
<1>3. StatusQuiet
  BY <1>2 DEF StatusQuiet
<1>4. SameDomains
  BY <1>2 DEF SameDomains
<1>5. task'[s].writes[p] = w
  BY <1>2
<1>6. ASSUME NEW x \in Syncs, NEW q \in DOMAIN task[x].writes, ~ (x = s /\ q = p)
      PROVE  task'[x].writes[q] = task[x].writes[q]
  BY <1>2, <1>6
<1> QED
  BY <1>3, <1>4, <1>5, <1>6 DEF OnlyWrite

\* The status of a write task is set: the file starts, or has started.
LEMMA FileStatusSet ==
    ASSUME TypeOK, CountsInv, NEW s \in Syncs, NEW p \in DOMAIN task[s].writes,
           UNCHANGED countBlocks,
           \/ task[s].writes[p].status = "pending" /\ countFiles' = countFiles + 1
           \/ task[s].writes[p].status # "pending" /\ UNCHANGED countFiles
    PROVE  \A v : /\ v # "pending"
                  /\ v = "finishing" => DOMAIN task[s].writes[p].blocks = {}
                  /\ task' = [task EXCEPT ![s].writes[p].status = v]
                  => CountsInv' /\ StatusQuiet /\ SameDomains
<1> SUFFICES ASSUME NEW v, v # "pending",
                    v = "finishing" => DOMAIN task[s].writes[p].blocks = {},
                    task' = [task EXCEPT ![s].writes[p].status = v]
             PROVE  CountsInv' /\ StatusQuiet /\ SameDomains
  OBVIOUS
<1> DEFINE old == task[s].writes[p]
           w == [old EXCEPT !.status = v]
<1>1. DOMAIN old = {"status", "blocks"}
  BY DEF TypeOK, TasksTypeOK, IsSyncTask, IsWriteTask
<1>2. w.status = v /\ w.blocks = old.blocks
  BY <1>1
<1>3. task' = [task EXCEPT ![s].writes[p] = w]
  OBVIOUS
<1> HIDE DEF w
<1>4. OnlyWrite(s, p, w)
  BY Zenon, <1>3, WriteReplaced
<1>5. BusyBlocks' = BusyBlocks
  <2>1. \A x \in Syncs : \A q, i : IsBusyBlock(x, q, i)' <=> IsBusyBlock(x, q, i)
    BY <1>2, <1>4 DEF IsBusyBlock, OnlyWrite, SameDomains
  <2> QED
    BY <2>1, SameBlocks
<1>6. FinishedIsWritten'
  BY <1>2, <1>4 DEF CountsInv, FinishedIsWritten, Writing, OnlyWrite, SameDomains
<1>7. CASE old.status = "pending"
  <2>1. \A x \in Syncs : \A q :
           IsBusyFile(x, q)' <=> IsBusyFile(x, q) \/ (x = s /\ q = p)
    BY <1>2, <1>4 DEF IsBusyFile, OnlyWrite, SameDomains
  <2>2. BusyFiles' = BusyFiles \cup {<<s, p>>} /\ <<s, p>> \notin BusyFiles
    <3>1. ~ IsBusyFile(s, p)
      BY <1>7 DEF IsBusyFile
    <3> QED
      BY <2>1, <3>1, OneMoreFile
  <2>3. IsFiniteSet(BusyFiles') /\ Cardinality(BusyFiles') = Cardinality(BusyFiles) + 1
    BY <2>2, FS_AddElement DEF CountsInv
  <2> QED
    BY <1>4, <1>5, <1>6, <1>7, <2>3 DEF CountsInv, CountersExact, OnlyWrite
<1>8. CASE old.status # "pending"
  <2>1. \A x \in Syncs : \A q : IsBusyFile(x, q)' <=> IsBusyFile(x, q)
    BY <1>2, <1>4, <1>8 DEF IsBusyFile, OnlyWrite, SameDomains
  <2>2. BusyFiles' = BusyFiles
    BY <2>1, SameFiles
  <2> QED
    BY <1>4, <1>5, <1>6, <1>8, <2>2 DEF CountsInv, CountersExact, OnlyWrite
<1> QED
  BY <1>7, <1>8

\* The blocks of a write task are set.
OnlyBlocks(s, p, v) ==
    /\ StatusQuiet /\ SameDomains /\ FinishedIsWritten'
    /\ BusyFiles' = BusyFiles
    /\ \A i : IsBusyBlock(s, p, i)' <=> i \in DOMAIN v /\ v[i] # "pending"
    /\ \A x \in Syncs : \A q, i :
          ~ (x = s /\ q = p) => (IsBusyBlock(x, q, i)' <=> IsBusyBlock(x, q, i))

LEMMA FileBlocksSet ==
    ASSUME TypeOK, CountsInv, NEW s \in Syncs, NEW p \in DOMAIN task[s].writes
    PROVE  \A v : /\ DOMAIN v \subseteq DOMAIN task[s].writes[p].blocks
                  /\ task' = [task EXCEPT ![s].writes[p].blocks = v]
                  => OnlyBlocks(s, p, v)
<1> SUFFICES ASSUME NEW v, DOMAIN v \subseteq DOMAIN task[s].writes[p].blocks,
                    task' = [task EXCEPT ![s].writes[p].blocks = v]
             PROVE  OnlyBlocks(s, p, v)
  OBVIOUS
<1> DEFINE old == task[s].writes[p]
           w == [old EXCEPT !.blocks = v]
<1>1. DOMAIN old = {"status", "blocks"}
  BY DEF TypeOK, TasksTypeOK, IsSyncTask, IsWriteTask
<1>2. w.status = old.status /\ w.blocks = v
  BY <1>1
<1>3. task' = [task EXCEPT ![s].writes[p] = w]
  OBVIOUS
<1> HIDE DEF w
<1>4. OnlyWrite(s, p, w)
  BY Zenon, <1>3, WriteReplaced
<1>5. BusyFiles' = BusyFiles
  <2>1. \A x \in Syncs : \A q : IsBusyFile(x, q)' <=> IsBusyFile(x, q)
    BY <1>2, <1>4 DEF IsBusyFile, OnlyWrite, SameDomains
  <2> QED
    BY <2>1, SameFiles
<1>6. FinishedIsWritten'
  <2> SUFFICES ASSUME NEW x \in Syncs, NEW q \in DOMAIN task'[x].writes,
                      Writing(x, q, "finishing")'
               PROVE  DOMAIN task'[x].writes[q].blocks = {}
    BY DEF FinishedIsWritten
  <2>1. q \in DOMAIN task[x].writes
    BY <1>4 DEF OnlyWrite, SameDomains
  <2>2. Writing(x, q, "finishing")
    BY <1>2, <1>4, <2>1 DEF Writing, OnlyWrite
  <2>3. DOMAIN task[x].writes[q].blocks = {}
    BY <2>1, <2>2 DEF CountsInv, FinishedIsWritten
  <2> QED
    BY <1>2, <1>4, <2>1, <2>3 DEF OnlyWrite
<1>7. \A i : IsBusyBlock(s, p, i)' <=> i \in DOMAIN v /\ v[i] # "pending"
  BY <1>2, <1>4 DEF IsBusyBlock, OnlyWrite, SameDomains
<1>8. \A x \in Syncs : \A q, i :
         ~ (x = s /\ q = p) => (IsBusyBlock(x, q, i)' <=> IsBusyBlock(x, q, i))
  BY <1>4 DEF IsBusyBlock, OnlyWrite, SameDomains
<1> QED
  BY <1>4, <1>5, <1>6, <1>7, <1>8 DEF OnlyWrite, OnlyBlocks

-------------------------------------------------------------------------------
(* The steps that change write tasks *)

Shrinks == \A s \in Syncs : DOMAIN task'[s].writes \subseteq DOMAIN task[s].writes

LEMMA StatusStepsCount ==
    ASSUME TypeOK, CountsInv,
           \/ ProcessResponseWriteFile
           \/ \E t \in Threads, p \in Paths :
                 RequestWriteFile(t, p) \/ RequestFinishWriteFile(t, p)
    PROVE  CountsInv' /\ StatusQuiet /\ Shrinks
<1>1. CASE UNCHANGED <<task, counts>>
  BY <1>1, FieldKept, CountsContinue DEF Shrinks, WritesKept
<1>2. CASE ProcessResponseWriteFile /\ task' # task
  <2> DEFINE s == sync[Main]
             p == arg[Main].req.path
             v == IF arg[Main].ok THEN "processing" ELSE "failure"
  <2>1. s \in Syncs
    BY <1>2, SyncOfBusyThread DEF ProcessResponseWriteFile, Applies, Threads
  <2>2. /\ p \in DOMAIN task[s].writes /\ task[s].writes[p].status = "preparing"
        /\ task' = [task EXCEPT ![s].writes[p].status = v]
        /\ UNCHANGED counts
    BY <1>2, Zenon DEF ProcessResponseWriteFile, Writing
  <2>3. v # "pending" /\ v # "finishing"
    OBVIOUS
  <2> HIDE DEF v
  <2> QED
    BY <2>1, <2>2, <2>3, FileStatusSet DEF counts, SameDomains, Shrinks
<1>3. ASSUME NEW t \in Threads, NEW p \in Paths,
             RequestWriteFile(t, p) \/ RequestFinishWriteFile(t, p)
      PROVE  CountsInv' /\ StatusQuiet /\ Shrinks
  <2> DEFINE s == sync[t]
  <2>1. s \in Syncs /\ p \in DOMAIN task[s].writes
    BY <1>3, SyncOfBusyThread
       DEF RequestWriteFile, RequestFinishWriteFile, Visit, Writing
  <2>2. CASE RequestWriteFile(t, p)
    <3>1. PICK v \in {"preparing"} :
             task' = [task EXCEPT ![s].writes[p].status = v]
      BY <2>2, Zenon DEF RequestWriteFile
    <3>2. /\ task[s].writes[p].status = "pending"
          /\ countFiles' = countFiles + 1 /\ UNCHANGED countBlocks
      BY <2>2, Zenon DEF RequestWriteFile, Writing
    <3> QED
      BY <2>1, <3>1, <3>2, FileStatusSet DEF SameDomains, Shrinks
  <2>3. CASE RequestFinishWriteFile(t, p)
    <3>1. PICK v \in {"finishing", "failure"} :
             task' = [task EXCEPT ![s].writes[p].status = v]
      BY <2>3, Zenon DEF RequestFinishWriteFile
    <3>2. /\ task[s].writes[p].status = "processing"
          /\ DOMAIN task[s].writes[p].blocks = {}
          /\ UNCHANGED counts
      BY <2>3 DEF RequestFinishWriteFile, Writing, AllWritten
    <3> QED
      BY <2>1, <3>1, <3>2, FileStatusSet DEF counts, SameDomains, Shrinks
  <2> QED
    BY <1>3, <2>2, <2>3
<1> QED
  BY <1>1, <1>2, <1>3 DEF ProcessResponseWriteFile

LEMMA SendFileDataCounts ==
    ASSUME TypeOK, CountsInv, NEW t \in Threads, NEW p, SendFileData(t, p)
    PROVE  CountsInv' /\ StatusQuiet /\ Shrinks
<1> DEFINE s == sync[t]
           blocks == task[s].writes[p].blocks
           empty == ServerDir[p] = <<>>
           visited(S) == {i \in DOMAIN blocks : \A j \in DOMAIN blocks \ S :
                            blocks[j] = "pending" => i < j}
           reads(S) == IF empty THEN {} ELSE S
           sends(S) == {i \in visited(S) : blocks[i] = "dataReady"} \cup (S \ reads(S))
<1>1. pc[t] # "idle" /\ p \in DOMAIN task[s].writes
  BY Zenon DEF SendFileData, Visit, Writing
<1>2. s \in Syncs /\ IsSyncTask(task[s])
  BY <1>1, SyncOfBusyThread
<1>3. IsFiniteSet(DOMAIN blocks)
  <2>1. p \in DOMAIN ServerDir /\ DOMAIN blocks \subseteq ServerBlocks(p)
    BY <1>1, <1>2 DEF IsSyncTask, IsWriteTask, IsMap
  <2> QED
    BY <2>1, ServerDirProperties, FS_Subset
<1>4. PICK S \in Started(blocks) :
         /\ task' = [task EXCEPT ![s].writes[p].blocks =
               [i \in DOMAIN blocks |->
                   CASE i \in reads(S) -> "readingData"
                     [] i \in sends(S) -> "dataSent"
                     [] OTHER -> blocks[i]]]
         /\ countBlocks' = countBlocks + Cardinality(S)
  BY Zenon DEF SendFileData
<1> DEFINE v == [i \in DOMAIN blocks |->
                   CASE i \in reads(S) -> "readingData"
                     [] i \in sends(S) -> "dataSent"
                     [] OTHER -> blocks[i]]
<1>5. \A i \in DOMAIN blocks : v[i] = "pending" <=> blocks[i] = "pending" /\ i \notin S
  BY Zenon DEF Started
<1>6. S \subseteq DOMAIN blocks /\ \A i \in S : blocks[i] = "pending"
  BY DEF Started
<1>7. DOMAIN v = DOMAIN blocks /\ task' = [task EXCEPT ![s].writes[p].blocks = v]
  BY Zenon, <1>4
<1>8. UNCHANGED countFiles
  BY Zenon DEF SendFileData
<1> HIDE DEF v
<1>0. PICK k : k = s
  OBVIOUS
<1>9. OnlyBlocks(k, p, v)
  BY <1>0, <1>1, <1>2, <1>7, FileBlocksSet, Zenon
<1>10. /\ BusyBlocks' = BusyBlocks \cup ({<<k, p>>} \X S)
       /\ BusyBlocks \cap ({<<k, p>>} \X S) = {}
  <2>1. \A i \in S : ~ IsBusyBlock(k, p, i)
    BY <1>0, <1>6 DEF IsBusyBlock
  <2>2. \A i : IsBusyBlock(k, p, i)' <=> IsBusyBlock(k, p, i) \/ i \in S
    BY <1>0, <1>1, <1>5, <1>6, <1>7, <1>9 DEF IsBusyBlock, OnlyBlocks
  <2>3. ASSUME NEW x \in Syncs, NEW q, NEW i
        PROVE  IsBusyBlock(x, q, i)' <=>
                  IsBusyBlock(x, q, i) \/ (x = k /\ q = p /\ i \in S)
    <3>1. CASE x = k /\ q = p
      BY <2>2, <3>1
    <3>2. CASE ~ (x = k /\ q = p)
      BY <1>9, <3>2 DEF OnlyBlocks
    <3> QED
      BY <3>1, <3>2
  <2> QED
    BY <1>0, <1>2, <2>1, <2>3, MoreBlocks
<1>11. IsFiniteSet(S)
  BY <1>3, <1>6, FS_Subset
<1>12. /\ IsFiniteSet(BusyBlocks')
       /\ Cardinality(BusyBlocks') = Cardinality(BusyBlocks) + Cardinality(S)
  <2>1. IsFiniteSet(BusyBlocks)
    BY DEF CountsInv
  <2>2. PICK A, x : A = BusyBlocks /\ x = <<k, p>>
    OBVIOUS
  <2>3. /\ IsFiniteSet(A \cup ({x} \X S))
        /\ Cardinality(A \cup ({x} \X S)) = Cardinality(A) + Cardinality(S)
    BY <1>10, <1>11, <2>1, <2>2, PairsCounted
  <2> QED
    BY <1>10, <2>2, <2>3
<1> QED
  BY <1>4, <1>8, <1>9, <1>12 DEF CountsInv, CountersExact, OnlyBlocks, SameDomains, Shrinks

LEMMA ReadFileBlockCounts ==
    ASSUME TypeOK, CountsInv, NEW t \in Procs, ReadFileBlock(t)
    PROVE  CountsInv' /\ StatusQuiet /\ Shrinks
<1>0. PICK s, path, i : s = sync[t] /\ path = arg[t].path /\ i = arg[t].index
  OBVIOUS
<1> DEFINE blocks == task[s].writes[path].blocks
<1>1. s \in Syncs
  BY Zenon, <1>0, SyncOfBusyThread DEF ReadFileBlock, Threads
<1>2. UNCHANGED counts
  BY DEF ReadFileBlock
<1>3. CASE UNCHANGED task
  BY <1>2, <1>3, FieldKept, CountsContinue DEF Shrinks
<1>4. ASSUME path \in DOMAIN task[s].writes, i \in DOMAIN blocks,
             blocks[i] = "readingData", NEW u \in {"dataReady", "failure"},
             task' = [task EXCEPT ![s].writes[path].blocks[i] = u]
      PROVE  CountsInv' /\ StatusQuiet /\ Shrinks
  <2> DEFINE v == [blocks EXCEPT ![i] = u]
  <2>1. DOMAIN v = DOMAIN blocks
    OBVIOUS
  <2>2. \A j \in DOMAIN blocks : v[j] # "pending" <=> blocks[j] # "pending"
    <3> HIDE DEF blocks
    <3> QED
      BY <1>4
  <2>3. task' = [task EXCEPT ![s].writes[path].blocks = v]
    BY <1>4
  <2> HIDE DEF v
  <2>4. OnlyBlocks(s, path, v)
    BY <1>1, <1>4, <2>1, <2>3, FileBlocksSet, Zenon
  <2>5. \A j : IsBusyBlock(s, path, j)' <=> IsBusyBlock(s, path, j)
    BY <1>4, <2>1, <2>2, <2>4 DEF IsBusyBlock, OnlyBlocks
  <2>6. BusyBlocks' = BusyBlocks
    <3>1. ASSUME NEW x \in Syncs, NEW q, NEW j
          PROVE  IsBusyBlock(x, q, j)' <=> IsBusyBlock(x, q, j)
      <4>1. CASE x = s /\ q = path
        BY <2>5, <4>1
      <4>2. CASE ~ (x = s /\ q = path)
        BY <2>4, <4>2 DEF OnlyBlocks
      <4> QED
        BY <4>1, <4>2
    <3> QED
      BY <3>1, SameBlocks
  <2> QED
    BY <1>2, <2>4, <2>6
       DEF CountsInv, CountersExact, counts, OnlyBlocks, SameDomains, Shrinks
<1> QED
  BY Zenon, <1>0, <1>3, <1>4 DEF ReadFileBlock

LEMMA ProcessFileDataReceivedCounts ==
    ASSUME TypeOK, CountsInv, ProcessFileDataReceived
    PROVE  CountsInv' /\ StatusQuiet /\ Shrinks
<1>0. PICK s, p, i :
          s = sync[Main] /\ p = arg[Main].req.path /\ i = arg[Main].req.index
  OBVIOUS
<1> DEFINE blocks == task[s].writes[p].blocks
           v == Without(blocks, i)
<1>1. s \in Syncs
  BY <1>0, SyncOfBusyThread DEF ProcessFileDataReceived, Applies, Threads
<1>2. CASE UNCHANGED <<task, counts>>
  BY <1>2, FieldKept, CountsContinue DEF Shrinks
<1>3. CASE /\ p \in DOMAIN task[s].writes
           /\ i \in DOMAIN blocks /\ blocks[i] = "dataSent"
           /\ task' = [task EXCEPT ![s].writes[p].blocks = v]
           /\ countBlocks' = Decrement(countBlocks) /\ UNCHANGED countFiles
  <2>1. /\ DOMAIN v = DOMAIN blocks \ {i}
        /\ \A j \in DOMAIN blocks \ {i} : v[j] = blocks[j]
    BY WithoutProperties
  <2> HIDE DEF v
  <2>2. OnlyBlocks(s, p, v)
    <3>1. DOMAIN v \subseteq DOMAIN blocks
      BY <2>1
    <3> QED
      BY <1>1, <1>3, <3>1, FileBlocksSet, Zenon
  <2>3. BusyBlocks' = BusyBlocks \ {<<<<s, p>>, i>>} /\ <<<<s, p>>, i>> \in BusyBlocks
    <3>1. IsBusyBlock(s, p, i)
      BY <1>3 DEF IsBusyBlock
    <3>2. \A j : IsBusyBlock(s, p, j)' <=> IsBusyBlock(s, p, j) /\ j # i
      BY <1>3, <2>1, <2>2 DEF IsBusyBlock, OnlyBlocks
    <3>3. ASSUME NEW x \in Syncs, NEW q, NEW j
          PROVE  IsBusyBlock(x, q, j)' <=>
                    IsBusyBlock(x, q, j) /\ ~ (x = s /\ q = p /\ j = i)
      <4>1. CASE x = s /\ q = p
        BY <3>2, <4>1
      <4>2. CASE ~ (x = s /\ q = p)
        BY <2>2, <4>2 DEF OnlyBlocks
      <4> QED
        BY <4>1, <4>2
    <3> QED
      BY <1>1, <3>1, <3>3, OneLessBlock
  <2>4. /\ IsFiniteSet(BusyBlocks')
        /\ Cardinality(BusyBlocks') = Cardinality(BusyBlocks) - 1
        /\ Cardinality(BusyBlocks') \in Nat /\ Cardinality(BusyBlocks) \in Nat
    BY <2>3, FS_RemoveElement, FS_CardinalityType DEF CountsInv
  <2> QED
    <3>1. countBlocks' = Cardinality(BusyBlocks')
      BY <1>3, <2>4 DEF CountsInv, CountersExact, Decrement
    <3> QED
      BY <1>3, <2>2, <2>4, <3>1 DEF CountsInv, CountersExact, OnlyBlocks, SameDomains, Shrinks
<1> QED
  BY Zenon, <1>0, <1>2, <1>3 DEF ProcessFileDataReceived, Writing, counts

LEMMA ProcessResponseFinishWriteFileCounts ==
    ASSUME TypeOK, CountsInv, ProcessResponseFinishWriteFile
    PROVE  CountsInv' /\ StatusQuiet /\ Shrinks
<1>0. PICK s, p : s = sync[Main] /\ p = arg[Main].req.path
  OBVIOUS
<1> DEFINE f == task[s].writes
           v == Without(f, p)
<1>1. s \in Syncs
  BY <1>0, SyncOfBusyThread DEF ProcessResponseFinishWriteFile, Applies, Threads
<1>2. CASE UNCHANGED <<task, counts>>
  BY <1>2, FieldKept, CountsContinue DEF Shrinks
<1>3. CASE /\ Writing(s, p, "finishing")
           /\ task' = [task EXCEPT ![s].writes = v]
           /\ countFiles' = Decrement(countFiles) /\ UNCHANGED countBlocks
  <2>1. DOMAIN v = DOMAIN f \ {p} /\ \A q \in DOMAIN f \ {p} : v[q] = f[q]
    BY WithoutProperties
  <2> HIDE DEF v
  <2>2. /\ task'[s].writes = v
        /\ task'[s].status = task[s].status
        /\ \A x \in Syncs : x # s => task'[x] = task[x]
    BY <1>1, <1>3 DEF TypeOK, TasksTypeOK, IsSyncTask, NewTask
  <2>3. StatusQuiet /\ Shrinks
    BY <2>1, <2>2 DEF StatusQuiet, Shrinks
  <2>4. BusyFiles' = BusyFiles \ {<<s, p>>} /\ <<s, p>> \in BusyFiles
    <3>1. IsBusyFile(s, p)
      BY <1>3 DEF IsBusyFile, Writing
    <3>2. \A x \in Syncs : \A q :
             IsBusyFile(x, q)' <=> IsBusyFile(x, q) /\ ~ (x = s /\ q = p)
      BY <2>1, <2>2 DEF IsBusyFile
    <3> QED
      BY <1>1, <3>1, <3>2, OneLessFile
  <2>5. BusyBlocks' = BusyBlocks
    <3>1. DOMAIN f[p].blocks = {}
      BY <1>1, <1>3 DEF CountsInv, FinishedIsWritten, Writing
    <3>2. \A x \in Syncs : \A q, i : IsBusyBlock(x, q, i)' <=> IsBusyBlock(x, q, i)
      BY <2>1, <2>2, <3>1 DEF IsBusyBlock
    <3> QED
      BY <3>2, SameBlocks
  <2>6. FinishedIsWritten'
    BY <2>1, <2>2 DEF CountsInv, FinishedIsWritten, Writing
  <2>7. /\ IsFiniteSet(BusyFiles')
        /\ Cardinality(BusyFiles') = Cardinality(BusyFiles) - 1
        /\ Cardinality(BusyFiles') \in Nat /\ Cardinality(BusyFiles) \in Nat
    BY <2>4, FS_RemoveElement, FS_CardinalityType DEF CountsInv
  <2> QED
    BY <1>3, <2>3, <2>5, <2>6, <2>7 DEF CountsInv, CountersExact, Decrement
<1> QED
  BY Zenon, <1>0, <1>2, <1>3 DEF ProcessResponseFinishWriteFile, counts

\* One processor replaces no write task, all new ones have pending blocks only.
LEMMA WritingPreparedCounts ==
    ASSUME TypeOK, CountsInv, NEW t \in Procs, WritingPrepared(t), NothingToWrite(sync[t])
    PROVE  /\ CountsInv'
           /\ \A x \in Syncs : x # sync[t] => task'[x] = task[x]
           /\ task'[sync[t]].status = "processWriting"
<1> DEFINE s == sync[t]
           lay == FoundLayout(t)
           new == WritePaths(lay)
           writes == [path \in new \cup DOMAIN task[s].writes |->
                        IF path \in new THEN WriteTask(lay, path)
                                        ELSE task[s].writes[path]]
<1>1. s \in Syncs
  BY SyncOfBusyThread DEF WritingPrepared, Threads
<1>2. DOMAIN writes = new /\ \A p \in new : writes[p] = WriteTask(lay, p)
  BY DEF NothingToWrite
<1>3. task' = [task EXCEPT ![s].writes = writes, ![s].status = "processWriting"]
  BY DEF WritingPrepared
<1> HIDE DEF writes, new, lay
<1>4. /\ task'[s].writes = writes
      /\ task'[s].status = "processWriting"
      /\ \A x \in Syncs : x # s => task'[x] = task[x]
  BY <1>1, <1>3 DEF TypeOK, TasksTypeOK, IsSyncTask, NewTask
<1>5. /\ \A p \in DOMAIN writes : writes[p].status = "pending"
      /\ \A p \in DOMAIN writes : \A i \in DOMAIN writes[p].blocks :
            writes[p].blocks[i] = "pending"
  BY <1>2 DEF WriteTask
<1>6. BusyFiles' = BusyFiles
  <2>1. \A x \in Syncs : \A q : IsBusyFile(x, q)' <=> IsBusyFile(x, q)
    BY <1>4, <1>5 DEF IsBusyFile, NothingToWrite
  <2> QED
    BY <2>1, SameFiles
<1>7. BusyBlocks' = BusyBlocks
  <2>1. \A x \in Syncs : \A q, i : IsBusyBlock(x, q, i)' <=> IsBusyBlock(x, q, i)
    BY <1>4, <1>5 DEF IsBusyBlock, NothingToWrite
  <2> QED
    BY <2>1, SameBlocks
<1>8. FinishedIsWritten'
  BY <1>4, <1>5 DEF CountsInv, FinishedIsWritten, Writing
<1>9. UNCHANGED counts
  BY DEF WritingPrepared
<1> QED
  BY <1>4, <1>6, <1>7, <1>8, <1>9 DEF CountsInv, CountersExact, counts

\* The steps that leave the write tasks alone, and the stage unless they end an attempt.
LEMMA OtherStepsCount ==
    ASSUME TypeOK, CountsInv,
           \/ Synchronize \/ Answer \/ UNCHANGED vars
           \/ SendQueuedMessages \/ ReceiveMessage \/ ProcessResponseFileLayout
           \/ ProcessResponseFileBlockHashes \/ EnqueueSyncTask \/ ProcessResponseDeleteFile
           \/ CheckFinishedWrite
           \/ \E p \in Procs : \/ TakeTask(p) \/ ProcessFileLayoutServer(p)
                               \/ LayoutServerBuilt(p) \/ RunSyncTask(p) \/ LookUpLayouts(p)
                               \/ LockForHashing(p) \/ AddFileBlockHashTask(p)
                               \/ LockForWriting(p) \/ AddFileDeleteTask(p)
                               \/ SendBlockRead(p)
           \/ \E t \in Threads : \/ FinishLayout(t) \/ LockForSending(t) \/ SendingDone(t)
                                 \/ \E p \in todo[t] : SkipFile(t, p)
                                 \/ SucceedSynchronization(t) \/ FailSynchronization(t)
                                 \/ ClearPendingTasks(t)
    PROVE  CountsInv' /\ WritesKept /\ StatusQuiet /\ Shrinks
<1>1. UNCHANGED counts /\ WritesKept /\ StatusQuiet
  <2>1. CASE \/ Synchronize \/ Answer \/ UNCHANGED vars
             \/ SendQueuedMessages \/ ReceiveMessage \/ EnqueueSyncTask
    BY <2>1, FieldKept
       DEF Synchronize, Answer, vars, SendQueuedMessages, ReceiveMessage, EnqueueSyncTask
  <2>2. CASE ProcessResponseFileLayout
    BY Zenon, <2>2, FieldKept DEF ProcessResponseFileLayout
  <2>3. CASE ProcessResponseFileBlockHashes
    BY <2>3, ResponseFileBlockHashesKeeps
       DEF ProcessResponseFileBlockHashes, WritesKept, StatusQuiet
  <2>4. CASE ProcessResponseDeleteFile
    BY Zenon, <2>4, FieldKept DEF ProcessResponseDeleteFile
  <2>5. CASE CheckFinishedWrite
    BY Zenon, <2>5, FieldKept DEF CheckFinishedWrite, Over
  <2>6. ASSUME NEW p \in Procs,
               \/ TakeTask(p) \/ ProcessFileLayoutServer(p) \/ LayoutServerBuilt(p)
               \/ RunSyncTask(p) \/ LookUpLayouts(p) \/ LockForHashing(p)
               \/ LockForWriting(p) \/ SendBlockRead(p)
        PROVE  UNCHANGED counts /\ WritesKept /\ StatusQuiet
    <3>1. UNCHANGED <<counts, task>>
      BY <2>6 DEF TakeTask, ProcessFileLayoutServer, LayoutServerBuilt, RunSyncTask,
         LookUpLayouts, LockForHashing, LockForWriting, SendBlockRead
    <3> QED
      BY <3>1, FieldKept
  <2>7. ASSUME NEW p \in Procs, AddFileBlockHashTask(p)
        PROVE  UNCHANGED counts /\ WritesKept /\ StatusQuiet
    BY <2>7, AddFileBlockHashTaskKeeps
       DEF AddFileBlockHashTask, WritesKept, StatusQuiet
  <2>8. ASSUME NEW p \in Procs, AddFileDeleteTask(p)
        PROVE  UNCHANGED counts /\ WritesKept /\ StatusQuiet
    BY Zenon, <2>8, FieldKept DEF AddFileDeleteTask
  <2>9. ASSUME NEW t \in Threads,
               \/ LockForSending(t) \/ SendingDone(t) \/ ClearPendingTasks(t)
               \/ \E p \in todo[t] : SkipFile(t, p)
        PROVE  UNCHANGED counts /\ WritesKept /\ StatusQuiet
    BY <2>9, FieldKept DEF LockForSending, SendingDone, ClearPendingTasks, SkipFile
  <2>10. ASSUME NEW t \in Threads, FinishLayout(t)
         PROVE  UNCHANGED counts /\ WritesKept /\ StatusQuiet
    BY Zenon, <2>10, FieldKept DEF FinishLayout
  <2>11. ASSUME NEW t \in Threads, SucceedSynchronization(t) \/ FailSynchronization(t)
         PROVE  UNCHANGED counts /\ WritesKept /\ StatusQuiet
    BY Zenon, <2>11, FieldKept DEF SucceedSynchronization, FailSynchronization, Over
  <2> QED
    BY <2>1, <2>2, <2>3, <2>4, <2>5, <2>6, <2>7, <2>8, <2>9, <2>10, <2>11
<1> QED
  BY <1>1, CountsContinue DEF WritesKept, Shrinks

-------------------------------------------------------------------------------
(* The ways the threads move *)

QuietThreads ==
    /\ \A p \in Procs :
          /\ pc'[p] \in HashPlaces => pc[p] \in HashPlaces /\ sync'[p] = sync[p]
          /\ pc'[p] \in WritePlaces => pc[p] \in WritePlaces /\ sync'[p] = sync[p]
    /\ TakesHashes' => TakesHashes /\ sync'[Main] = sync[Main]

Timed == HashPlaces \cup WritePlaces \cup {"apply", "checkHashes"}

LEMMA StaysQuiet ==
    ASSUME UNCHANGED <<pc, sync, arg>>
    PROVE  QuietThreads
BY DEF QuietThreads, TakesHashes

LEMMA MovesQuietly ==
    ASSUME TypeOK, NEW t \in Threads, NEW to, to \notin Timed, Goto(t, to),
           \A u \in Threads \ {t} : sync'[u] = sync[u] /\ arg'[u] = arg[u]
    PROVE  QuietThreads
<1>1. /\ pc'[t] = to
      /\ \A u \in Threads \ {t} : pc'[u] = pc[u]
      /\ Main \in Threads /\ \A p \in Procs : p \in Threads
  BY DEF TypeOK, ThreadsTypeOK, Goto, Threads
<1>2. \A u \in Threads \ {t} : pc'[u] = pc[u] /\ sync'[u] = sync[u] /\ arg'[u] = arg[u]
  BY <1>1
<1> QED
  BY <1>1, <1>2 DEF QuietThreads, TakesHashes, Timed, HashPlaces, WritePlaces

LEMMA ContinuesQuietly ==
    ASSUME TypeOK, NEW t \in Threads
    PROVE  /\ Return(t) => QuietThreads
           /\ \A to : to \notin Timed /\ Continue(t, to) => QuietThreads
           /\ \A to, s : /\ to \notin Timed /\ Goto(t, to)
                         /\ sync' = [sync EXCEPT ![t] = s] /\ UNCHANGED arg
                         => QuietThreads
<1>1. DOMAIN sync = Threads /\ DOMAIN arg = Threads
  BY DEF TypeOK, ThreadsTypeOK, ArgsTypeOK
<1>2. ASSUME Return(t)
      PROVE  QuietThreads
  BY <1>1, <1>2, MovesQuietly DEF Return, Timed, HashPlaces, WritePlaces
<1>3. ASSUME NEW to, to \notin Timed, Continue(t, to)
      PROVE  QuietThreads
  BY <1>3, MovesQuietly DEF Continue
<1>4. ASSUME NEW to, NEW s, to \notin Timed, Goto(t, to),
             sync' = [sync EXCEPT ![t] = s], UNCHANGED arg
      PROVE  QuietThreads
  BY <1>1, <1>4, MovesQuietly
<1> QED
  BY <1>2, <1>3, <1>4

\* A processor goes on preparing hashing, or writing.
LEMMA PreparesOn ==
    ASSUME TypeOK, NEW p \in Procs, NEW to, Goto(p, to), UNCHANGED sync,
           \/ pc[p] \in HashPlaces /\ to \in HashPlaces
           \/ pc[p] \in WritePlaces /\ to \in WritePlaces,
           \A u \in Threads \ {p} : arg'[u] = arg[u]
    PROVE  QuietThreads
<1>1. /\ p \in Threads /\ p # Main /\ Main \in Threads
      /\ \A q \in Procs : q \in Threads
  BY ThreadsAssumption DEF Threads
<1>2. /\ pc'[p] = to /\ \A u \in Threads \ {p} : pc'[u] = pc[u]
  BY <1>1 DEF TypeOK, ThreadsTypeOK, Goto
<1>3. /\ TakesHashes' => TakesHashes
  BY <1>1, <1>2 DEF TakesHashes
<1> QED
  BY <1>1, <1>2, <1>3 DEF QuietThreads, HashPlaces, WritePlaces

LEMMA UpdateQuiet ==
    ASSUME TypeOK, UpdateStep, ~ ReceiveMessage
    PROVE  QuietThreads
<1> Main \in Threads
  BY DEF Threads
<1>1. CASE SendQueuedMessages
  BY <1>1, StaysQuiet DEF SendQueuedMessages, threads
<1>2. CASE ProcessResponseFileLayout \/ ProcessResponseDeleteFile \/ EnqueueSyncTask
  BY <1>2, ContinuesQuietly
     DEF ProcessResponseFileLayout, ProcessResponseDeleteFile, EnqueueSyncTask, Timed,
         HashPlaces, WritePlaces
<1>3. CASE ProcessResponseWriteFile \/ ProcessFileDataReceived
           \/ ProcessResponseFinishWriteFile \/ CheckFinishedWrite \/ CheckFinishedHashes
  BY <1>3, ContinuesQuietly
     DEF ProcessResponseWriteFile, ProcessFileDataReceived, CheckFinishedHashes,
         ProcessResponseFinishWriteFile, CheckFinishedWrite, Timed, HashPlaces, WritePlaces
<1>4. CASE ProcessResponseFileBlockHashes
  <2>1. Return(Main) \/ Continue(Main, "fail") \/ Continue(Main, "checkHashes")
    BY <1>4, Zenon DEF ProcessResponseFileBlockHashes
  <2>2. CASE Continue(Main, "checkHashes")
    <3>1. /\ \A p \in Procs : pc'[p] = pc[p]
          /\ UNCHANGED sync
      BY <2>2, ThreadsAssumption DEF Continue, Goto, TypeOK, ThreadsTypeOK, Threads
    <3>2. TakesHashes
      BY <1>4 DEF ProcessResponseFileBlockHashes, Applies, TakesHashes
    <3> QED
      BY <3>1, <3>2 DEF QuietThreads
  <2> QED
    BY <2>1, <2>2, ContinuesQuietly DEF Timed, HashPlaces, WritePlaces
<1> QED
  BY <1>1, <1>2, <1>3, <1>4 DEF UpdateStep

LEMMA RunTaskQuiet ==
    ASSUME TypeOK, NEW p \in Procs, RunTaskStep(p), ~ RunSyncTask(p)
    PROVE  QuietThreads
<1> p \in Threads
  BY DEF Threads
<1> USE DEF Timed, HashPlaces, WritePlaces
<1>1. CASE TakeTask(p)
  <2>1. PICK e \in PendingTasks : /\ Goto(p, e.kind)
                                  /\ sync' = [sync EXCEPT ![p] = e.sync]
                                  /\ arg' = [arg EXCEPT ![p] = e]
    <3>1. \A i \in DOMAIN pending : pending[i] \in PendingTasks
      BY ElementOfSeq, LenProperties DEF TypeOK, QueuesTypeOK
    <3> QED
      BY <1>1, <3>1 DEF TakeTask
  <2>2. e.kind \notin Timed
    BY DEF PendingTasks, LayoutTask, SyncTask, AboutBlocks, BlockTask
  <2>3. \A u \in Threads \ {p} : sync'[u] = sync[u] /\ arg'[u] = arg[u]
    BY <2>1 DEF TypeOK, ThreadsTypeOK, ArgsTypeOK
  <2> QED
    BY <2>1, <2>2, <2>3, MovesQuietly
<1>2. CASE ProcessFileLayoutServer(p) \/ SendBlockRead(p)
  BY <1>2, ContinuesQuietly DEF ProcessFileLayoutServer, SendBlockRead
<1>3. CASE LayoutServerBuilt(p) \/ ReadFileBlock(p)
  BY <1>3, ContinuesQuietly DEF LayoutServerBuilt, ReadFileBlock
<1>4. CASE HashingPrepared(p) \/ WritingPrepared(p)
  BY <1>4, ContinuesQuietly DEF HashingPrepared, WritingPrepared
<1>5. CASE LookUpLayouts(p)
  <2>1. CASE Continue(p, "fail")
    BY <2>1, ContinuesQuietly
  <2>2. CASE /\ Goto(p, IF pc[p] = "prepareHashing" THEN "hashLock" ELSE "deleteLock")
             /\ arg' = [arg EXCEPT ![p] = LayoutOf(layoutClient)]
             /\ UNCHANGED <<sync, todo>>
    <3>1. \A u \in Threads \ {p} : arg'[u] = arg[u]
      BY <2>2 DEF TypeOK, ArgsTypeOK
    <3>2. pc[p] = "prepareHashing" \/ pc[p] = "prepareWriting"
      BY <1>5 DEF LookUpLayouts
    <3> QED
      BY <2>2, <3>1, <3>2, PreparesOn
  <2> QED
    BY <1>5, <2>1, <2>2, Zenon DEF LookUpLayouts
<1>6. CASE LockForHashing(p) \/ LockForWriting(p)
  BY <1>6, PreparesOn DEF LockForHashing, LockForWriting
<1>7. CASE AddFileBlockHashTask(p) \/ AddFileDeleteTask(p)
  BY <1>7, StaysQuiet DEF AddFileBlockHashTask, AddFileDeleteTask
<1> QED
  BY <1>1, <1>2, <1>3, <1>4, <1>5, <1>6, <1>7 DEF RunTaskStep

LEMMA SharedQuiet ==
    ASSUME TypeOK, NEW t \in Threads, SharedStep(t)
    PROVE  QuietThreads
<1> USE DEF Timed, HashPlaces, WritePlaces
<1>1. CASE \/ FinishLayout(t) \/ SendingDone(t) \/ ClearPendingTasks(t)
           \/ SucceedSynchronization(t) \/ FailSynchronization(t)
  BY <1>1, ContinuesQuietly
     DEF FinishLayout, SendingDone, ClearPendingTasks, SucceedSynchronization,
         FailSynchronization
<1>2. CASE LockForSending(t)
  BY <1>2, MovesQuietly DEF LockForSending
<1>3. ASSUME NEW p, \/ RequestWriteFile(t, p) \/ SendFileData(t, p) \/ SkipFile(t, p)
      PROVE  QuietThreads
  BY <1>3, StaysQuiet DEF RequestWriteFile, SendFileData, SkipFile, Visit
<1>4. ASSUME NEW p, RequestFinishWriteFile(t, p)
      PROVE  QuietThreads
  <2>1. UNCHANGED <<sync, arg>>
    BY <1>4 DEF RequestFinishWriteFile, Visit
  <2>2. UNCHANGED pc \/ Goto(t, "fail")
    BY <1>4, Zenon DEF RequestFinishWriteFile
  <2> QED
    BY <2>1, <2>2, StaysQuiet, MovesQuietly
<1> QED
  BY <1>1, <1>2, <1>3, <1>4 DEF SharedStep, SendNextWriteRequests

-------------------------------------------------------------------------------
(* The stages are kept *)

LEMMA ReceiveKeepsStages ==
    ASSUME TypeOK, StagesKept, ReceiveMessage
    PROVE  StagesKept'
<1> DEFINE m == Head(queueReceived)
<1>1. UNCHANGED task
  BY DEF ReceiveMessage
<1>2. CASE UNCHANGED threads
  BY <1>1, <1>2, StaysQuiet, FieldKept, StagesContinue DEF threads, QuietThreads, WritesKept
<1>3. CASE /\ taskSync # None /\ task[taskSync].status \in Accepts(m.req.kind)
           /\ Goto(Main, "apply")
           /\ sync' = [sync EXCEPT ![Main] = taskSync]
           /\ arg' = [arg EXCEPT ![Main] = m]
  <2>1. Main \in Threads /\ \A p \in Procs : p \in Threads /\ p # Main
    BY ThreadsAssumption DEF Threads
  <2>2. /\ pc'[Main] = "apply" /\ sync'[Main] = taskSync /\ arg'[Main] = m
        /\ \A p \in Procs : pc'[p] = pc[p] /\ sync'[p] = sync[p]
    BY <1>3, <2>1 DEF TypeOK, ThreadsTypeOK, ArgsTypeOK, Goto
  <2>3. WritesComeLate' /\ PreparedInTime'
    BY <1>1, <2>2 DEF StagesKept, WritesComeLate, PreparedInTime, NothingToWrite
  <2>4. ASSUME TakesHashes'
        PROVE  /\ task'[sync'[Main]].status \in {"processHashing"} \cup Over
               /\ NothingToWrite(sync[Main])'
               /\ \A p \in Procs :
                     pc'[p] \in HashPlaces \cup WritePlaces => sync'[p] # sync'[Main]
    <3>1. taskSync \in Syncs
      BY <1>3 DEF TypeOK, ClientTypeOK, Syncs, None
    <3>2. m.req.kind = "hashes"
      BY <2>2, <2>4 DEF TakesHashes
    <3>3. task[taskSync].status = "processHashing"
      BY <1>3, <3>2 DEF Accepts
    <3>4. NothingToWrite(taskSync)
      BY <3>1, <3>3 DEF StagesKept, WritesComeLate
    <3>5. ASSUME NEW p \in Procs, pc[p] \in HashPlaces \cup WritePlaces
          PROVE  sync[p] # taskSync
      BY <3>3, <3>5 DEF StagesKept, PreparedInTime, Over
    <3> QED
      BY <1>1, <2>2, <3>3, <3>4, <3>5 DEF NothingToWrite
  <2> QED
    BY <2>3, <2>4 DEF StagesKept, HashesInTime
<1> QED
  BY <1>2, <1>3, Zenon DEF ReceiveMessage

\* The one processor looks at the status before it prepares.
LEMMA RunSyncTaskKeepsStages ==
    ASSUME TypeOK, StagesKept, NEW t \in Procs, RunSyncTask(t), \A p \in Procs : p = t
    PROVE  StagesKept'
<1> DEFINE s == sync[t]
<1>1. /\ t \in Threads /\ t # Main /\ Main \in Threads
      /\ s \in Syncs
  BY SyncOfBusyThread, ThreadsAssumption DEF Threads, RunSyncTask
<1>2. UNCHANGED task
  BY DEF RunSyncTask
<1>3. CASE Return(t) \/ Continue(t, "secondTest")
  <2>1. QuietThreads
    BY <1>1, <1>3, ContinuesQuietly DEF Timed, HashPlaces, WritePlaces
  <2> QED
    BY <1>2, <2>1, FieldKept, StagesContinue DEF QuietThreads, WritesKept
<1>4. CASE \/ task[s].status = "pending" /\ Continue(t, "prepareHashing")
           \/ task[s].status = "prepareTasksWriting" /\ Continue(t, "prepareWriting")
  <2>1. /\ sync' = sync /\ arg' = arg /\ pc'[Main] = pc[Main]
        /\ pc'[t] = "prepareHashing" => task[s].status = "pending"
        /\ pc'[t] = "prepareWriting" => task[s].status = "prepareTasksWriting"
        /\ pc'[t] \in {"prepareHashing", "prepareWriting"}
    BY <1>1, <1>4 DEF TypeOK, ThreadsTypeOK, Continue, Goto
  <2>2. NothingToWrite(s)
    BY <1>1, <1>4 DEF StagesKept, WritesComeLate
  <2>3. WritesComeLate'
    BY <1>2 DEF StagesKept, WritesComeLate, NothingToWrite
  <2>4. PreparedInTime'
    BY <1>2, <2>1, <2>2 DEF PreparedInTime, HashPlaces, WritePlaces, NothingToWrite
  <2>5. ASSUME TakesHashes'
        PROVE  /\ task'[sync'[Main]].status \in {"processHashing"} \cup Over
               /\ NothingToWrite(sync[Main])'
               /\ sync'[t] # sync'[Main]
    <3>1. TakesHashes
      BY <2>1, <2>5 DEF TakesHashes
    <3>2. /\ task[sync[Main]].status \in {"processHashing"} \cup Over
          /\ NothingToWrite(sync[Main])
      BY <3>1 DEF StagesKept, HashesInTime
    <3> QED
      BY <1>2, <1>4, <2>1, <3>2 DEF NothingToWrite, Over
  <2> QED
    BY <2>3, <2>4, <2>5 DEF StagesKept, HashesInTime
<1> QED
  BY <1>3, <1>4 DEF RunSyncTask

\* The last hashes are in: writing can be prepared.
LEMMA CheckFinishedHashesKeepsStages ==
    ASSUME TypeOK, StagesKept, CheckFinishedHashes
    PROVE  StagesKept'
<1> DEFINE s == sync[Main]
<1>1. Main \in Threads /\ \A p \in Procs : p \in Threads /\ p # Main
  BY ThreadsAssumption DEF Threads
<1>2. TakesHashes /\ s \in Syncs
  BY <1>1, SyncOfBusyThread DEF CheckFinishedHashes, TakesHashes
<1>3. CASE Return(Main) /\ UNCHANGED task
  BY <1>1, <1>3, ContinuesQuietly, FieldKept, StagesContinue DEF QuietThreads, WritesKept
<1>4. CASE /\ task' = [task EXCEPT ![s].status = "prepareTasksWriting"]
           /\ Continue(Main, "enqueue")
  <2>1. /\ WritesKept
        /\ \A x \in Syncs \ {s} : task'[x].status = task[x].status
        /\ task'[s].status = "prepareTasksWriting"
    BY <1>2, <1>4, FieldKept
  <2>2. /\ UNCHANGED sync /\ \A p \in Procs : pc'[p] = pc[p]
        /\ pc'[Main] = "enqueue"
    BY <1>1, <1>4 DEF TypeOK, ThreadsTypeOK, Continue, Goto
  <2>3. /\ NothingToWrite(s)
        /\ \A p \in Procs : pc[p] \in HashPlaces \cup WritePlaces => sync[p] # s
    BY <1>2 DEF StagesKept, HashesInTime
  <2>4. \A x \in Syncs : NothingToWrite(x) => NothingToWrite(x)'
    BY <2>1 DEF NothingToWrite, WritesKept
  <2>5. WritesComeLate'
    BY <2>1, <2>3, <2>4 DEF StagesKept, WritesComeLate
  <2>6. PreparedInTime'
    <3> SUFFICES ASSUME NEW p \in Procs, pc[p] \in HashPlaces \cup WritePlaces
                 PROVE  /\ task'[sync[p]].status = task[sync[p]].status
                        /\ NothingToWrite(sync[p]) => NothingToWrite(sync[p])'
      BY <2>2 DEF StagesKept, PreparedInTime, NothingToWrite
    <3>1. sync[p] \in Syncs
      BY <1>1, SyncOfBusyThread DEF HashPlaces, WritePlaces
    <3> QED
      BY <2>1, <2>2, <2>3, <3>1 DEF NothingToWrite, WritesKept
  <2>7. HashesInTime'
    BY <2>2 DEF HashesInTime, TakesHashes
  <2> QED
    BY <2>5, <2>6, <2>7 DEF StagesKept
<1> QED
  BY <1>3, <1>4, Zenon DEF CheckFinishedHashes

\* Hashes are asked for, or writing can be prepared at once.
LEMMA HashingPreparedKeepsStages ==
    ASSUME TypeOK, StagesKept, NEW t \in Procs, HashingPrepared(t), \A p \in Procs : p = t
    PROVE  StagesKept'
<1> DEFINE s == sync[t]
<1>1. /\ t \in Threads /\ t # Main /\ Main \in Threads
      /\ s \in Syncs
  BY SyncOfBusyThread, ThreadsAssumption DEF Threads, HashingPrepared
<1>2. NothingToWrite(s)
  BY DEF StagesKept, PreparedInTime, HashingPrepared, HashPlaces
<1>3. PICK v \in {"prepareTasksWriting", "processHashing"} :
         task' = [task EXCEPT ![s].status = v]
  BY DEF HashingPrepared
<1>4. /\ WritesKept
      /\ \A x \in Syncs \ {s} : task'[x].status = task[x].status
      /\ task'[s].status = v
  BY <1>1, <1>3, FieldKept
<1>5. /\ sync' = sync /\ arg' = arg /\ pc'[Main] = pc[Main]
      /\ pc'[t] = "secondTest"
  BY <1>1 DEF TypeOK, ThreadsTypeOK, HashingPrepared, Continue, Goto
<1>6. \A x \in Syncs : NothingToWrite(x) => NothingToWrite(x)'
  BY <1>4 DEF NothingToWrite, WritesKept
<1>7. WritesComeLate'
  BY <1>2, <1>4, <1>6 DEF StagesKept, WritesComeLate
<1>8. PreparedInTime'
  BY <1>5 DEF PreparedInTime, HashPlaces, WritePlaces
<1>9. HashesInTime'
  <2> SUFFICES ASSUME TakesHashes'
               PROVE  /\ task'[sync[Main]].status \in {"processHashing"} \cup Over
                      /\ NothingToWrite(sync[Main])'
    BY <1>5 DEF HashesInTime, HashPlaces, WritePlaces, NothingToWrite
  <2>1. TakesHashes /\ sync[Main] \in Syncs
    BY <1>1, <1>5, SyncOfBusyThread DEF TakesHashes
  <2>2. /\ sync[Main] # s
        /\ task[sync[Main]].status \in {"processHashing"} \cup Over
        /\ NothingToWrite(sync[Main])
    BY <2>1 DEF StagesKept, HashesInTime, HashingPrepared, HashPlaces
  <2> QED
    BY <1>4, <1>5, <2>1, <2>2 DEF NothingToWrite, WritesKept
<1> QED
  BY <1>7, <1>8, <1>9 DEF StagesKept

\* The tasks to write are there, while nobody takes hashes.
LEMMA WritingPreparedKeepsStages ==
    ASSUME TypeOK, CountsInv, StagesKept, NEW t \in Procs, WritingPrepared(t),
           \A p \in Procs : p = t
    PROVE  StagesKept' /\ CountsInv'
<1> DEFINE s == sync[t]
<1>1. /\ t \in Threads /\ t # Main /\ Main \in Threads
      /\ s \in Syncs
  BY SyncOfBusyThread, ThreadsAssumption DEF Threads, WritingPrepared
<1>2. NothingToWrite(s)
  BY DEF StagesKept, PreparedInTime, WritingPrepared, WritePlaces
<1>3. /\ CountsInv'
      /\ \A x \in Syncs : x # s => task'[x] = task[x]
      /\ task'[s].status = "processWriting"
  BY <1>2, WritingPreparedCounts
<1>4. /\ sync' = sync /\ arg' = arg /\ pc'[Main] = pc[Main]
      /\ pc'[t] \in {"succeed", "sendLock"}
  BY <1>1 DEF TypeOK, ThreadsTypeOK, WritingPrepared, Continue, Goto
<1>5. WritesComeLate'
  BY <1>3 DEF StagesKept, WritesComeLate, NothingToWrite
<1>6. PreparedInTime'
  BY <1>4 DEF PreparedInTime, HashPlaces, WritePlaces
<1>7. HashesInTime'
  <2> SUFFICES ASSUME TakesHashes'
               PROVE  /\ task'[sync[Main]].status \in {"processHashing"} \cup Over
                      /\ NothingToWrite(sync[Main])'
    BY <1>4 DEF HashesInTime, HashPlaces, WritePlaces, NothingToWrite
  <2>1. TakesHashes /\ sync[Main] \in Syncs
    BY <1>1, <1>4, SyncOfBusyThread DEF TakesHashes
  <2>2. /\ sync[Main] # s
        /\ task[sync[Main]].status \in {"processHashing"} \cup Over
        /\ NothingToWrite(sync[Main])
    BY <2>1 DEF StagesKept, HashesInTime, WritingPrepared, WritePlaces
  <2> QED
    BY <1>3, <1>4, <2>1, <2>2 DEF NothingToWrite
<1> QED
  BY <1>3, <1>5, <1>6, <1>7 DEF StagesKept

-------------------------------------------------------------------------------
LEMMA NextCounts ==
    ASSUME TypeOK, CountsInv, StagesKept, [Next]_vars, \A p, q \in Procs : p = q
    PROVE  CountsInv' /\ StagesKept'
<1>1. ASSUME CountsInv', StatusQuiet, Shrinks, QuietThreads
      PROVE  CountsInv' /\ StagesKept'
  BY <1>1, StagesContinue DEF Shrinks, QuietThreads
<1>2. Main \in Threads /\ \A p \in Procs : p \in Threads
  BY DEF Threads
<1>3. CASE Synchronize \/ Answer \/ UNCHANGED vars
  <2>1. UNCHANGED threads
    BY <1>3 DEF Synchronize, Answer, vars
  <2>2. QuietThreads
    BY <2>1, StaysQuiet DEF threads
  <2> QED
    BY <1>1, <1>3, <2>2, OtherStepsCount
<1>4. CASE ReceiveMessage
  <2>1. CountsInv'
    BY <1>4, OtherStepsCount
  <2> QED
    BY <1>4, <2>1, ReceiveKeepsStages
<1>5. CASE CheckFinishedHashes
  <2>1. WritesKept /\ UNCHANGED counts
    <3>1. \/ UNCHANGED task
          \/ task' = [task EXCEPT ![sync[Main]].status = "prepareTasksWriting"]
      BY <1>5, Zenon DEF CheckFinishedHashes
    <3> QED
      BY <1>5, <3>1, FieldKept DEF CheckFinishedHashes
  <2> QED
    BY <1>5, <2>1, CountsContinue, CheckFinishedHashesKeepsStages
<1>6. CASE UpdateStep /\ ~ ReceiveMessage /\ ~ CheckFinishedHashes
  <2>1. QuietThreads
    BY <1>6, UpdateQuiet
  <2>2. CountsInv' /\ StatusQuiet /\ Shrinks
    BY <1>2, <1>6, OtherStepsCount, StatusStepsCount, ProcessFileDataReceivedCounts,
       ProcessResponseFinishWriteFileCounts
       DEF UpdateStep
  <2> QED
    BY <1>1, <2>1, <2>2
<1>7. ASSUME NEW t \in Procs, HashingPrepared(t)
      PROVE  CountsInv' /\ StagesKept'
  <2>1. WritesKept /\ UNCHANGED counts
    <3>1. PICK v : task' = [task EXCEPT ![sync[t]].status = v]
      BY <1>7 DEF HashingPrepared
    <3> QED
      BY <1>7, <3>1, FieldKept DEF HashingPrepared
  <2> QED
    BY <1>7, <2>1, CountsContinue, HashingPreparedKeepsStages
<1>8. ASSUME NEW t \in Procs, WritingPrepared(t)
      PROVE  CountsInv' /\ StagesKept'
  BY <1>8, WritingPreparedKeepsStages
<1>9. ASSUME NEW t \in Procs, RunSyncTask(t)
      PROVE  CountsInv' /\ StagesKept'
  <2>1. CountsInv'
    BY <1>9, OtherStepsCount
  <2> QED
    BY <1>9, <2>1, RunSyncTaskKeepsStages
<1>10. ASSUME NEW t \in Procs, RunTaskStep(t),
              ~ HashingPrepared(t), ~ WritingPrepared(t), ~ RunSyncTask(t)
       PROVE  CountsInv' /\ StagesKept'
  <2>1. QuietThreads
    BY <1>10, RunTaskQuiet
  <2>2. CountsInv' /\ StatusQuiet /\ Shrinks
    BY <1>10, OtherStepsCount, ReadFileBlockCounts DEF RunTaskStep
  <2> QED
    BY <1>1, <2>1, <2>2
<1>11. ASSUME NEW t \in Threads, SharedStep(t)
       PROVE  CountsInv' /\ StagesKept'
  <2>1. QuietThreads
    BY <1>11, SharedQuiet
  <2>2. todo[t] \subseteq Paths
    BY DEF TypeOK, ThreadsTypeOK
  <2>3. CountsInv' /\ StatusQuiet /\ Shrinks
    BY <1>11, <2>2, OtherStepsCount, StatusStepsCount, SendFileDataCounts
       DEF SharedStep, SendNextWriteRequests
  <2> QED
    BY <1>1, <2>1, <2>3
<1> QED
  BY <1>3, <1>4, <1>5, <1>6, <1>7, <1>8, <1>9, <1>10, <1>11 DEF Next

LEMMA InitCounts == Init => CountsInv /\ StagesKept
<1> SUFFICES ASSUME Init
             PROVE  CountsInv /\ StagesKept
  OBVIOUS
<1>1. \A s \in Syncs : task[s].writes = <<>> /\ task[s].status = "pending"
  BY DEF Init, NewTask
<1>2. BusyFiles = {} /\ BusyBlocks = {}
  BY <1>1 DEF BusyFiles, BusyBlocks, BusyFilesOf
<1>3. FinishedIsWritten
  BY <1>1 DEF FinishedIsWritten
<1>4. CountsInv
  BY <1>2, <1>3, FS_EmptySet DEF CountsInv, CountersExact, Init
<1>5. StagesKept
  BY <1>1 DEF Init, StagesKept, WritesComeLate, PreparedInTime, HashesInTime, TakesHashes,
     NothingToWrite, Threads, HashPlaces, WritePlaces
<1> QED
  BY <1>4, <1>5

(* The counters of files and blocks in progress never drift, whatever the order of
   requests, answers and failures: pCountInProgressFiles and pCountInProgressBlocks
   are the numbers of write tasks and blocks started and not yet finished, those of
   aborted attempts included.  One task processor is assumed, which is what
   StartTaskProcessors() starts: two that prepare the same attempt replace write
   tasks in progress, and the counters stay too high. *)
THEOREM CountersAreExact ==
    ASSUME \A p, q \in Procs : p = q
    PROVE  Spec => []CountersExact
<1> DEFINE Inv == TypeOK /\ CountsInv /\ StagesKept
<1>1. Init => Inv
  BY InitTypeOK, InitCounts
<1>2. Inv /\ [Next]_vars => Inv'
  BY NextTypeOK, NextCounts
<1>3. Inv => CountersExact
  BY DEF CountsInv
<1> HIDE DEF Inv
<1> QED
  BY <1>1, <1>2, <1>3, PTL DEF Spec

-------------------------------------------------------------------------------
(* One attempt after the other *)

\* The attempt under way is at one of these stages.
Stage(S) == taskSync # None /\ task[taskSync].status \in S

\* Every attempt but the one under way is over or has not begun.
AttemptsOver ==
    /\ taskSync <= syncs
    /\ \A s \in Syncs :
          /\ s <= syncs /\ s # taskSync => task[s].status \in Over
          /\ s > syncs => /\ task[s].status = "pending"
                          /\ task[s].want = {"server", "client"}
                          /\ task[s].deletes = {}
          /\ task[s].status = "processHashing" => task[s].want = {}

\* Update() cannot end the attempt from here.
Harmless ==
    \/ pc[Main] \in {"idle", "enqueue", "layoutDone"}
    \/ pc[Main] = "apply" /\ arg[Main].req.kind \in {"layout", "delete"}

\* Update() works for the attempt under way until it is over.  It cannot end it
\* while it is prepared, except for hashes the processor is not concerned with.
UpdateInTime ==
    /\ sync[Main] <= syncs
    /\ pc[Main] # "idle" => taskSync \in {sync[Main], None}
    /\ Stage({"pending", "prepareTasksWriting"}) => Harmless
    /\ Stage({"processHashing"}) => Harmless \/ TakesHashes \/ pc[Main] = "fail"
    /\ TakesHashes =>
          taskSync = sync[Main] /\ task[sync[Main]].status = "processHashing"
    /\ pc[Main] = "enqueue" => task[sync[Main]].want = {}

\* The processor prepares the attempt under way, and has nothing else to do while
\* hashes are awaited or writing can be prepared.
PreparesAttempt ==
    \A p \in Procs :
        /\ sync[p] <= syncs
        /\ pc[p] = "syncClient" =>
              taskSync = sync[p] /\ task[sync[p]].status \in {"pending", "prepareTasksWriting"}
        /\ pc[p] \in HashPlaces => taskSync = sync[p] /\ task[sync[p]].status = "pending"
        /\ pc[p] \in WritePlaces =>
              taskSync = sync[p] /\ task[sync[p]].status = "prepareTasksWriting"
        /\ pc[p] \in {"syncClient"} \cup HashPlaces => task[sync[p]].want = {}
        /\ Stage({"processHashing"}) => pc[p] \in {"idle", "secondTest"}
        /\ Stage({"prepareTasksWriting"}) =>
              pc[p] \in {"idle", "syncClient", "secondTest", "fail"} \cup WritePlaces

\* A processor that still sends for an old attempt has not built the layout of the
\* new one.
SendsBeforeLayout ==
    \A p \in Procs :
        pc[p] \in {"sendLock", "send"} /\ taskSync # None /\ taskSync # sync[p] =>
            "server" \in task[taskSync].want

\* No file is to be deleted before writing is prepared.
DeletesComeLate ==
    Stage({"pending", "processHashing", "prepareTasksWriting"}) =>
        task[taskSync].deletes = {} \/ \E p \in Procs : pc[p] = "delete"

Preparing ==
    \/ Stage({"processHashing", "prepareTasksWriting"})
    \/ \E p \in Procs : pc[p] \in {"syncClient"} \cup HashPlaces

\* An attempt is queued once both layouts are there, behind all that is to be done
\* before.
QueuedInTime ==
    /\ \A i \in DOMAIN pending :
          /\ pending[i].sync <= syncs
          /\ pending[i].kind = "syncClient" => task[pending[i].sync].want = {}
          /\ Preparing => pending[i].kind = "syncClient"
    /\ Stage({"pending"}) =>
          \A i, j \in DOMAIN pending :
             /\ pending[i].kind = "syncClient" /\ pending[i].sync = taskSync
             /\ i < j
             => pending[j].kind = "syncClient"

AttemptInv ==
    /\ AttemptsOver /\ UpdateInTime /\ PreparesAttempt /\ SendsBeforeLayout
    /\ DeletesComeLate /\ QueuedInTime

-------------------------------------------------------------------------------
(* What a step leaves alone *)

PhasesKept ==
    \A s \in Syncs : task'[s].status = task[s].status /\ task'[s].want = task[s].want

DeletesKept == \A s \in Syncs : task[s].deletes = {} => task'[s].deletes = {}

AttemptKept == UNCHANGED <<syncs, taskSync>> /\ PhasesKept

\* The threads but one stay where they are.
OthersStay(t) ==
    \A u \in Threads \ {t} : pc'[u] = pc[u] /\ sync'[u] = sync[u] /\ arg'[u] = arg[u]

LEMMA TaskFieldSet ==
    ASSUME TypeOK, NEW s, NEW v
    PROVE  /\ \/ task' = task
              \/ task' = [task EXCEPT ![s].layout = v]
              \/ task' = [task EXCEPT ![s].hashes = v]
              \/ task' = [task EXCEPT ![s].writes = v]
              \/ \E p : task' = [task EXCEPT ![s].writes[p].status = v]
              \/ \E p : task' = [task EXCEPT ![s].writes[p].blocks = v]
              \/ \E p, i : task' = [task EXCEPT ![s].writes[p].blocks[i] = v]
              => PhasesKept /\ DeletesKept
           /\ task' = [task EXCEPT ![s].deletes = v] =>
                 /\ PhasesKept
                 /\ \A x \in Syncs \ {s} : task'[x].deletes = task[x].deletes
                 /\ s \in Syncs => task'[s].deletes = v
           /\ task' = [task EXCEPT ![s].status = v] =>
                 /\ \A x \in Syncs : /\ task'[x].want = task[x].want
                                     /\ task'[x].deletes = task[x].deletes
                                     /\ x # s => task'[x].status = task[x].status
                 /\ s \in Syncs => task'[s].status = v
           /\ task' = [task EXCEPT ![s].want = v] =>
                 /\ \A x \in Syncs : /\ task'[x].status = task[x].status
                                     /\ task'[x].deletes = task[x].deletes
                                     /\ x # s => task'[x].want = task[x].want
                 /\ s \in Syncs => task'[s].want = v
<1>1. /\ DOMAIN task = Syncs
      /\ \A x \in Syncs :
            DOMAIN task[x] = {"status", "want", "layout", "hashes", "deletes", "writes"}
  BY DEF TypeOK, TasksTypeOK, IsSyncTask, NewTask
<1>2. \/ task' = task
      \/ task' = [task EXCEPT ![s].layout = v]
      \/ task' = [task EXCEPT ![s].hashes = v]
      \/ task' = [task EXCEPT ![s].writes = v]
      => PhasesKept /\ DeletesKept
  BY <1>1 DEF PhasesKept, DeletesKept
<1>3. \/ \E p : task' = [task EXCEPT ![s].writes[p].status = v]
      \/ \E p : task' = [task EXCEPT ![s].writes[p].blocks = v]
      \/ \E p, i : task' = [task EXCEPT ![s].writes[p].blocks[i] = v]
      => PhasesKept /\ DeletesKept
  BY <1>1 DEF PhasesKept, DeletesKept
<1> QED
  BY <1>1, <1>2, <1>3 DEF PhasesKept

LEMMA OneDeletesSet ==
    ASSUME TypeOK, NEW s \in Syncs, NEW v, task[s].deletes = {} => v = {},
           task' = [task EXCEPT ![s].deletes = v]
    PROVE  PhasesKept /\ DeletesKept
<1>1. /\ PhasesKept /\ task'[s].deletes = v
      /\ \A x \in Syncs \ {s} : task'[x].deletes = task[x].deletes
  BY Zenon, TaskFieldSet
<1> QED
  BY <1>1 DEF DeletesKept

LEMMA OneWantSet ==
    ASSUME TypeOK, NEW s \in Syncs, NEW v, task' = [task EXCEPT ![s].want = v]
    PROVE  /\ \A x \in Syncs : /\ task'[x].status = task[x].status
                               /\ task'[x].deletes = task[x].deletes
                               /\ x # s => task'[x].want = task[x].want
           /\ task'[s].want = v
BY Zenon, TaskFieldSet

\* How a thread goes on.
LEMMA ThreadMoves ==
    ASSUME TypeOK, NEW t \in Threads
    PROVE  /\ Return(t) => pc'[t] = "idle" /\ sync'[t] = None /\ OthersStay(t)
           /\ \A to : Continue(t, to) => /\ pc'[t] = to /\ OthersStay(t)
                                         /\ sync'[t] = sync[t] /\ arg'[t] = arg[t]
           /\ \A to, s : Goto(t, to) /\ sync' = [sync EXCEPT ![t] = s] =>
                 /\ pc'[t] = to /\ sync'[t] = s
                 /\ UNCHANGED arg => OthersStay(t) /\ arg'[t] = arg[t]
                 /\ \A a : arg' = [arg EXCEPT ![t] = a] => OthersStay(t) /\ arg'[t] = a
           /\ \A to, a : Goto(t, to) /\ UNCHANGED sync /\ arg' = [arg EXCEPT ![t] = a] =>
                 pc'[t] = to /\ sync'[t] = sync[t] /\ OthersStay(t)
           /\ \A to : Goto(t, to) /\ UNCHANGED <<sync, arg>> =>
                 /\ pc'[t] = to /\ OthersStay(t)
                 /\ sync'[t] = sync[t] /\ arg'[t] = arg[t]
BY DEF TypeOK, ThreadsTypeOK, ArgsTypeOK, Return, Continue, Goto, OthersStay

\* The tasks of the queue.
LEMMA PendingFacts ==
    ASSUME TypeOK
    PROVE  \A i \in DOMAIN pending :
              /\ pending[i] \in PendingTasks
              /\ pending[i].sync \in Syncs
              /\ pending[i].kind \in {"fileLayout", "syncClient", "fileWriteBlock"}
<1>1. \A i \in DOMAIN pending : pending[i] \in PendingTasks
  BY ElementOfSeq, LenProperties DEF TypeOK, QueuesTypeOK
<1>2. \A e \in PendingTasks :
         e.sync \in Syncs /\ e.kind \in {"fileLayout", "syncClient", "fileWriteBlock"}
  BY DEF PendingTasks, LayoutTask, SyncTask, AboutBlocks, BlockTask
<1> QED
  BY <1>1, <1>2

LEMMA StageKept ==
    ASSUME TypeOK, AttemptKept
    PROVE  \A S : Stage(S)' <=> Stage(S)
<1>1. taskSync # None => taskSync \in Syncs
  BY DEF TypeOK, ClientTypeOK, Syncs, None
<1> QED
  BY <1>1 DEF AttemptKept, PhasesKept, Stage

LEMMA AttemptsKept ==
    ASSUME AttemptsOver, AttemptKept, DeletesKept
    PROVE  AttemptsOver'
BY DEF AttemptsOver, AttemptKept, PhasesKept, DeletesKept

LEMMA UpdateKept ==
    ASSUME TypeOK, UpdateInTime, AttemptKept,
           pc'[Main] = pc[Main], sync'[Main] = sync[Main], arg'[Main] = arg[Main]
    PROVE  UpdateInTime'
<1>1. /\ \A S : Stage(S)' <=> Stage(S)
      /\ Harmless' <=> Harmless
      /\ TakesHashes' <=> TakesHashes
  BY StageKept DEF Harmless, TakesHashes
<1>2. pc[Main] # "idle" => sync[Main] \in Syncs
  BY SyncOfBusyThread DEF Threads
<1> QED
  BY <1>1, <1>2 DEF UpdateInTime, AttemptKept, PhasesKept, TakesHashes

LEMMA ProcessorsKept ==
    ASSUME TypeOK, PreparesAttempt, SendsBeforeLayout, DeletesComeLate, AttemptKept,
           DeletesKept, \A p \in Procs : pc'[p] = pc[p] /\ sync'[p] = sync[p]
    PROVE  PreparesAttempt' /\ SendsBeforeLayout' /\ DeletesComeLate'
<1>1. \A S : Stage(S)' <=> Stage(S)
  BY StageKept
<1>2. /\ taskSync # None => taskSync \in Syncs
      /\ \A p \in Procs : pc[p] # "idle" => sync[p] \in Syncs
  BY SyncOfBusyThread DEF Threads, TypeOK, ClientTypeOK, Syncs, None
<1>3. PreparesAttempt'
  BY <1>1, <1>2 DEF PreparesAttempt, AttemptKept, PhasesKept, HashPlaces, WritePlaces
<1>4. SendsBeforeLayout'
  BY <1>2 DEF SendsBeforeLayout, AttemptKept, PhasesKept
<1>5. DeletesComeLate'
  BY <1>1, <1>2 DEF DeletesComeLate, AttemptKept, DeletesKept, Stage
<1> QED
  BY <1>3, <1>4, <1>5

LEMMA QueueKept ==
    ASSUME TypeOK, QueuedInTime, AttemptKept, Preparing' => Preparing, UNCHANGED pending
    PROVE  QueuedInTime'
<1>1. \A S : Stage(S)' <=> Stage(S)
  BY StageKept
<1> QED
  BY <1>1, PendingFacts DEF QueuedInTime, AttemptKept, PhasesKept

\* A step of Update() that leaves the attempt at its stage, and the processors alone.
LEMMA UpdateMoves ==
    ASSUME TypeOK, AttemptInv, AttemptKept, DeletesKept, OthersStay(Main), UNCHANGED pending
    PROVE  UpdateInTime' => AttemptInv'
<1>1. Main \in Threads /\ \A p \in Procs : p \in Threads \ {Main}
  BY ThreadsAssumption DEF Threads
<1>2. \A p \in Procs : pc'[p] = pc[p] /\ sync'[p] = sync[p]
  BY <1>1 DEF OthersStay
<1>3. Preparing' => Preparing
  BY <1>2, StageKept DEF Preparing
<1> QED
  BY <1>2, <1>3, AttemptsKept, ProcessorsKept, QueueKept DEF AttemptInv

\* A step of the processor that leaves the attempt at its stage, and Update() alone.
LEMMA ProcessorMoves ==
    ASSUME TypeOK, AttemptInv, AttemptKept, NEW t \in Procs, OthersStay(t),
           \A p \in Procs : p = t, UNCHANGED pending, DeletesKept,
           sync'[t] <= syncs,
           pc'[t] # "syncClient",
           pc'[t] \in HashPlaces =>
              /\ sync'[t] = sync[t]
              /\ \/ pc[t] \in HashPlaces
                 \/ pc[t] = "syncClient" /\ task[sync[t]].status = "pending",
           pc'[t] \in WritePlaces =>
              /\ sync'[t] = sync[t]
              /\ \/ pc[t] \in WritePlaces
                 \/ pc[t] = "secondTest" /\ task[sync[t]].status = "prepareTasksWriting",
           pc'[t] \in {"sendLock", "send"} =>
              \/ sync'[t] = taskSync
              \/ pc[t] \in {"sendLock", "send"} /\ sync'[t] = sync[t],
           pc[t] = "delete" => pc'[t] = "delete",
           Stage({"processHashing"}) => pc'[t] \in {"idle", "secondTest"},
           Stage({"prepareTasksWriting"}) =>
              pc'[t] \in {"idle", "secondTest", "fail"} \cup WritePlaces
    PROVE  AttemptInv'
<1>1. t \in Threads /\ t # Main /\ Main \in Threads
  BY ThreadsAssumption DEF Threads
<1>2. pc'[Main] = pc[Main] /\ sync'[Main] = sync[Main] /\ arg'[Main] = arg[Main]
  BY <1>1 DEF OthersStay
<1>3. \A S : Stage(S)' <=> Stage(S)
  BY StageKept
<1>4. /\ taskSync # None => taskSync \in Syncs
      /\ pc[t] # "idle" => sync[t] \in Syncs
  BY <1>1, SyncOfBusyThread DEF TypeOK, ClientTypeOK, Syncs, None
<1>5. AttemptsOver' /\ UpdateInTime'
  BY <1>2, AttemptsKept, UpdateKept DEF AttemptInv
<1>6. PreparesAttempt'
  <2>1. pc'[t] \in WritePlaces => taskSync = sync[t] /\ sync[t] \in Syncs
    <3>1. CASE pc[t] \in WritePlaces
      BY <1>4, <3>1 DEF AttemptInv, PreparesAttempt, WritePlaces
    <3>2. CASE pc[t] = "secondTest" /\ task[sync[t]].status = "prepareTasksWriting"
      BY <1>1, <1>4, <3>2 DEF AttemptInv, AttemptsOver, PreparesAttempt, Over
    <3> QED
      BY <3>1, <3>2
  <2> QED
    BY <1>3, <1>4, <2>1
       DEF AttemptInv, PreparesAttempt, AttemptKept, PhasesKept, HashPlaces, WritePlaces
<1>7. SendsBeforeLayout'
  BY <1>4 DEF AttemptInv, SendsBeforeLayout, AttemptKept, PhasesKept
<1>8. DeletesComeLate'
  BY <1>3, <1>4 DEF AttemptInv, DeletesComeLate, AttemptKept, DeletesKept, Stage
<1>9. QueuedInTime'
  <2>1. Preparing' => Preparing
    BY <1>3 DEF Preparing
  <2> QED
    BY <2>1, QueueKept DEF AttemptInv
<1> QED
  BY <1>5, <1>6, <1>7, <1>8, <1>9 DEF AttemptInv

-------------------------------------------------------------------------------
(* The steps that leave the attempt at its stage *)

LEMMA UpdateContinues ==
    ASSUME TypeOK, AttemptInv, AttemptKept, DeletesKept, UNCHANGED pending,
           OthersStay(Main),
           \/ pc'[Main] = "idle" /\ sync'[Main] = None
           \/ /\ pc[Main] # "idle" /\ sync'[Main] = sync[Main]
              /\ pc'[Main] \notin {"apply", "enqueue"}
              /\ pc'[Main] = "checkHashes" => TakesHashes
              /\ Stage({"pending", "prepareTasksWriting"}) => pc'[Main] \in {"idle", "layoutDone"}
              /\ Stage({"processHashing"}) =>
                    pc'[Main] \in {"idle", "layoutDone", "checkHashes", "fail"}
    PROVE  AttemptInv'
<1>1. \A S : Stage(S)' <=> Stage(S)
  BY StageKept
<1>2. pc[Main] # "idle" => sync[Main] \in Syncs
  BY SyncOfBusyThread DEF Threads
<1>3. syncs \in Nat /\ None <= syncs
  BY LimitsAssumption DEF TypeOK, ClientTypeOK, None
<1>4. UpdateInTime'
  <2>1. CASE pc'[Main] = "idle" /\ sync'[Main] = None
    BY <1>3, <2>1 DEF UpdateInTime, TakesHashes, Harmless, AttemptKept
  <2>2. CASE ~ (pc'[Main] = "idle" /\ sync'[Main] = None)
    <3>1. TakesHashes' => TakesHashes
      BY <2>2 DEF TakesHashes
    <3>2. Stage({"processHashing"}) => Harmless' \/ TakesHashes' \/ pc'[Main] = "fail"
      BY <2>2 DEF Harmless, TakesHashes
    <3> QED
      BY <1>1, <1>2, <2>2, <3>1, <3>2
         DEF AttemptInv, UpdateInTime, Harmless, AttemptKept, PhasesKept
  <2> QED
    BY <2>1, <2>2
<1> QED
  BY <1>4, UpdateMoves

\* Update() ends no attempt being prepared.
LEMMA UpdateElsewhere ==
    ASSUME AttemptInv
    PROVE  /\ pc[Main] \in {"checkWrite", "sendLock", "send", "succeed", "clear"} =>
                 ~ Stage({"pending", "processHashing", "prepareTasksWriting"})
           /\ pc[Main] = "apply" /\ arg[Main].req.kind \in {"write", "data", "finish"} =>
                 ~ Stage({"pending", "processHashing", "prepareTasksWriting"})
           /\ pc[Main] = "fail" => ~ Stage({"pending", "prepareTasksWriting"})
           /\ pc[Main] = "apply" /\ arg[Main].req.kind = "hashes" =>
                 ~ Stage({"pending", "prepareTasksWriting"})
           /\ Stage({"pending", "processHashing", "prepareTasksWriting"}) <=>
                 Stage({"pending", "prepareTasksWriting"}) \/ Stage({"processHashing"})
BY DEF AttemptInv, UpdateInTime, Harmless, TakesHashes, Stage

LEMMA ReceiveMessageAttempt ==
    ASSUME TypeOK, AttemptInv, ReceiveMessage
    PROVE  AttemptInv'
<1> DEFINE m == Head(queueReceived)
<1>1. UNCHANGED <<syncs, taskSync, pending>> /\ PhasesKept /\ DeletesKept
  BY DEF ReceiveMessage, client, PhasesKept, DeletesKept
<1>2. Main \in Threads
  BY DEF Threads
<1>3. CASE UNCHANGED threads
  <2>1. OthersStay(Main) /\ UpdateInTime'
    BY <1>1, <1>3, UpdateKept DEF threads, OthersStay, AttemptInv, AttemptKept
  <2> QED
    BY <1>1, <2>1, UpdateMoves DEF AttemptKept
<1>4. CASE /\ taskSync # None /\ task[taskSync].status \in Accepts(m.req.kind)
           /\ Goto(Main, "apply")
           /\ sync' = [sync EXCEPT ![Main] = taskSync]
           /\ arg' = [arg EXCEPT ![Main] = m]
  <2>1. /\ pc'[Main] = "apply" /\ sync'[Main] = taskSync /\ arg'[Main] = m
        /\ OthersStay(Main)
    BY <1>2, <1>4, ThreadMoves
  <2>2. m.req.kind \in {"layout", "hashes", "delete", "write", "data", "finish"}
    <3>1. Head(queueReceived) \in Range(queueReceived)
      BY TailTyped DEF TypeOK, QueuesTypeOK, ReceiveMessage
    <3> QED
      BY <3>1, RequestProperties DEF TypeOK, QueuesTypeOK, IsResponse
  <2>3. /\ Stage({"pending"}) => m.req.kind = "layout"
        /\ Stage({"prepareTasksWriting"}) => m.req.kind = "delete"
        /\ Stage({"processHashing"}) => m.req.kind = "hashes"
        /\ m.req.kind = "hashes" => task[taskSync].status = "processHashing"
    BY <1>4, <2>2 DEF Stage, Accepts
  <2>4. taskSync <= syncs
    BY DEF AttemptInv, AttemptsOver
  <2>5. \A S : Stage(S)' <=> Stage(S)
    BY <1>1, StageKept DEF AttemptKept
  <2> HIDE DEF m
  <2>6. UpdateInTime'
    <3>1. taskSync \in Syncs
      BY <1>4 DEF TypeOK, ClientTypeOK, Syncs, None
    <3>2. TakesHashes' <=> m.req.kind = "hashes"
      BY <2>1 DEF TakesHashes
    <3>3. /\ Stage({"pending", "prepareTasksWriting"}) => m.req.kind \in {"layout", "delete"}
          /\ Harmless' <=> m.req.kind \in {"layout", "delete"}
      BY <2>1, <2>3 DEF Harmless, Stage
    <3> QED
      BY <1>1, <2>1, <2>3, <2>4, <2>5, <3>1, <3>2, <3>3 DEF UpdateInTime, PhasesKept
  <2> QED
    BY <1>1, <2>1, <2>6, UpdateMoves DEF AttemptKept
<1> QED
  BY <1>3, <1>4, Zenon DEF ReceiveMessage

LEMMA ResponseHashesKeepsPhases ==
    ASSUME TypeOK, ProcessResponseFileBlockHashes
    PROVE  PhasesKept /\ DeletesKept
<1> DEFINE s == sync[Main]
           p == arg[Main].req.path
           hashes == arg[Main].body
           l == layoutClient
           erased == [task EXCEPT ![s].hashes = @ \ {p}]
<1>1. /\ DOMAIN task = Syncs
      /\ \A x \in Syncs :
            DOMAIN task[x] = {"status", "want", "layout", "hashes", "deletes", "writes"}
  BY DEF TypeOK, TasksTypeOK, IsSyncTask, NewTask
<1>2. /\ DOMAIN erased = Syncs
      /\ \A x \in Syncs : /\ DOMAIN erased[x] = DOMAIN task[x]
                          /\ erased[x].want = task[x].want
                          /\ erased[x].status = task[x].status
                          /\ erased[x].deletes = task[x].deletes
  BY <1>1
<1>3. \/ task' = task
      \/ task' = erased
      \/ \E v : task' = [erased EXCEPT ![l].layout[p].hashes = v]
  <2>1. \/ task' = task
        \/ task' = erased
        \/ task' = [erased EXCEPT ![l].layout[p].hashes =
              [i \in DOMAIN @ |-> IF i \in DOMAIN hashes THEN hashes[i] ELSE @[i]]]
    BY Zenon DEF ProcessResponseFileBlockHashes
  <2> HIDE DEF erased, hashes
  <2> QED
    BY <2>1
<1> HIDE DEF erased, p, l
<1> QED
  BY <1>1, <1>2, <1>3 DEF PhasesKept, DeletesKept

\* What Update() leaves alone in a step that neither ends an attempt nor queues one.
LEMMA UpdateStepsKeep ==
    ASSUME TypeOK,
           \/ SendQueuedMessages \/ ProcessResponseFileLayout
           \/ ProcessResponseFileBlockHashes \/ ProcessResponseDeleteFile
           \/ ProcessResponseWriteFile \/ ProcessFileDataReceived
           \/ ProcessResponseFinishWriteFile
           \/ CheckFinishedWrite /\ UNCHANGED task
           \/ ReceiveMessage
    PROVE  UNCHANGED <<syncs, taskSync, pending>> /\ PhasesKept /\ DeletesKept
<1>1. UNCHANGED <<syncs, taskSync, pending>>
  BY DEF SendQueuedMessages, ProcessResponseFileLayout, ProcessResponseFileBlockHashes,
     ProcessResponseDeleteFile, ProcessResponseWriteFile, ProcessFileDataReceived,
     ProcessResponseFinishWriteFile, CheckFinishedWrite, ReceiveMessage, client
<1>2. CASE ProcessResponseFileBlockHashes
  BY <1>1, <1>2, ResponseHashesKeepsPhases
<1>3. CASE ProcessResponseDeleteFile
  <2>1. CASE UNCHANGED task
    BY <1>1, <2>1 DEF PhasesKept, DeletesKept
  <2>2. CASE task' = [task EXCEPT ![sync[Main]].deletes = @ \ {arg[Main].req.path}]
    <3> DEFINE v == task[sync[Main]].deletes \ {arg[Main].req.path}
    <3>1. task' = [task EXCEPT ![sync[Main]].deletes = v]
      BY <2>2
    <3>2. sync[Main] \in Syncs /\ (task[sync[Main]].deletes = {} => v = {})
      BY <1>3, SyncOfBusyThread DEF ProcessResponseDeleteFile, Applies, Threads
    <3> HIDE DEF v
    <3>3. PICK s, w : s = sync[Main] /\ w = v
      OBVIOUS
    <3> QED
      BY <1>1, <3>1, <3>2, <3>3, OneDeletesSet
  <2> QED
    BY Zenon, <1>1, <1>3, <2>1, <2>2 DEF ProcessResponseDeleteFile
<1>4. CASE ~ (ProcessResponseFileBlockHashes \/ ProcessResponseDeleteFile)
  <2>1. \/ UNCHANGED task
        \/ \E v : task' = [task EXCEPT ![sync[Main]].layout = v]
        \/ \E p, v : task' = [task EXCEPT ![sync[Main]].writes[p].status = v]
        \/ \E p, v : task' = [task EXCEPT ![sync[Main]].writes[p].blocks = v]
        \/ \E v : task' = [task EXCEPT ![sync[Main]].writes = v]
    BY Zenon, <1>4
       DEF SendQueuedMessages, ProcessResponseFileLayout, ProcessResponseWriteFile,
           ProcessFileDataReceived, ProcessResponseFinishWriteFile, ReceiveMessage
  <2>2. CASE UNCHANGED task
    BY <1>1, <2>2 DEF PhasesKept, DeletesKept
  <2>3. ASSUME NEW v, \/ task' = [task EXCEPT ![sync[Main]].layout = v]
                      \/ task' = [task EXCEPT ![sync[Main]].writes = v]
                      \/ \E p : task' = [task EXCEPT ![sync[Main]].writes[p].status = v]
                      \/ \E p : task' = [task EXCEPT ![sync[Main]].writes[p].blocks = v]
        PROVE  PhasesKept /\ DeletesKept
    <3>1. PICK s : s = sync[Main]
      OBVIOUS
    <3>2. \/ task' = [task EXCEPT ![s].layout = v]
          \/ task' = [task EXCEPT ![s].writes = v]
          \/ \E p : task' = [task EXCEPT ![s].writes[p].status = v]
          \/ \E p : task' = [task EXCEPT ![s].writes[p].blocks = v]
      BY <2>3, <3>1
    <3>3. CASE task' = [task EXCEPT ![s].layout = v]
      BY Zenon, <3>3, TaskFieldSet
    <3>4. CASE task' = [task EXCEPT ![s].writes = v]
      BY Zenon, <3>4, TaskFieldSet
    <3>5. CASE \E p : task' = [task EXCEPT ![s].writes[p].status = v]
      BY Zenon, <3>5, TaskFieldSet
    <3>6. CASE \E p : task' = [task EXCEPT ![s].writes[p].blocks = v]
      BY Zenon, <3>6, TaskFieldSet
    <3> QED
      BY Zenon, <3>2, <3>3, <3>4, <3>5, <3>6
  <2>4. PhasesKept /\ DeletesKept
    BY Zenon, <1>1, <2>1, <2>2, <2>3
  <2> QED
    BY <1>1, <2>4
<1> QED
  BY <1>2, <1>3, <1>4, <1>1

LEMMA UpdateStepsAttempt ==
    ASSUME TypeOK, AttemptInv,
           \/ SendQueuedMessages \/ ProcessResponseFileLayout
           \/ ProcessResponseFileBlockHashes \/ ProcessResponseDeleteFile
           \/ ProcessResponseWriteFile \/ ProcessFileDataReceived
           \/ ProcessResponseFinishWriteFile
           \/ CheckFinishedWrite /\ UNCHANGED task
    PROVE  AttemptInv'
<1>1. Main \in Threads
  BY DEF Threads
<1>2. CASE SendQueuedMessages
  <2>1. /\ UNCHANGED <<syncs, taskSync, pending, pc, sync, arg>>
        /\ PhasesKept /\ DeletesKept
    BY <1>2 DEF SendQueuedMessages, client, threads, PhasesKept, DeletesKept
  <2> QED
    BY <2>1, UpdateKept, UpdateMoves DEF AttemptInv, AttemptKept, OthersStay
<1>3. CASE ProcessResponseFileLayout
  <2>1. /\ UNCHANGED <<syncs, taskSync, pending>> /\ pc[Main] # "idle"
    BY <1>3, UpdateStepsKeep DEF ProcessResponseFileLayout, Applies
  <2>2. Return(Main) \/ Continue(Main, "layoutDone")
    BY <1>3 DEF ProcessResponseFileLayout
  <2>3. PhasesKept /\ DeletesKept
    BY <1>3, UpdateStepsKeep
  <2> QED
    BY <1>1, <2>1, <2>2, <2>3, ThreadMoves, UpdateContinues DEF AttemptKept
<1>4. CASE ProcessResponseFileBlockHashes
  <2>1. /\ UNCHANGED <<syncs, taskSync, pending>> /\ pc[Main] # "idle"
        /\ PhasesKept /\ DeletesKept
        /\ TakesHashes /\ ~ Stage({"pending", "prepareTasksWriting"})
    BY <1>4, UpdateStepsKeep, UpdateElsewhere
       DEF ProcessResponseFileBlockHashes, Applies, TakesHashes
  <2>2. Return(Main) \/ Continue(Main, "checkHashes") \/ Continue(Main, "fail")
    BY Zenon, <1>4 DEF ProcessResponseFileBlockHashes
  <2> QED
    BY <1>1, <2>1, <2>2, ThreadMoves, UpdateContinues DEF AttemptKept
<1>5. CASE ProcessResponseDeleteFile
  <2>1. UNCHANGED <<syncs, taskSync, pending>> /\ pc[Main] # "idle" /\ Free(sync[Main])
    BY <1>5 DEF ProcessResponseDeleteFile, Applies, client
  <2>2. PhasesKept /\ DeletesKept
    BY <1>5, UpdateStepsKeep
  <2>3. \/ Return(Main)
        \/ /\ Continue(Main, "checkWrite") \/ Continue(Main, "fail")
           /\ task[sync[Main]].deletes # {}
    BY <1>5 DEF ProcessResponseDeleteFile
  <2>4. task[sync[Main]].deletes # {} =>
           ~ Stage({"pending", "processHashing", "prepareTasksWriting"})
    <3>1. Stage({"pending", "processHashing", "prepareTasksWriting"}) => taskSync = sync[Main]
      BY <2>1 DEF AttemptInv, UpdateInTime, Stage
    <3>2. \A p \in Procs : pc[p] = "delete" => taskSync # sync[Main]
      BY <2>1 DEF AttemptInv, PreparesAttempt, WritePlaces, Free, Threads
    <3> QED
      BY <3>1, <3>2 DEF AttemptInv, DeletesComeLate
  <2> QED
    BY <1>1, <2>1, <2>2, <2>3, <2>4, ThreadMoves, UpdateContinues, UpdateElsewhere
       DEF AttemptKept
<1>6. CASE ProcessResponseWriteFile \/ ProcessFileDataReceived
           \/ ProcessResponseFinishWriteFile \/ (CheckFinishedWrite /\ UNCHANGED task)
  <2>1. UNCHANGED <<syncs, taskSync, pending>> /\ pc[Main] # "idle"
    BY <1>6 DEF ProcessResponseWriteFile, ProcessFileDataReceived, client, Applies,
       ProcessResponseFinishWriteFile, CheckFinishedWrite
  <2>2. PhasesKept /\ DeletesKept
    BY <1>6, UpdateStepsKeep
  <2>3. ~ Stage({"pending", "processHashing", "prepareTasksWriting"})
    BY <1>6, UpdateElsewhere DEF ProcessResponseWriteFile, ProcessFileDataReceived, Applies,
       ProcessResponseFinishWriteFile, CheckFinishedWrite
  <2>4. \/ Return(Main)
        \/ \E to \in {"sendLock", "fail", "checkWrite", "succeed"} : Continue(Main, to)
    BY <1>6 DEF ProcessResponseWriteFile, ProcessFileDataReceived,
       ProcessResponseFinishWriteFile, CheckFinishedWrite
  <2> QED
    BY <1>1, <2>1, <2>2, <2>3, <2>4, ThreadMoves, UpdateContinues, UpdateElsewhere
       DEF AttemptKept
<1> QED
  BY <1>2, <1>3, <1>4, <1>5, <1>6

LEMMA AddHashTaskKeepsPhases ==
    ASSUME TypeOK, NEW t \in Procs, AddFileBlockHashTask(t)
    PROVE  PhasesKept /\ DeletesKept
<1>1. PICK path \in todo[t] :
         task' = [task EXCEPT
            ![arg[t].sync].layout[path].hashes = [i \in ServerBlocks(path) |-> Hole],
            ![sync[t]].hashes = @ \cup {path}]
  BY Zenon DEF AddFileBlockHashTask
<1>2. /\ DOMAIN task = Syncs
      /\ \A x \in Syncs :
            DOMAIN task[x] = {"status", "want", "layout", "hashes", "deletes", "writes"}
  BY DEF TypeOK, TasksTypeOK, IsSyncTask, NewTask
<1> QED
  BY <1>1, <1>2 DEF PhasesKept, DeletesKept

LEMMA ProcessorStepsKeep ==
    ASSUME TypeOK, NEW t \in Procs,
           \/ ProcessFileLayoutServer(t) \/ LayoutServerBuilt(t) \/ RunSyncTask(t)
           \/ LookUpLayouts(t) \/ LockForHashing(t) \/ AddFileBlockHashTask(t)
           \/ LockForWriting(t) \/ ReadFileBlock(t) \/ SendBlockRead(t)
    PROVE  UNCHANGED <<syncs, taskSync, pending>> /\ PhasesKept /\ DeletesKept
<1>1. UNCHANGED <<syncs, taskSync, pending>>
  BY DEF ProcessFileLayoutServer, LayoutServerBuilt, RunSyncTask, LookUpLayouts,
     LockForHashing, AddFileBlockHashTask, LockForWriting, ReadFileBlock, SendBlockRead,
     client
<1>2. PhasesKept /\ DeletesKept
  <2>1. UNCHANGED task \/ ReadFileBlock(t) \/ AddFileBlockHashTask(t)
    BY DEF ProcessFileLayoutServer, LayoutServerBuilt, RunSyncTask, LookUpLayouts,
       LockForHashing, LockForWriting, SendBlockRead
  <2>2. ReadFileBlock(t) =>
           \/ UNCHANGED task
           \/ \E v : task' =
                 [task EXCEPT ![sync[t]].writes[arg[t].path].blocks[arg[t].index] = v]
    BY Zenon DEF ReadFileBlock
  <2>3. UNCHANGED task => PhasesKept /\ DeletesKept
    BY DEF PhasesKept, DeletesKept
  <2>4. \A v : task' = [task EXCEPT ![sync[t]].writes[arg[t].path].blocks[arg[t].index] = v]
           => PhasesKept /\ DeletesKept
    <3> SUFFICES ASSUME NEW v, task' = [task EXCEPT
                           ![sync[t]].writes[arg[t].path].blocks[arg[t].index] = v]
                 PROVE  PhasesKept /\ DeletesKept
      OBVIOUS
    <3>1. \E p, i : task' = [task EXCEPT ![sync[t]].writes[p].blocks[i] = v]
      OBVIOUS
    <3> QED
      BY <3>1, TaskFieldSet
  <2>5. AddFileBlockHashTask(t) => PhasesKept /\ DeletesKept
    BY AddHashTaskKeepsPhases
  <2> QED
    BY <2>1, <2>2, <2>3, <2>4, <2>5
<1> QED
  BY <1>1, <1>2

\* A processor's step that changes no status.
LEMMA ProcessorStepsAttempt ==
    ASSUME TypeOK, AttemptInv, NEW t \in Procs, \A p \in Procs : p = t,
           \/ ProcessFileLayoutServer(t) \/ LayoutServerBuilt(t) \/ RunSyncTask(t)
           \/ LookUpLayouts(t) \/ LockForHashing(t) \/ AddFileBlockHashTask(t)
           \/ LockForWriting(t) \/ ReadFileBlock(t) \/ SendBlockRead(t)
    PROVE  AttemptInv'
<1>1. t \in Threads
  BY DEF Threads
<1>2. UNCHANGED <<syncs, taskSync, pending>>
  BY ProcessorStepsKeep
<1>3. PhasesKept /\ DeletesKept
  BY ProcessorStepsKeep
<1>4. /\ syncs \in Nat /\ None <= syncs /\ taskSync <= syncs /\ sync[t] <= syncs
      /\ Stage({"processHashing"}) => pc[t] \in {"idle", "secondTest"}
      /\ Stage({"prepareTasksWriting"}) =>
            pc[t] \in {"idle", "syncClient", "secondTest", "fail"} \cup WritePlaces
  BY LimitsAssumption
     DEF TypeOK, ClientTypeOK, None, AttemptInv, AttemptsOver, PreparesAttempt
<1>5. CASE ProcessFileLayoutServer(t) \/ SendBlockRead(t)
  <2>1. \/ Return(t)
        \/ /\ Goto(t, "building") \/ Goto(t, "sendLock")
           /\ sync' = [sync EXCEPT ![t] = taskSync] /\ UNCHANGED arg
    BY <1>5 DEF ProcessFileLayoutServer, SendBlockRead
  <2>2. ~ Stage({"processHashing"}) /\ ~ Stage({"prepareTasksWriting"}) /\ pc[t] # "delete"
    BY <1>4, <1>5 DEF ProcessFileLayoutServer, SendBlockRead, WritePlaces
  <2>3. /\ OthersStay(t) /\ sync'[t] <= syncs
        /\ pc'[t] \in {"idle", "building", "sendLock"}
        /\ pc'[t] = "sendLock" => sync'[t] = taskSync
    <3>1. CASE Return(t)
      BY <1>1, <1>4, <3>1, ThreadMoves
    <3>2. ASSUME NEW to \in {"building", "sendLock"}, Goto(t, to),
                 sync' = [sync EXCEPT ![t] = taskSync], UNCHANGED arg
          PROVE  pc'[t] = to /\ sync'[t] = taskSync /\ OthersStay(t)
      BY <1>1, <3>2 DEF TypeOK, ThreadsTypeOK, Goto, OthersStay
    <3> QED
      BY <1>4, <2>1, <3>1, <3>2
  <2> QED
    BY <1>2, <1>3, <2>2, <2>3, ProcessorMoves DEF AttemptKept, HashPlaces, WritePlaces
<1>6. CASE LayoutServerBuilt(t) \/ ReadFileBlock(t)
  <2>1. \/ Return(t)
        \/ \E to \in {"layoutDone", "fail", "blockRead"} : Continue(t, to)
    BY <1>6 DEF LayoutServerBuilt, ReadFileBlock
  <2>2. ~ Stage({"processHashing"}) /\ ~ Stage({"prepareTasksWriting"}) /\ pc[t] # "delete"
    BY <1>4, <1>6 DEF LayoutServerBuilt, ReadFileBlock, WritePlaces
  <2>3. /\ OthersStay(t) /\ sync'[t] <= syncs
        /\ pc'[t] \in {"idle", "layoutDone", "fail", "blockRead"}
    BY <1>1, <1>4, <2>1, ThreadMoves
  <2> QED
    BY <1>2, <1>3, <2>2, <2>3, ProcessorMoves DEF AttemptKept, HashPlaces, WritePlaces
<1>7. CASE RunSyncTask(t)
  <2>1. /\ \/ Continue(t, "prepareHashing") /\ task[sync[t]].status = "pending"
              /\ pc[t] = "syncClient"
           \/ Continue(t, "secondTest") /\ pc[t] = "syncClient"
           \/ Continue(t, "prepareWriting") /\ task[sync[t]].status = "prepareTasksWriting"
              /\ pc[t] = "secondTest"
           \/ Return(t) /\ pc[t] = "secondTest"
    BY <1>7 DEF RunSyncTask
  <2>2. /\ OthersStay(t) /\ sync'[t] <= syncs
        /\ pc'[t] \in {"idle", "prepareHashing", "secondTest", "prepareWriting"}
        /\ pc'[t] # "idle" => sync'[t] = sync[t]
        /\ pc'[t] = "prepareHashing" =>
              pc[t] = "syncClient" /\ task[sync[t]].status = "pending"
        /\ pc'[t] = "prepareWriting" =>
              pc[t] = "secondTest" /\ task[sync[t]].status = "prepareTasksWriting"
    BY <1>1, <1>4, <2>1, ThreadMoves
  <2>3. pc[t] = "syncClient" => taskSync = sync[t]
    BY DEF AttemptInv, PreparesAttempt
  <2>4. Stage({"processHashing"}) => pc'[t] \in {"idle", "secondTest"}
    <3>1. CASE pc[t] = "syncClient"
      BY <1>4, <3>1
    <3>2. CASE pc'[t] = "prepareWriting"
      <4>1. sync[t] \in Syncs /\ sync[t] = taskSync
        BY <1>1, <1>4, <2>2, <3>2, SyncOfBusyThread DEF AttemptInv, AttemptsOver, Over
      <4> QED
        BY <2>2, <3>2, <4>1 DEF Stage
    <3> QED
      BY <2>1, <2>2, <3>1, <3>2
  <2>5. Stage({"prepareTasksWriting"}) =>
           pc'[t] \in {"idle", "secondTest", "fail"} \cup WritePlaces
    BY <2>2, <2>3 DEF Stage, WritePlaces
  <2>6. pc[t] # "delete"
    BY <2>1
  <2> QED
    BY <1>2, <1>3, <2>2, <2>4, <2>5, <2>6, ProcessorMoves
       DEF AttemptKept, HashPlaces, WritePlaces
<1>8. CASE LookUpLayouts(t)
  <2>1. /\ pc[t] \in {"prepareHashing", "prepareWriting"}
        /\ \/ Continue(t, "fail")
           \/ /\ Goto(t, IF pc[t] = "prepareHashing" THEN "hashLock" ELSE "deleteLock")
              /\ \E a : arg' = [arg EXCEPT ![t] = a]
              /\ UNCHANGED sync
    BY <1>8 DEF LookUpLayouts
  <2>2. /\ OthersStay(t) /\ sync'[t] = sync[t]
        /\ \/ pc'[t] = "fail"
           \/ pc'[t] = "hashLock" /\ pc[t] = "prepareHashing"
           \/ pc'[t] = "deleteLock" /\ pc[t] = "prepareWriting"
    BY <1>1, <2>1, ThreadMoves
  <2>3. pc[t] = "prepareHashing" => ~ Stage({"prepareTasksWriting"})
    BY <1>4 DEF WritePlaces
  <2> QED
    BY <1>2, <1>3, <1>4, <2>1, <2>2, <2>3, ProcessorMoves DEF AttemptKept, HashPlaces, WritePlaces
<1>9. CASE LockForHashing(t) \/ LockForWriting(t)
  <2>1. /\ OthersStay(t) /\ sync'[t] = sync[t]
        /\ \/ pc'[t] = "hash" /\ pc[t] = "hashLock"
           \/ pc'[t] = "delete" /\ pc[t] = "deleteLock"
    BY <1>1, <1>9, ThreadMoves DEF LockForHashing, LockForWriting
  <2>2. pc[t] = "hashLock" => ~ Stage({"prepareTasksWriting"})
    BY <1>4 DEF WritePlaces
  <2> QED
    BY <1>2, <1>3, <1>4, <2>1, <2>2, ProcessorMoves DEF AttemptKept, HashPlaces, WritePlaces
<1>10. CASE AddFileBlockHashTask(t)
  <2>1. pc[t] = "hash" /\ UNCHANGED <<pc, sync, arg>>
    BY <1>10 DEF AddFileBlockHashTask
  <2>2. ~ Stage({"prepareTasksWriting"})
    BY <1>4, <2>1 DEF WritePlaces
  <2>3. OthersStay(t)
    BY <2>1 DEF OthersStay
  <2> QED
    BY <1>2, <1>3, <1>4, <2>1, <2>2, <2>3, ProcessorMoves DEF AttemptKept, HashPlaces, WritePlaces
<1> QED
  BY <1>5, <1>6, <1>7, <1>8, <1>9, <1>10

\* SendNextWriteRequests(), but for the data.
LEMMA SendStepsKeep ==
    ASSUME TypeOK, NEW t \in Threads,
           \/ LockForSending(t) \/ SendingDone(t)
           \/ \E p \in todo[t] : \/ RequestWriteFile(t, p) \/ RequestFinishWriteFile(t, p)
                                 \/ SkipFile(t, p)
    PROVE  UNCHANGED <<syncs, taskSync, pending>> /\ PhasesKept /\ DeletesKept
<1>1. UNCHANGED <<syncs, taskSync, pending>>
  BY DEF LockForSending, SendingDone, RequestWriteFile, RequestFinishWriteFile, SkipFile,
     Visit, client
<1>2. PhasesKept /\ DeletesKept
  <2>1. LockForSending(t) \/ SendingDone(t) \/ (\E p : SkipFile(t, p)) => UNCHANGED task
    BY DEF LockForSending, SendingDone, SkipFile
  <2>2. \A p : RequestWriteFile(t, p) \/ RequestFinishWriteFile(t, p) =>
           \E v : task' = [task EXCEPT ![sync[t]].writes[p].status = v]
    BY Zenon DEF RequestWriteFile, RequestFinishWriteFile
  <2>3. CASE UNCHANGED task
    BY <2>3, TaskFieldSet
  <2>4. ASSUME NEW p, NEW v, task' = [task EXCEPT ![sync[t]].writes[p].status = v]
        PROVE  PhasesKept /\ DeletesKept
    BY <2>4, TaskFieldSet
  <2> QED
    BY <2>1, <2>2, <2>3, <2>4
<1> QED
  BY <1>1, <1>2

LEMMA SendStepsAttempt ==
    ASSUME TypeOK, AttemptInv, NEW t \in Threads, \A p, q \in Procs : p = q,
           \/ LockForSending(t) \/ SendingDone(t)
           \/ \E p \in todo[t] : \/ RequestWriteFile(t, p) \/ RequestFinishWriteFile(t, p)
                                 \/ SkipFile(t, p)
    PROVE  AttemptInv'
<1>1. UNCHANGED <<syncs, taskSync, pending>>
  BY SendStepsKeep
<1>2. PhasesKept /\ DeletesKept
  BY SendStepsKeep
<1>3. pc[t] \in {"sendLock", "send"}
  BY DEF LockForSending, SendingDone, RequestWriteFile, RequestFinishWriteFile, SkipFile,
     Visit
<1>4. /\ OthersStay(t)
      /\ \/ pc'[t] = "idle" /\ sync'[t] = None
         \/ pc'[t] \in {"send", "fail"} /\ sync'[t] = sync[t]
  <2>1. \/ Return(t)
        \/ /\ Goto(t, "send") \/ Goto(t, "fail") \/ (UNCHANGED pc /\ pc[t] = "send")
           /\ UNCHANGED <<sync, arg>>
    BY Zenon DEF LockForSending, SendingDone, RequestWriteFile, RequestFinishWriteFile, SkipFile,
       Visit
  <2> QED
    BY <2>1, ThreadMoves DEF OthersStay
<1>5. CASE t = Main
  <2>1. ~ Stage({"pending", "prepareTasksWriting"}) /\ ~ Stage({"processHashing"})
    BY <1>3, <1>5, UpdateElsewhere
  <2> QED
    BY <1>1, <1>2, <1>3, <1>4, <1>5, <2>1, UpdateContinues DEF AttemptKept
<1>6. CASE t \in Procs
  <2>1. ~ Stage({"prepareTasksWriting"}) /\ ~ Stage({"processHashing"}) /\ sync[t] <= syncs
    BY <1>3, <1>6 DEF AttemptInv, PreparesAttempt, WritePlaces
  <2>2. sync'[t] <= syncs
    BY <1>4, <2>1, LimitsAssumption DEF TypeOK, ClientTypeOK, None
  <2> QED
    BY <1>1, <1>2, <1>3, <1>4, <1>6, <2>1, <2>2, ProcessorMoves
       DEF AttemptKept, HashPlaces, WritePlaces
<1> QED
  BY <1>5, <1>6 DEF Threads

-------------------------------------------------------------------------------
(* The steps that change the stage *)

\* A step after which nothing is left to prepare.
LEMMA NothingPrepared ==
    ASSUME TypeOK, AttemptInv, NEW t \in Threads, AttemptsOver', OthersStay(t),
           UNCHANGED <<syncs, pending>>, taskSync' \in {taskSync, None},
           \A s \in Syncs : task'[s].want = task[s].want,
           ~ Stage({"pending", "processHashing", "prepareTasksWriting"})',
           \A p \in Procs : pc'[p] \notin {"syncClient"} \cup HashPlaces \cup WritePlaces,
           ~ TakesHashes', pc'[t] # "enqueue",
           \/ pc'[t] = "idle" /\ sync'[t] = None
           \/ pc[t] # "idle" /\ sync'[t] = sync[t],
           pc'[t] \in {"sendLock", "send"} => sync'[t] = taskSync'
    PROVE  AttemptInv'
<1>1. /\ Main \in Threads /\ \A p \in Procs : p \in Threads
      /\ syncs \in Nat /\ None <= syncs
      /\ taskSync # None => taskSync \in Syncs
  BY LimitsAssumption DEF Threads, TypeOK, ClientTypeOK, None, Syncs
<1>2. /\ ~ Stage({"pending", "prepareTasksWriting"})'
      /\ ~ Stage({"processHashing"})' /\ ~ Stage({"prepareTasksWriting"})'
      /\ ~ Stage({"pending"})' /\ ~ Stage({"processHashing", "prepareTasksWriting"})'
  BY DEF Stage
<1>3. pc[Main] # "idle" => sync[Main] \in Syncs
  BY <1>1, SyncOfBusyThread
<1>4. UpdateInTime'
  <2>1. sync'[Main] <= syncs'
    BY <1>1 DEF AttemptInv, UpdateInTime, OthersStay
  <2>2. pc'[Main] # "idle" => taskSync' \in {sync'[Main], None}
    BY <1>1 DEF AttemptInv, UpdateInTime, OthersStay
  <2>3. pc'[Main] = "enqueue" => task'[sync'[Main]].want = {}
    BY <1>1, <1>3 DEF AttemptInv, UpdateInTime, OthersStay
  <2> QED
    BY <1>2, <2>1, <2>2, <2>3 DEF UpdateInTime
<1>5. PreparesAttempt'
  <2>1. \A p \in Procs : sync'[p] <= syncs'
    BY <1>1 DEF AttemptInv, PreparesAttempt, OthersStay
  <2> QED
    BY <1>2, <2>1 DEF PreparesAttempt
<1>6. SendsBeforeLayout'
  <2> SUFFICES ASSUME NEW p \in Procs, pc'[p] \in {"sendLock", "send"}, taskSync' # None,
                      taskSync' # sync'[p]
               PROVE  "server" \in task'[taskSync'].want
    BY DEF SendsBeforeLayout
  <2> QED
    BY <1>1 DEF AttemptInv, SendsBeforeLayout, OthersStay
<1>7. DeletesComeLate'
  BY DEF DeletesComeLate
<1>8. QueuedInTime'
  <2>1. ~ Preparing'
    BY <1>2 DEF Preparing
  <2> QED
    BY <1>2, <2>1, PendingFacts DEF AttemptInv, QueuedInTime
<1> QED
  BY <1>4, <1>5, <1>6, <1>7, <1>8 DEF AttemptInv

LEMMA StatusSetAttempts ==
    ASSUME TypeOK, AttemptInv, UNCHANGED syncs, taskSync' \in {taskSync, None},
           NEW s \in Syncs, s <= syncs, NEW v,
           task' = [task EXCEPT ![s].status = v],
           v # "processHashing",
           s # taskSync' => v \in Over,
           taskSync' # taskSync => s = taskSync
    PROVE  AttemptsOver'
<1>1. /\ \A x \in Syncs : /\ task'[x].want = task[x].want
                          /\ task'[x].deletes = task[x].deletes
                          /\ x # s => task'[x].status = task[x].status
      /\ task'[s].status = v
  BY TaskFieldSet
<1>2. syncs \in Nat /\ s \in Nat /\ taskSync' <= syncs'
  BY LimitsAssumption DEF TypeOK, ClientTypeOK, Syncs, AttemptInv, AttemptsOver, None
<1> QED
  BY <1>1, <1>2 DEF AttemptInv, AttemptsOver

LEMMA EndAttempt ==
    ASSUME TypeOK, AttemptInv, NEW t \in Threads, \A p, q \in Procs : p = q,
           \/ SucceedSynchronization(t) \/ FailSynchronization(t)
           \/ t = Main /\ CheckFinishedWrite /\ ~ UNCHANGED task
    PROVE  AttemptInv'
<1>1. /\ Main \in Threads /\ Main \notin Procs /\ \A p \in Procs : p \in Threads
      /\ syncs \in Nat /\ None <= syncs /\ taskSync <= syncs
      /\ taskSync # None => taskSync \in Syncs
  BY LimitsAssumption, ThreadsAssumption
     DEF Threads, TypeOK, ClientTypeOK, None, Syncs, AttemptInv, AttemptsOver
<1>2. /\ pc[t] \in {"succeed", "fail", "checkWrite"} /\ UNCHANGED <<syncs, pending>>
      /\ pc[t] = "checkWrite" => t = Main
  BY DEF SucceedSynchronization, FailSynchronization, CheckFinishedWrite, client
<1>3. sync[t] \in Syncs /\ sync[t] <= syncs
  BY <1>1, <1>2, SyncOfBusyThread
     DEF AttemptInv, UpdateInTime, PreparesAttempt, Threads
<1>4. /\ OthersStay(t)
      /\ \/ pc'[t] = "idle" /\ sync'[t] = None
         \/ pc'[t] \in {"clear", "succeed"} /\ sync'[t] = sync[t]
  <2>1. Return(t) \/ Continue(t, "clear") \/ Continue(t, "succeed")
    BY DEF SucceedSynchronization, FailSynchronization, CheckFinishedWrite
  <2> QED
    BY <2>1, ThreadMoves
<1>5. \/ taskSync = None /\ UNCHANGED <<taskSync, task>>
      \/ /\ taskSync # None /\ taskSync' = None
         /\ task' = [task EXCEPT ![taskSync].status = "success"]
      \/ /\ taskSync # None /\ taskSync' = None
         /\ task' = [task EXCEPT ![taskSync].status = "failure"]
      \/ /\ t = Main /\ pc[t] = "checkWrite" /\ UNCHANGED taskSync
         /\ task' = [task EXCEPT ![sync[Main]].status = "success"]
  BY Zenon DEF SucceedSynchronization, FailSynchronization, CheckFinishedWrite, client
<1>6. \A s \in Syncs : task'[s].want = task[s].want
  BY <1>5, TaskFieldSet DEF PhasesKept
<1>7. AttemptsOver'
  <2>1. CASE taskSync = None /\ UNCHANGED <<taskSync, task>>
    BY <1>2, <2>1 DEF AttemptInv, AttemptsOver
  <2>2. CASE taskSync # None /\ taskSync' = None
    BY <1>1, <1>2, <1>5, <2>2, StatusSetAttempts DEF Over
  <2>3. CASE /\ t = Main /\ UNCHANGED taskSync
             /\ task' = [task EXCEPT ![sync[Main]].status = "success"]
    BY <1>1, <1>2, <1>3, <2>3, StatusSetAttempts DEF Over
  <2> QED
    BY <1>5, <2>1, <2>2, <2>3
<1>8. /\ ~ Stage({"pending", "processHashing", "prepareTasksWriting"})'
      /\ taskSync' \in {taskSync, None}
  <2>1. CASE taskSync' = None
    BY <2>1 DEF Stage
  <2>2. CASE /\ t = Main /\ pc[t] = "checkWrite" /\ UNCHANGED taskSync
             /\ task' = [task EXCEPT ![sync[Main]].status = "success"]
    <3>1. ~ Stage({"pending", "processHashing", "prepareTasksWriting"})
      BY <2>2, UpdateElsewhere
    <3> QED
      BY <1>1, <1>3, <2>2, <3>1, TaskFieldSet DEF Stage
  <2> QED
    BY <1>5, <2>1, <2>2
<1>9. \A p \in Procs : pc'[p] \notin {"syncClient"} \cup HashPlaces \cup WritePlaces
  <2>1. CASE t = Main
    <3>1. ~ Stage({"pending", "prepareTasksWriting"})
      BY <1>2, <2>1, UpdateElsewhere DEF Stage
    <3>2. \A p \in Procs : pc[p] \notin {"syncClient"} \cup HashPlaces \cup WritePlaces
      <4> SUFFICES ASSUME NEW p \in Procs,
                          pc[p] \in {"syncClient"} \cup HashPlaces \cup WritePlaces
                   PROVE  FALSE
        OBVIOUS
      <4>1. sync[p] \in Syncs /\ pc[p] # "idle"
        BY <1>1, SyncOfBusyThread DEF HashPlaces, WritePlaces
      <4> QED
        BY <3>1, <4>1 DEF AttemptInv, PreparesAttempt, Stage, Syncs, None
    <3> QED
      BY <1>1, <1>4, <2>1, <3>2 DEF OthersStay
  <2>2. CASE t \in Procs
    BY <1>4, <2>2 DEF HashPlaces, WritePlaces
  <2> QED
    BY <2>1, <2>2 DEF Threads
<1>10. ~ TakesHashes'
  <2>1. CASE t = Main
    BY <1>4, <2>1 DEF TakesHashes
  <2>2. CASE t \in Procs
    <3>1. ~ Stage({"processHashing"})
      BY <1>2, <2>2, <1>1 DEF AttemptInv, PreparesAttempt
    <3>2. TakesHashes => sync[Main] \in Syncs
      BY <1>1, SyncOfBusyThread DEF TakesHashes
    <3>3. ~ TakesHashes
      BY <3>1, <3>2 DEF AttemptInv, UpdateInTime, Stage, Syncs, None
    <3> QED
      BY <1>1, <1>4, <2>2, <3>3 DEF OthersStay, TakesHashes
  <2> QED
    BY <2>1, <2>2 DEF Threads
<1>11. /\ pc'[t] # "enqueue" /\ pc'[t] \notin {"sendLock", "send"}
       /\ \/ pc'[t] = "idle" /\ sync'[t] = None
          \/ pc[t] # "idle" /\ sync'[t] = sync[t]
  BY <1>2, <1>4
<1> QED
  BY <1>2, <1>4, <1>6, <1>7, <1>8, <1>9, <1>10, <1>11, NothingPrepared

LEMMA WritingPreparedAttempt ==
    ASSUME TypeOK, AttemptInv, CountsInv, StagesKept, NEW t \in Procs, \A p \in Procs : p = t,
           WritingPrepared(t)
    PROVE  AttemptInv'
<1> DEFINE s == sync[t]
<1>1. /\ t \in Threads /\ t # Main /\ Main \in Threads
      /\ s \in Syncs /\ pc[t] = "delete"
  BY SyncOfBusyThread, ThreadsAssumption DEF Threads, WritingPrepared
<1>2. taskSync = s /\ task[s].status = "prepareTasksWriting" /\ s <= syncs
  BY <1>1 DEF AttemptInv, PreparesAttempt, WritePlaces
<1>3. UNCHANGED <<syncs, taskSync, pending>>
  BY DEF WritingPrepared, client
<1>4. /\ \A x \in Syncs : /\ task'[x].want = task[x].want
                          /\ task'[x].deletes = task[x].deletes
                          /\ x # s => task'[x].status = task[x].status
      /\ task'[s].status = "processWriting"
  <2>1. PICK v : task' = [task EXCEPT ![s].writes = v, ![s].status = "processWriting"]
    BY DEF WritingPrepared
  <2>2. /\ DOMAIN task = Syncs
        /\ \A x \in Syncs :
              DOMAIN task[x] = {"status", "want", "layout", "hashes", "deletes", "writes"}
    BY DEF TypeOK, TasksTypeOK, IsSyncTask, NewTask
  <2> QED
    BY <1>1, <2>1, <2>2
<1>5. /\ OthersStay(t) /\ sync'[t] = s
      /\ pc'[t] \in {"succeed", "sendLock"}
  <2>1. Continue(t, "succeed") \/ Continue(t, "sendLock")
    BY DEF WritingPrepared
  <2> QED
    BY <1>1, <2>1, ThreadMoves
<1>6. AttemptsOver'
  BY <1>1, <1>2, <1>3, <1>4 DEF AttemptInv, AttemptsOver
<1>7. ~ Stage({"pending", "processHashing", "prepareTasksWriting"})'
  BY <1>2, <1>3, <1>4 DEF Stage
<1>8. \A p \in Procs : pc'[p] \notin {"syncClient"} \cup HashPlaces \cup WritePlaces
  BY <1>5 DEF HashPlaces, WritePlaces
<1>9. ~ TakesHashes'
  <2>1. ~ TakesHashes
    BY <1>2 DEF AttemptInv, UpdateInTime
  <2> QED
    BY <1>1, <1>5, <2>1 DEF OthersStay, TakesHashes
<1> QED
  BY <1>1, <1>2, <1>3, <1>4, <1>5, <1>6, <1>7, <1>8, <1>9, NothingPrepared

LEMMA AddFileDeleteTaskAttempt ==
    ASSUME TypeOK, AttemptInv, NEW t \in Procs, AddFileDeleteTask(t)
    PROVE  AttemptInv'
<1> DEFINE s == sync[t]
<1>1. /\ t \in Threads /\ Main \in Threads /\ s \in Syncs
      /\ pc[t] = "delete" /\ UNCHANGED <<syncs, taskSync, pending, pc, sync, arg>>
  BY SyncOfBusyThread DEF Threads, AddFileDeleteTask, client
<1>2. taskSync = s /\ s <= syncs
  BY <1>1 DEF AttemptInv, PreparesAttempt, WritePlaces
<1>3. PICK v : task' = [task EXCEPT ![s].deletes = v]
  BY DEF AddFileDeleteTask
<1>4. PhasesKept /\ \A x \in Syncs \ {s} : task'[x].deletes = task[x].deletes
  BY <1>3, TaskFieldSet
<1>5. \A S : Stage(S)' <=> Stage(S)
  BY <1>1, <1>4, StageKept DEF AttemptKept
<1>6. AttemptsOver'
  <2>1. syncs \in Nat /\ s \in Nat
    BY <1>1 DEF TypeOK, ClientTypeOK, Syncs
  <2>2. s > syncs => FALSE
    BY <1>2, <2>1
  <2> QED
    BY <1>1, <1>4, <2>2 DEF AttemptInv, AttemptsOver, PhasesKept
<1>7. UpdateInTime'
  BY <1>1, <1>4, UpdateKept DEF AttemptInv, AttemptKept
<1>8. PreparesAttempt'
  <2>1. \A p \in Procs : pc[p] # "idle" => sync[p] \in Syncs
    BY SyncOfBusyThread DEF Threads
  <2> QED
    BY <1>1, <1>4, <1>5, <2>1 DEF AttemptInv, PreparesAttempt, PhasesKept, HashPlaces, WritePlaces
<1>9. SendsBeforeLayout'
  BY <1>1, <1>2, <1>4 DEF AttemptInv, SendsBeforeLayout, PhasesKept
<1>10. DeletesComeLate'
  BY <1>1 DEF DeletesComeLate
<1>11. QueuedInTime'
  <2>1. Preparing' => Preparing
    BY <1>1, <1>5 DEF Preparing
  <2> QED
    BY <1>1, <1>4, <2>1, QueueKept DEF AttemptInv, AttemptKept
<1> QED
  BY <1>6, <1>7, <1>8, <1>9, <1>10, <1>11 DEF AttemptInv

\* The last hashes are in.
LEMMA CheckFinishedHashesAttempt ==
    ASSUME TypeOK, AttemptInv, CheckFinishedHashes
    PROVE  AttemptInv'
<1> DEFINE s == sync[Main]
<1>1. /\ Main \in Threads /\ \A p \in Procs : p \in Threads \ {Main}
      /\ pc[Main] = "checkHashes" /\ TakesHashes
      /\ UNCHANGED <<syncs, taskSync, pending>>
  BY ThreadsAssumption DEF Threads, CheckFinishedHashes, TakesHashes, client
<1>2. CASE Return(Main) /\ UNCHANGED task
  BY <1>1, <1>2, ThreadMoves, TaskFieldSet, UpdateContinues DEF AttemptKept
<1>3. CASE /\ task' = [task EXCEPT ![s].status = "prepareTasksWriting"]
           /\ Continue(Main, "enqueue")
  <2>1. s \in Syncs /\ taskSync = s /\ task[s].status = "processHashing" /\ s <= syncs
    BY <1>1, SyncOfBusyThread DEF AttemptInv, UpdateInTime
  <2>2. /\ \A x \in Syncs : /\ task'[x].want = task[x].want
                            /\ task'[x].deletes = task[x].deletes
                            /\ x # s => task'[x].status = task[x].status
        /\ task'[s].status = "prepareTasksWriting"
    BY <1>3, <2>1, TaskFieldSet
  <2>3. pc'[Main] = "enqueue" /\ OthersStay(Main) /\ sync'[Main] = s
    BY <1>1, <1>3, ThreadMoves
  <2>4. task[s].want = {}
    BY <2>1 DEF AttemptInv, AttemptsOver
  <2>5. /\ Stage({"processHashing"}) /\ ~ Stage({"pending"})'
        /\ ~ Stage({"processHashing"})' /\ Stage({"prepareTasksWriting"})'
    BY <1>1, <2>1, <2>2 DEF Stage, Syncs, None
  <2>6. \A p \in Procs : /\ pc'[p] = pc[p] /\ sync'[p] = sync[p]
                         /\ pc[p] \in {"idle", "secondTest"}
    BY <1>1, <2>3, <2>5 DEF OthersStay, AttemptInv, PreparesAttempt
  <2>7. AttemptsOver'
    BY <1>1, <2>1, <2>2 DEF AttemptInv, AttemptsOver
  <2>8. UpdateInTime'
    BY <1>1, <2>1, <2>2, <2>3, <2>4, <2>5 DEF UpdateInTime, Harmless, TakesHashes
  <2>9. PreparesAttempt'
    BY <1>1, <2>5, <2>6 DEF AttemptInv, PreparesAttempt, HashPlaces, WritePlaces
  <2>10. SendsBeforeLayout'
    BY <2>6 DEF SendsBeforeLayout
  <2>11. DeletesComeLate'
    <3>1. task[taskSync].deletes = {}
      BY <2>1, <2>5, <2>6 DEF AttemptInv, DeletesComeLate, Stage
    <3> QED
      BY <1>1, <2>1, <2>2, <3>1 DEF DeletesComeLate
  <2>12. QueuedInTime'
    <3>1. Preparing
      BY <2>1 DEF Preparing, Stage, Syncs, None
    <3> QED
      BY <1>1, <2>2, <2>5, <3>1, PendingFacts DEF AttemptInv, QueuedInTime
  <2> QED
    BY <2>7, <2>8, <2>9, <2>10, <2>11, <2>12 DEF AttemptInv
<1> QED
  BY <1>2, <1>3, Zenon DEF CheckFinishedHashes

LEMMA HashingPreparedAttempt ==
    ASSUME TypeOK, AttemptInv, NEW t \in Procs, \A p \in Procs : p = t, HashingPrepared(t)
    PROVE  AttemptInv'
<1> DEFINE s == sync[t]
<1>1. /\ t \in Threads /\ t # Main /\ Main \in Threads
      /\ s \in Syncs /\ pc[t] = "hash"
      /\ UNCHANGED <<syncs, taskSync, pending>>
  BY SyncOfBusyThread, ThreadsAssumption DEF Threads, HashingPrepared, client
<1>2. /\ taskSync = s /\ task[s].status = "pending" /\ s <= syncs
      /\ task[s].want = {}
  BY <1>1 DEF AttemptInv, PreparesAttempt, HashPlaces
<1>3. PICK v \in {"prepareTasksWriting", "processHashing"} :
         task' = [task EXCEPT ![s].status = v]
  BY DEF HashingPrepared
<1>4. /\ \A x \in Syncs : /\ task'[x].want = task[x].want
                          /\ task'[x].deletes = task[x].deletes
                          /\ x # s => task'[x].status = task[x].status
      /\ task'[s].status = v
  BY <1>1, <1>3, TaskFieldSet
<1>5. pc'[t] = "secondTest" /\ OthersStay(t) /\ sync'[t] = s
  BY <1>1, ThreadMoves DEF HashingPrepared
<1>6. Stage({"pending"}) /\ Stage({"pending", "prepareTasksWriting"}) /\ ~ Stage({"pending"})'
  BY <1>1, <1>2, <1>4 DEF Stage, Syncs, None
<1>7. /\ pc'[Main] = pc[Main] /\ sync'[Main] = sync[Main] /\ arg'[Main] = arg[Main]
      /\ Harmless /\ Harmless' /\ ~ TakesHashes'
  BY <1>1, <1>5, <1>6 DEF OthersStay, AttemptInv, UpdateInTime, Harmless, TakesHashes
<1>8. AttemptsOver'
  BY <1>1, <1>2, <1>4 DEF AttemptInv, AttemptsOver
<1>9. UpdateInTime'
  <2>1. pc[Main] # "idle" => sync[Main] \in Syncs
    BY <1>1, SyncOfBusyThread
  <2> QED
    BY <1>1, <1>4, <1>7, <2>1 DEF AttemptInv, UpdateInTime
<1>10. PreparesAttempt'
  BY <1>1, <1>2, <1>5 DEF PreparesAttempt, HashPlaces, WritePlaces
<1>11. SendsBeforeLayout'
  BY <1>5 DEF SendsBeforeLayout
<1>12. DeletesComeLate'
  <2>1. task[taskSync].deletes = {}
    BY <1>1, <1>2 DEF AttemptInv, DeletesComeLate, Stage, Syncs, None
  <2> QED
    BY <1>1, <1>2, <1>4, <2>1 DEF DeletesComeLate
<1>13. QueuedInTime'
  <2>1. Preparing
    BY <1>1 DEF Preparing, HashPlaces
  <2> QED
    BY <1>1, <1>4, <1>6, <2>1, PendingFacts DEF AttemptInv, QueuedInTime
<1> QED
  BY <1>8, <1>9, <1>10, <1>11, <1>12, <1>13 DEF AttemptInv

-------------------------------------------------------------------------------
(* The steps that change the queue *)

\* What the queue holds after a task was appended.
LEMMA PendingAppended ==
    ASSUME TypeOK, NEW e \in PendingTasks, pending' = Append(pending, e)
    PROVE  /\ \A i \in DOMAIN pending' :
                 \/ i \in DOMAIN pending /\ pending'[i] = pending[i]
                 \/ pending'[i] = e
           /\ \A i, j \in DOMAIN pending' :
                 i < j => i \in DOMAIN pending /\ pending'[i] = pending[i]
<1>1. pending \in Seq(PendingTasks)
  BY DEF TypeOK, QueuesTypeOK
<1>2. /\ Len(pending) \in Nat /\ DOMAIN pending = 1 .. Len(pending)
      /\ DOMAIN pending' = 1 .. Len(pending) + 1
      /\ \A i \in 1 .. Len(pending) : pending'[i] = pending[i]
      /\ pending'[Len(pending) + 1] = e
  BY <1>1, AppendProperties, LenProperties
<1> QED
  BY <1>2

LEMMA FinishLayoutAttempt ==
    ASSUME TypeOK, AttemptInv, NEW t \in Threads, \A p, q \in Procs : p = q, FinishLayout(t)
    PROVE  AttemptInv'
<1> DEFINE s == sync[t]
           left == task[s].want \ {IF t = Main THEN "client" ELSE "server"}
<1>1. /\ Main \in Threads /\ Main \notin Procs /\ \A p \in Procs : p \in Threads
      /\ s \in Syncs /\ pc[t] = "layoutDone"
      /\ UNCHANGED <<syncs, taskSync>>
      /\ taskSync # None => taskSync \in Syncs
      /\ \A u \in Threads : pc[u] # "idle" => sync[u] \in Syncs
      /\ syncs \in Nat /\ None <= syncs /\ s \in Nat
  BY SyncOfBusyThread, ThreadsAssumption, LimitsAssumption
     DEF Threads, FinishLayout, client, TypeOK, ClientTypeOK, None, Syncs
<1>2. s <= syncs
  BY <1>1 DEF AttemptInv, UpdateInTime, PreparesAttempt, Threads
<1>3. PICK v : v = left
  OBVIOUS
<1>4. task' = [task EXCEPT ![s].want = v]
  BY <1>3 DEF FinishLayout
<1>5. /\ \A x \in Syncs : /\ task'[x].status = task[x].status
                          /\ task'[x].deletes = task[x].deletes
                          /\ x # s => task'[x].want = task[x].want
      /\ task'[s].want = v
  <2>1. PICK k : k = s
    OBVIOUS
  <2> QED
    BY <1>1, <1>4, <2>1, OneWantSet
<1>6. \A x \in Syncs : /\ task[x].want = {} => task'[x].want = {}
                       /\ "server" \in task[x].want /\ t = Main => "server" \in task'[x].want
  BY <1>3, <1>5
<1>7. pc'[t] = "idle" /\ sync'[t] = None /\ OthersStay(t)
  BY <1>1, ThreadMoves DEF FinishLayout
<1>8. \A S : Stage(S)' <=> Stage(S)
  BY <1>1, <1>5 DEF Stage
<1>9. AttemptsOver'
  <2>1. s > syncs => FALSE
    BY <1>1, <1>2
  <2> QED
    BY <1>1, <1>5, <1>6, <2>1 DEF AttemptInv, AttemptsOver
<1>10. UpdateInTime'
  <2>1. CASE t = Main
    BY <1>1, <1>7, <2>1 DEF UpdateInTime, Harmless, TakesHashes
  <2>2. CASE t # Main
    <3>1. pc'[Main] = pc[Main] /\ sync'[Main] = sync[Main] /\ arg'[Main] = arg[Main]
      BY <1>1, <1>7, <2>2 DEF OthersStay
    <3>2. (Harmless' <=> Harmless) /\ (TakesHashes' <=> TakesHashes)
      BY <3>1 DEF Harmless, TakesHashes
    <3>3. TakesHashes => pc[Main] # "idle"
      BY DEF TakesHashes
    <3> QED
      BY <1>1, <1>5, <1>6, <1>8, <3>1, <3>2, <3>3 DEF AttemptInv, UpdateInTime
  <2> QED
    BY <2>1, <2>2
<1>11. PreparesAttempt'
  <2> SUFFICES ASSUME NEW p \in Procs
               PROVE  /\ sync'[p] <= syncs'
                      /\ pc'[p] = "syncClient" =>
                            /\ taskSync' = sync'[p]
                            /\ task'[sync'[p]].status \in {"pending", "prepareTasksWriting"}
                      /\ pc'[p] \in HashPlaces =>
                            taskSync' = sync'[p] /\ task'[sync'[p]].status = "pending"
                      /\ pc'[p] \in WritePlaces =>
                            /\ taskSync' = sync'[p]
                            /\ task'[sync'[p]].status = "prepareTasksWriting"
                      /\ pc'[p] \in {"syncClient"} \cup HashPlaces => task'[sync'[p]].want = {}
                      /\ Stage({"processHashing"})' => pc'[p] \in {"idle", "secondTest"}
                      /\ Stage({"prepareTasksWriting"})' =>
                            pc'[p] \in {"idle", "syncClient", "secondTest", "fail"} \cup WritePlaces
    BY DEF PreparesAttempt
  <2>1. CASE p = t
    BY <1>1, <1>7, <2>1 DEF HashPlaces, WritePlaces
  <2>2. CASE p # t
    BY <1>1, <1>5, <1>6, <1>7, <1>8, <2>2
       DEF AttemptInv, PreparesAttempt, OthersStay, HashPlaces, WritePlaces
  <2> QED
    BY <2>1, <2>2
<1>12. SendsBeforeLayout'
  <2>1. CASE t = Main
    BY <1>1, <1>6, <1>7, <2>1 DEF AttemptInv, SendsBeforeLayout, OthersStay
  <2>2. CASE t \in Procs
    BY <1>7, <2>2 DEF SendsBeforeLayout
  <2> QED
    BY <2>1, <2>2 DEF Threads
<1>13. DeletesComeLate'
  <2>1. \A p \in Procs : pc[p] = "delete" => pc'[p] = "delete"
    BY <1>1, <1>7 DEF OthersStay
  <2> QED
    BY <1>1, <1>5, <1>8, <2>1 DEF AttemptInv, DeletesComeLate, Stage
<1>14. QueuedInTime'
  <2>1. Preparing' => Preparing
    <3>1. \A p \in Procs : pc'[p] \in {"syncClient"} \cup HashPlaces => pc'[p] = pc[p]
      BY <1>1, <1>7 DEF OthersStay, HashPlaces
    <3> QED
      BY <1>8, <3>1 DEF Preparing
  <2>2. CASE UNCHANGED pending
    BY <1>1, <1>6, <1>8, <2>1, <2>2, PendingFacts DEF AttemptInv, QueuedInTime
  <2>3. CASE pending' = Append(pending, SyncTask(s)) /\ v = {}
    <3>1. /\ SyncTask(s) \in PendingTasks
          /\ SyncTask(s).kind = "syncClient" /\ SyncTask(s).sync = s
      BY <1>1, QueueMembers DEF SyncTask
    <3>2. PICK e : e = SyncTask(s)
      OBVIOUS
    <3>3. /\ \A i \in DOMAIN pending' :
                \/ i \in DOMAIN pending /\ pending'[i] = pending[i]
                \/ pending'[i].kind = "syncClient" /\ pending'[i].sync = s
          /\ \A i, j \in DOMAIN pending' :
                i < j => i \in DOMAIN pending /\ pending'[i] = pending[i]
      BY <2>3, <3>1, <3>2, PendingAppended
    <3>4. \A i \in DOMAIN pending' :
             /\ pending'[i].sync <= syncs'
             /\ pending'[i].kind = "syncClient" => task'[pending'[i].sync].want = {}
             /\ Preparing' => pending'[i].kind = "syncClient"
      <4> SUFFICES ASSUME NEW i \in DOMAIN pending'
                   PROVE  /\ pending'[i].sync <= syncs'
                          /\ pending'[i].kind = "syncClient" =>
                                task'[pending'[i].sync].want = {}
                          /\ Preparing' => pending'[i].kind = "syncClient"
        OBVIOUS
      <4>1. CASE i \in DOMAIN pending /\ pending'[i] = pending[i]
        BY <1>1, <1>6, <2>1, <4>1, PendingFacts DEF AttemptInv, QueuedInTime
      <4>2. CASE pending'[i].kind = "syncClient" /\ pending'[i].sync = s
        BY <1>1, <1>2, <1>5, <2>3, <4>2
      <4> QED
        BY <3>3, <4>1, <4>2
    <3>5. Stage({"pending"})' =>
             \A i, j \in DOMAIN pending' :
                /\ pending'[i].kind = "syncClient" /\ pending'[i].sync = taskSync'
                /\ i < j
                => pending'[j].kind = "syncClient"
      BY <1>1, <1>8, <3>3 DEF AttemptInv, QueuedInTime
    <3> QED
      BY <3>4, <3>5 DEF QueuedInTime
  <2> QED
    <3>1. UNCHANGED pending \/ (pending' = Append(pending, SyncTask(s)) /\ left = {})
      BY DEF FinishLayout, BothThere
    <3> QED
      BY <1>3, <2>2, <2>3, <3>1
<1> QED
  BY <1>9, <1>10, <1>11, <1>12, <1>13, <1>14 DEF AttemptInv

LEMMA EnqueueSyncTaskAttempt ==
    ASSUME TypeOK, AttemptInv, EnqueueSyncTask
    PROVE  AttemptInv'
<1> DEFINE s == sync[Main]
<1>1. /\ Main \in Threads /\ \A p \in Procs : p \in Threads \ {Main}
      /\ s \in Syncs /\ pc[Main] = "enqueue"
      /\ UNCHANGED <<syncs, taskSync, task>>
      /\ syncs \in Nat /\ None <= syncs
  BY SyncOfBusyThread, ThreadsAssumption, LimitsAssumption
     DEF Threads, EnqueueSyncTask, client, TypeOK, ClientTypeOK, None
<1>2. s <= syncs /\ task[s].want = {}
  BY <1>1 DEF AttemptInv, UpdateInTime
<1>3. pc'[Main] = "idle" /\ sync'[Main] = None /\ OthersStay(Main)
  BY <1>1, ThreadMoves DEF EnqueueSyncTask
<1>4. PhasesKept /\ DeletesKept /\ \A S : Stage(S)' <=> Stage(S)
  BY <1>1 DEF PhasesKept, DeletesKept, Stage
<1>5. \A p \in Procs : pc'[p] = pc[p] /\ sync'[p] = sync[p]
  BY <1>1, <1>3 DEF OthersStay
<1>6. AttemptsOver' /\ PreparesAttempt' /\ SendsBeforeLayout' /\ DeletesComeLate'
  BY <1>1, <1>4, <1>5, AttemptsKept, ProcessorsKept DEF AttemptInv, AttemptKept
<1>7. UpdateInTime'
  BY <1>1, <1>3 DEF UpdateInTime, Harmless, TakesHashes
<1>8. QueuedInTime'
  <2>1. /\ SyncTask(s) \in PendingTasks
        /\ SyncTask(s).kind = "syncClient" /\ SyncTask(s).sync = s
        /\ pending' = Append(pending, SyncTask(s))
    BY <1>1, QueueMembers DEF SyncTask, EnqueueSyncTask
  <2>2. PICK e : e = SyncTask(s)
    OBVIOUS
  <2>3. /\ \A i \in DOMAIN pending' :
              \/ i \in DOMAIN pending /\ pending'[i] = pending[i]
              \/ pending'[i].kind = "syncClient" /\ pending'[i].sync = s
        /\ \A i, j \in DOMAIN pending' :
              i < j => i \in DOMAIN pending /\ pending'[i] = pending[i]
    BY <2>1, <2>2, PendingAppended
  <2>4. Preparing' => Preparing
    BY <1>4, <1>5 DEF Preparing
  <2> QED
    BY <1>1, <1>2, <1>4, <2>3, <2>4 DEF AttemptInv, QueuedInTime
<1> QED
  BY <1>6, <1>7, <1>8 DEF AttemptInv

LEMMA ClearPendingTasksAttempt ==
    ASSUME TypeOK, AttemptInv, NEW t \in Threads, \A p, q \in Procs : p = q,
           ClearPendingTasks(t)
    PROVE  AttemptInv'
<1>1. /\ Main \in Threads /\ \A p \in Procs : p \in Threads
      /\ pc[t] = "clear" /\ UNCHANGED <<syncs, taskSync, task>>
      /\ syncs \in Nat /\ None <= syncs
  BY LimitsAssumption DEF Threads, ClearPendingTasks, client, TypeOK, ClientTypeOK, None
<1>2. pc'[t] = "idle" /\ sync'[t] = None /\ OthersStay(t)
  BY <1>1, ThreadMoves DEF ClearPendingTasks
<1>3. PhasesKept /\ DeletesKept /\ \A S : Stage(S)' <=> Stage(S)
  BY <1>1 DEF PhasesKept, DeletesKept, Stage
<1>4. AttemptsOver'
  BY <1>1, <1>3, AttemptsKept DEF AttemptInv, AttemptKept
<1>5. UpdateInTime'
  <2>1. CASE t = Main
    BY <1>1, <1>2, <2>1 DEF UpdateInTime, Harmless, TakesHashes
  <2>2. CASE t # Main
    BY <1>1, <1>2, <1>3, <2>2, UpdateKept DEF AttemptInv, AttemptKept, OthersStay
  <2> QED
    BY <2>1, <2>2
<1>6. PreparesAttempt' /\ SendsBeforeLayout' /\ DeletesComeLate'
  <2>1. \A p \in Procs : /\ p # t => pc'[p] = pc[p] /\ sync'[p] = sync[p]
                         /\ p = t => pc'[p] = "idle" /\ sync'[p] = None
                         /\ pc[p] = "delete" => pc'[p] = "delete"
    BY <1>1, <1>2 DEF OthersStay
  <2>2. PreparesAttempt'
    BY <1>1, <1>3, <2>1 DEF AttemptInv, PreparesAttempt, HashPlaces, WritePlaces
  <2>3. SendsBeforeLayout'
    BY <1>1, <2>1 DEF AttemptInv, SendsBeforeLayout
  <2>4. DeletesComeLate'
    BY <1>1, <1>3, <2>1 DEF AttemptInv, DeletesComeLate
  <2> QED
    BY <2>2, <2>3, <2>4
<1>7. QueuedInTime'
  <2>1. DOMAIN pending' = {}
    BY DEF ClearPendingTasks
  <2> QED
    BY <2>1 DEF QueuedInTime
<1> QED
  BY <1>4, <1>5, <1>6, <1>7 DEF AttemptInv

\* The processor takes the first task it may run.
LEMMA TakeTaskAttempt ==
    ASSUME TypeOK, AttemptInv, NEW t \in Procs, \A p \in Procs : p = t, TakeTask(t)
    PROVE  AttemptInv'
<1>1. PICK i \in DOMAIN pending :
         /\ Eligible(pending[i])
         /\ \A j \in 1 .. (i - 1) : ~ Eligible(pending[j])
         /\ pending' = SubSeq(pending, 1, i - 1) \o SubSeq(pending, i + 1, Len(pending))
         /\ Goto(t, pending[i].kind)
         /\ sync' = [sync EXCEPT ![t] = pending[i].sync]
         /\ arg' = [arg EXCEPT ![t] = pending[i]]
  BY Zenon DEF TakeTask
<1>2. PICK kind, s : kind = pending[i].kind /\ s = pending[i].sync
  OBVIOUS
<1>3. /\ t \in Threads /\ t # Main /\ Main \in Threads /\ pc[t] = "idle"
      /\ UNCHANGED <<syncs, taskSync, task>>
  BY ThreadsAssumption DEF Threads, TakeTask, client
<1>4. /\ s \in Syncs /\ s <= syncs
      /\ kind \in {"fileLayout", "syncClient", "fileWriteBlock"}
  BY <1>2, PendingFacts DEF AttemptInv, QueuedInTime
<1>5. pc'[t] = kind /\ sync'[t] = s /\ OthersStay(t)
  <2>1. /\ Goto(t, kind) /\ sync' = [sync EXCEPT ![t] = s]
    BY <1>1, <1>2
  <2>2. PICK a : arg' = [arg EXCEPT ![t] = a]
    BY <1>1
  <2> QED
    BY <1>3, <2>1, <2>2 DEF TypeOK, ThreadsTypeOK, ArgsTypeOK, Goto, OthersStay
<1>6. PhasesKept /\ DeletesKept /\ \A S : Stage(S)' <=> Stage(S)
  BY <1>3 DEF PhasesKept, DeletesKept, Stage
<1>7. kind = "syncClient" =>
         /\ taskSync = s /\ task[s].want = {}
         /\ task[s].status \in {"pending", "prepareTasksWriting"}
  BY <1>1, <1>2, <1>4 DEF Eligible, AttemptInv, AttemptsOver, QueuedInTime, Over
<1>8. Stage({"processHashing", "prepareTasksWriting"}) =>
         kind = "syncClient" /\ ~ Stage({"processHashing"})
  <2>1. Preparing /\ s \in Nat \ {0} =>
           kind = "syncClient" /\ (Stage({"processHashing"}) => FALSE)
    BY <1>2, <1>7 DEF AttemptInv, QueuedInTime, Stage
  <2> QED
    BY <1>4, <2>1 DEF Preparing, Syncs
<1>9. AttemptsOver' /\ UpdateInTime'
  BY <1>3, <1>5, <1>6, AttemptsKept, UpdateKept DEF AttemptInv, AttemptKept, OthersStay
<1>10. PreparesAttempt'
  <2>1. Stage({"processHashing"}) => Stage({"processHashing", "prepareTasksWriting"})
    BY DEF Stage
  <2>2. Stage({"prepareTasksWriting"}) => Stage({"processHashing", "prepareTasksWriting"})
    BY DEF Stage
  <2> QED
    BY <1>3, <1>4, <1>5, <1>6, <1>7, <1>8, <2>1, <2>2
       DEF PreparesAttempt, HashPlaces, WritePlaces
<1>11. SendsBeforeLayout'
  BY <1>4, <1>5 DEF SendsBeforeLayout
<1>12. DeletesComeLate'
  BY <1>3, <1>6 DEF AttemptInv, DeletesComeLate
<1>13. QueuedInTime'
  <2>1. /\ Len(pending) \in Nat /\ i \in 1 .. Len(pending)
        /\ DOMAIN pending = 1 .. Len(pending) /\ DOMAIN pending' = 1 .. Len(pending) - 1
        /\ \A n \in 1 .. i - 1 : pending'[n] = pending[n]
        /\ \A n \in i .. Len(pending) - 1 : pending'[n] = pending[n + 1]
    BY <1>1, EraseShifts DEF TypeOK, QueuesTypeOK
  <2>2. \A n \in DOMAIN pending' :
           \E k \in DOMAIN pending : k # i /\ pending'[n] = pending[k]
    BY <2>1
  <2>3. \A m, n \in DOMAIN pending' :
           m < n => \E j, k \in DOMAIN pending :
                       j < k /\ pending'[m] = pending[j] /\ pending'[n] = pending[k]
    <3> SUFFICES ASSUME NEW m \in DOMAIN pending', NEW n \in DOMAIN pending', m < n
                 PROVE  \E j, k \in DOMAIN pending :
                           j < k /\ pending'[m] = pending[j] /\ pending'[n] = pending[k]
      OBVIOUS
    <3>1. CASE n < i
      BY <2>1, <3>1
    <3>2. CASE m < i /\ n >= i
      BY <2>1, <3>2
    <3>3. CASE m >= i
      <4>1. /\ m + 1 \in DOMAIN pending /\ n + 1 \in DOMAIN pending /\ m + 1 < n + 1
            /\ pending'[m] = pending[m + 1] /\ pending'[n] = pending[n + 1]
        BY <2>1, <3>3
      <4> QED
        BY <4>1
    <3> QED
      BY <2>1, <3>1, <3>2, <3>3
  <2>4. Preparing' => \A k \in DOMAIN pending : k # i => pending[k].kind = "syncClient"
    <3>1. CASE Stage({"processHashing", "prepareTasksWriting"})
      BY <3>1 DEF Preparing, AttemptInv, QueuedInTime
    <3>2. CASE /\ kind = "syncClient" /\ task[s].status = "pending"
      <4>1. Stage({"pending"})
        BY <1>4, <1>7, <3>2 DEF Stage, Syncs, None
      <4>2. \A k \in DOMAIN pending : k > i => pending[k].kind = "syncClient"
        BY <1>2, <1>7, <3>2, <4>1, <2>1 DEF AttemptInv, QueuedInTime
      <4>3. \A k \in DOMAIN pending : k < i => pending[k].kind = "syncClient"
        BY <1>1, <2>1 DEF Eligible
      <4> QED
        BY <2>1, <4>2, <4>3
    <3>3. Preparing' => \/ Stage({"processHashing", "prepareTasksWriting"})
                        \/ kind = "syncClient"
      BY <1>4, <1>5, <1>6 DEF Preparing, HashPlaces
    <3>4. kind = "syncClient" /\ task[s].status # "pending" =>
             Stage({"processHashing", "prepareTasksWriting"})
      BY <1>4, <1>7 DEF Stage, Syncs, None
    <3> QED
      BY <3>1, <3>2, <3>3, <3>4
  <2>5. \A n \in DOMAIN pending' :
           /\ pending'[n].sync <= syncs'
           /\ pending'[n].kind = "syncClient" => task'[pending'[n].sync].want = {}
           /\ Preparing' => pending'[n].kind = "syncClient"
    BY <1>3, <2>2, <2>4 DEF AttemptInv, QueuedInTime
  <2>6. Stage({"pending"})' =>
           \A m, n \in DOMAIN pending' :
              /\ pending'[m].kind = "syncClient" /\ pending'[m].sync = taskSync'
              /\ m < n
              => pending'[n].kind = "syncClient"
    BY <1>3, <1>6, <2>3 DEF AttemptInv, QueuedInTime
  <2> QED
    BY <2>5, <2>6 DEF QueuedInTime
<1> QED
  BY <1>9, <1>10, <1>11, <1>12, <1>13 DEF AttemptInv

\* The blocks to read are appended to the queue.
LEMMA SendFileDataAppends ==
    ASSUME TypeOK, NEW t \in Threads, NEW path, SendFileData(t, path)
    PROVE  /\ \A i \in DOMAIN pending' :
                 \/ i \in DOMAIN pending /\ pending'[i] = pending[i]
                 \/ pending'[i].kind = "fileWriteBlock" /\ pending'[i].sync = sync[t]
           /\ \A i \in DOMAIN pending : i \in DOMAIN pending' /\ pending'[i] = pending[i]
<1> DEFINE s == sync[t]
<1>0. s \in Syncs /\ pc[t] = "send" /\ Writing(s, path, "processing")
  <2>1. pc[t] = "send" /\ Writing(s, path, "processing")
    BY Zenon DEF SendFileData, Visit
  <2> QED
    BY <2>1, SyncOfBusyThread
<1>1. PICK S \in SUBSET DOMAIN task[s].writes[path].blocks :
         \E r \in Ascending(S) :
            pending' = pending \o [n \in DOMAIN r |-> BlockTask(s, path, r[n])]
  <2> DEFINE blocks == task[s].writes[path].blocks
             reads(S) == IF ServerDir[path] = <<>> THEN {} ELSE S
  <2>1. PICK S \in Started(blocks) :
           \E r \in Ascending(reads(S)) :
              pending' = pending \o [n \in DOMAIN r |-> BlockTask(s, path, r[n])]
    BY Zenon DEF SendFileData
  <2>2. reads(S) \in SUBSET DOMAIN blocks
    BY DEF Started
  <2> QED
    BY Zenon, <2>1, <2>2
<1>2. PICK r \in Ascending(S) :
         pending' = pending \o [n \in DOMAIN r |-> BlockTask(s, path, r[n])]
  BY Zenon, <1>1
<1>3. path \in DOMAIN ServerDir /\ S \subseteq ServerBlocks(path)
  BY <1>0, SyncOfBusyThread DEF IsSyncTask, IsWriteTask, IsMap, Writing
<1>4. /\ IsFiniteSet(S) /\ Cardinality(S) \in Nat
      /\ DOMAIN r = 1 .. Cardinality(S)
      /\ \A n \in DOMAIN r : r[n] \in S
  BY <1>3, ServerDirProperties, FS_Subset, AscendingProperties
<1> DEFINE u == [n \in DOMAIN r |-> BlockTask(s, path, r[n])]
<1>5. \A n \in DOMAIN u : u[n].kind = "fileWriteBlock" /\ u[n].sync = s
  BY DEF BlockTask
<1>6. u \in Seq(PendingTasks)
  <2>1. \A i \in S : BlockTask(s, path, i) \in PendingTasks
    BY <1>0, <1>3, QueueMembers
  <2>2. u \in [1 .. Cardinality(S) -> PendingTasks]
    BY <1>4, <2>1
  <2> QED
    BY <1>4, <2>2, SeqDef
<1> HIDE DEF u
<1>7. pending \in Seq(PendingTasks) /\ pending' = pending \o u
  BY <1>2 DEF u, TypeOK, QueuesTypeOK
<1>8. /\ Len(pending) \in Nat /\ Len(u) \in Nat
      /\ DOMAIN pending = 1 .. Len(pending) /\ DOMAIN u = 1 .. Len(u)
      /\ DOMAIN pending' = 1 .. Len(pending) + Len(u)
      /\ \A i \in 1 .. Len(pending) + Len(u) :
            pending'[i] = IF i <= Len(pending) THEN pending[i] ELSE u[i - Len(pending)]
  BY <1>6, <1>7, ConcatProperties, LenProperties
<1>9. \A i \in DOMAIN pending' :
         \/ i \in DOMAIN pending /\ pending'[i] = pending[i]
         \/ pending'[i].kind = "fileWriteBlock" /\ pending'[i].sync = s
  BY <1>5, <1>8
<1>10. \A i \in DOMAIN pending : i \in DOMAIN pending' /\ pending'[i] = pending[i]
  BY <1>8
<1> QED
  BY <1>9, <1>10

\* Data of a file are sent, or read first, when nothing is prepared.
LEMMA SendFileDataAttempt ==
    ASSUME TypeOK, AttemptInv, StagesKept, NEW t \in Threads, \A p, q \in Procs : p = q,
           NEW path, SendFileData(t, path)
    PROVE  AttemptInv'
<1> DEFINE s == sync[t]
<1>1. /\ Main \in Threads /\ Main \notin Procs /\ \A p \in Procs : p \in Threads
      /\ s \in Syncs /\ pc[t] = "send" /\ Writing(s, path, "processing")
      /\ UNCHANGED <<syncs, taskSync, pc, sync, arg>>
      /\ taskSync # None => taskSync \in Syncs
  <2>1. /\ Main \in Threads /\ Main \notin Procs /\ \A p \in Procs : p \in Threads
        /\ taskSync # None => taskSync \in Syncs
    BY ThreadsAssumption DEF Threads, TypeOK, ClientTypeOK, None, Syncs
  <2>2. pc[t] = "send" /\ Writing(s, path, "processing")
    BY Zenon DEF SendFileData, Visit
  <2>3. UNCHANGED <<syncs, taskSync, pc, sync, arg>>
    BY Zenon DEF SendFileData, Visit, client
  <2> QED
    BY <2>1, <2>2, <2>3, SyncOfBusyThread
<1>2. PhasesKept /\ DeletesKept
  <2>1. PICK v : task' = [task EXCEPT ![s].writes[path].blocks = v]
    BY Zenon DEF SendFileData
  <2> QED
    BY <2>1, TaskFieldSet
<1>3. \A S : Stage(S)' <=> Stage(S)
  BY <1>1, <1>2, StageKept DEF AttemptKept
<1>4. s <= syncs
  BY <1>1 DEF AttemptInv, UpdateInTime, PreparesAttempt, Threads
<1>5. AttemptsOver' /\ UpdateInTime' /\ PreparesAttempt' /\ SendsBeforeLayout' /\ DeletesComeLate'
  BY <1>1, <1>2, AttemptsKept, UpdateKept, ProcessorsKept DEF AttemptInv, AttemptKept
<1>6. ~ Preparing
  <2>1. CASE t = Main
    <3>1. ~ Stage({"pending", "processHashing", "prepareTasksWriting"})
      BY <1>1, <2>1, UpdateElsewhere
    <3>2. \A p \in Procs : pc[p] \in {"syncClient"} \cup HashPlaces => sync[p] \in Syncs
      BY <1>1, SyncOfBusyThread DEF HashPlaces
    <3> QED
      BY <3>1, <3>2 DEF AttemptInv, PreparesAttempt, Preparing, Stage, Syncs, None
  <2>2. CASE t \in Procs
    <3>1. ~ Stage({"processHashing"}) /\ ~ Stage({"prepareTasksWriting"})
      BY <1>1, <2>2 DEF AttemptInv, PreparesAttempt, WritePlaces
    <3> QED
      BY <1>1, <2>2, <3>1 DEF Preparing, Stage, HashPlaces
  <2> QED
    BY <2>1, <2>2 DEF Threads
<1>7. Stage({"pending"}) => "server" \in task[taskSync].want
  <2> SUFFICES ASSUME Stage({"pending"})
               PROVE  "server" \in task[taskSync].want
    OBVIOUS
  <2>1. t \in Procs
    BY <1>1, UpdateElsewhere DEF Threads, Stage
  <2>2. taskSync # s
    BY <1>1 DEF StagesKept, WritesComeLate, NothingToWrite, Writing, Stage
  <2> QED
    BY <1>1, <2>1, <2>2 DEF AttemptInv, SendsBeforeLayout, Stage
<1>8. \A i \in DOMAIN pending' :
         \/ i \in DOMAIN pending /\ pending'[i] = pending[i]
         \/ pending'[i].kind = "fileWriteBlock" /\ pending'[i].sync = s
  BY <1>1, SendFileDataAppends
<1>9. QueuedInTime'
  <2>1. ~ Preparing'
    BY <1>1, <1>3, <1>6 DEF Preparing
  <2>2. \A i \in DOMAIN pending :
           Stage({"pending"}) /\ pending[i].kind = "syncClient" => pending[i].sync # taskSync
    BY <1>7 DEF AttemptInv, QueuedInTime
  <2>3. \A i \in DOMAIN pending' :
           /\ pending'[i].sync <= syncs'
           /\ pending'[i].kind = "syncClient" => task'[pending'[i].sync].want = {}
           /\ ~ (/\ Stage({"pending"}) /\ pending'[i].kind = "syncClient"
                 /\ pending'[i].sync = taskSync)
    BY <1>1, <1>2, <1>4, <1>8, <2>2, PendingFacts DEF AttemptInv, QueuedInTime, PhasesKept
  <2> QED
    BY <1>1, <1>3, <2>1, <2>3 DEF QueuedInTime
<1> QED
  BY <1>5, <1>9 DEF AttemptInv

\* The next attempt begins when the last one is over.
LEMMA SynchronizeAttempt ==
    ASSUME TypeOK, AttemptInv, Synchronize
    PROVE  AttemptInv'
<1> DEFINE s == syncs + 1
<1>1. /\ s \in Syncs /\ s # None /\ syncs \in Nat
      /\ taskSync' = s /\ syncs' = s /\ UNCHANGED <<task, pc, sync, arg>>
      /\ pending' = Append(pending, LayoutTask(s))
      /\ pc[Main] = "idle" /\ Main \in Threads
      /\ taskSync # None => taskSync \in Syncs
      /\ taskSync \in Nat
  BY LimitsAssumption
     DEF Synchronize, threads, Threads, TypeOK, ClientTypeOK, Syncs, None
<1>2. taskSync # None => task[taskSync].status = "failure"
  BY DEF Synchronize
<1>3. /\ task[s].status = "pending" /\ task[s].want = {"server", "client"}
      /\ task[s].deletes = {}
  BY <1>1 DEF AttemptInv, AttemptsOver
<1>4. /\ ~ Stage({"processHashing", "prepareTasksWriting"})'
      /\ ~ Stage({"processHashing"})' /\ ~ Stage({"prepareTasksWriting"})'
  BY <1>1, <1>3 DEF Stage
<1>5. \A p \in Procs : pc'[p] \notin {"syncClient"} \cup HashPlaces \cup WritePlaces
  <2> SUFFICES ASSUME NEW p \in Procs,
                      pc[p] \in {"syncClient"} \cup HashPlaces \cup WritePlaces
               PROVE  FALSE
    BY <1>1
  <2>1. sync[p] \in Syncs
    BY SyncOfBusyThread DEF Threads, HashPlaces, WritePlaces
  <2>2. taskSync = sync[p] /\ task[sync[p]].status \in {"pending", "prepareTasksWriting"}
    BY DEF AttemptInv, PreparesAttempt
  <2> QED
    BY <1>2, <2>1, <2>2 DEF Syncs, None
<1>6. AttemptsOver'
  <2>1. \A x \in Syncs : x <= s /\ x # s => x <= syncs
    BY <1>1 DEF Syncs
  <2>2. \A x \in Syncs : x > s => x > syncs
    BY <1>1 DEF Syncs
  <2>3. \A x \in Syncs : x <= syncs => task[x].status \in Over
    BY <1>1, <1>2 DEF AttemptInv, AttemptsOver, Over, Syncs, None
  <2>4. /\ task' = task /\ taskSync' <= syncs'
    BY <1>1
  <2> QED
    BY <1>1, <2>1, <2>2, <2>3, <2>4 DEF AttemptInv, AttemptsOver
<1>7. UpdateInTime'
  <2>1. sync[Main] \in Nat /\ sync[Main] <= syncs
    BY <1>1, LimitsAssumption DEF TypeOK, ThreadsTypeOK, AttemptInv, UpdateInTime
  <2> QED
    BY <1>1, <2>1 DEF UpdateInTime, Harmless, TakesHashes
<1>8. PreparesAttempt'
  <2>1. \A p \in Procs : sync[p] \in Nat /\ sync[p] <= syncs
    BY LimitsAssumption DEF TypeOK, ThreadsTypeOK, Threads, AttemptInv, PreparesAttempt
  <2> QED
    BY <1>1, <1>4, <1>5, <2>1 DEF PreparesAttempt
<1>9. SendsBeforeLayout' /\ DeletesComeLate'
  BY <1>1, <1>3 DEF SendsBeforeLayout, DeletesComeLate
<1>10. QueuedInTime'
  <2>1. /\ LayoutTask(s) \in PendingTasks
        /\ LayoutTask(s).kind = "fileLayout" /\ LayoutTask(s).sync = s
    BY <1>1, QueueMembers DEF LayoutTask
  <2>2. PICK e : e = LayoutTask(s)
    OBVIOUS
  <2>3. \A i \in DOMAIN pending' :
           \/ i \in DOMAIN pending /\ pending'[i] = pending[i]
           \/ pending'[i].kind = "fileLayout" /\ pending'[i].sync = s
    BY <1>1, <2>1, <2>2, PendingAppended
  <2>4. \A i \in DOMAIN pending : pending[i].sync \in Nat /\ pending[i].sync <= syncs
    BY PendingFacts DEF AttemptInv, QueuedInTime, Syncs
  <2>5. ~ Preparing'
    BY <1>4, <1>5 DEF Preparing
  <2>6. \A i \in DOMAIN pending' :
           /\ pending'[i].sync <= syncs'
           /\ pending'[i].kind = "syncClient" => task'[pending'[i].sync].want = {}
           /\ ~ (pending'[i].kind = "syncClient" /\ pending'[i].sync = taskSync')
    <3> SUFFICES ASSUME NEW i \in DOMAIN pending'
                 PROVE  /\ pending'[i].sync <= syncs'
                        /\ pending'[i].kind = "syncClient" =>
                              task'[pending'[i].sync].want = {}
                        /\ ~ (/\ pending'[i].kind = "syncClient"
                              /\ pending'[i].sync = taskSync')
      OBVIOUS
    <3>1. CASE i \in DOMAIN pending /\ pending'[i] = pending[i]
      <4>1. pending[i].kind = "syncClient" => task[pending[i].sync].want = {}
        BY <3>1 DEF AttemptInv, QueuedInTime
      <4>2. pending[i].sync <= s /\ pending[i].sync # s
        BY <1>1, <2>4, <3>1
      <4>3. taskSync' = s /\ syncs' = s /\ task' = task
        BY <1>1
      <4> QED
        BY <3>1, <4>1, <4>2, <4>3, Zenon
    <3>2. CASE pending'[i].kind = "fileLayout" /\ pending'[i].sync = s
      <4>1. syncs' = s /\ s <= s
        BY <1>1
      <4> QED
        BY <3>2, <4>1
    <3> QED
      BY <2>3, <3>1, <3>2
  <2> QED
    BY <2>5, <2>6 DEF QueuedInTime
<1> QED
  BY <1>6, <1>7, <1>8, <1>9, <1>10 DEF AttemptInv

\* Nothing of an attempt is changed when the launcher answers.
LEMMA AnswerAttempt ==
    ASSUME TypeOK, AttemptInv, UNCHANGED <<client, pending, task, threads>>
    PROVE  AttemptInv'
<1>1. UNCHANGED <<syncs, taskSync, pending, task, pc, sync, arg>>
  BY DEF client, threads
<1>2. AttemptKept /\ DeletesKept
  BY <1>1 DEF AttemptKept, PhasesKept, DeletesKept
<1>3. \A S : Stage(S)' <=> Stage(S)
  BY <1>2, StageKept
<1>4. Preparing' => Preparing
  BY <1>1, <1>3 DEF Preparing
<1> QED
  BY <1>1, <1>2, <1>4, AttemptsKept, UpdateKept, ProcessorsKept, QueueKept DEF AttemptInv

LEMMA NextAttempt ==
    ASSUME TypeOK, CountsInv, StagesKept, AttemptInv, [Next]_vars, \A p, q \in Procs : p = q
    PROVE  AttemptInv'
<1>1. CASE Synchronize
  BY <1>1, SynchronizeAttempt
<1>2. CASE UpdateStep
  <2>1. \/ ReceiveMessage \/ CheckFinishedHashes \/ EnqueueSyncTask
        \/ SendQueuedMessages \/ ProcessResponseFileLayout
        \/ ProcessResponseFileBlockHashes \/ ProcessResponseDeleteFile
        \/ ProcessResponseWriteFile \/ ProcessFileDataReceived
        \/ ProcessResponseFinishWriteFile
        \/ CheckFinishedWrite /\ UNCHANGED task
        \/ CheckFinishedWrite /\ ~ UNCHANGED task
    BY <1>2 DEF UpdateStep
  <2>2. CheckFinishedWrite /\ ~ UNCHANGED task => AttemptInv'
    BY EndAttempt DEF Threads
  <2> QED
    BY <2>1, <2>2, ReceiveMessageAttempt, CheckFinishedHashesAttempt,
       EnqueueSyncTaskAttempt, UpdateStepsAttempt
<1>3. CASE \E p \in Procs : RunTaskStep(p)
  <2> PICK p \in Procs : RunTaskStep(p)
    BY <1>3
  <2>1. \A q \in Procs : q = p
    OBVIOUS
  <2> QED
    BY <2>1, TakeTaskAttempt, ProcessorStepsAttempt, HashingPreparedAttempt,
       AddFileDeleteTaskAttempt, WritingPreparedAttempt DEF RunTaskStep
<1>4. CASE \E t \in Threads : SharedStep(t)
  <2> PICK t \in Threads : SharedStep(t)
    BY <1>4
  <2>1. CASE SendNextWriteRequests(t)
    BY <2>1, SendStepsAttempt, SendFileDataAttempt DEF SendNextWriteRequests
  <2>2. CASE FinishLayout(t)
    BY <2>2, FinishLayoutAttempt
  <2>3. CASE SucceedSynchronization(t) \/ FailSynchronization(t)
    BY <2>3, EndAttempt
  <2>4. CASE ClearPendingTasks(t)
    BY <2>4, ClearPendingTasksAttempt
  <2> QED
    BY <2>1, <2>2, <2>3, <2>4 DEF SharedStep
<1>5. CASE Answer
  BY <1>5, AnswerAttempt DEF Answer
<1>6. CASE UNCHANGED vars
  BY <1>6, AnswerAttempt DEF vars
<1> QED
  BY <1>1, <1>2, <1>3, <1>4, <1>5, <1>6 DEF Next

LEMMA InitAttempt == Init => AttemptInv /\ StatusMatchesTask
<1> SUFFICES ASSUME Init
             PROVE  AttemptInv /\ StatusMatchesTask
  OBVIOUS
<1>1. /\ syncs = 0 /\ taskSync = None /\ syncStatus = "pending" /\ pending = <<>>
      /\ \A t \in Threads : pc[t] = "idle" /\ sync[t] = 0
      /\ \A s \in Syncs : task[s] = NewTask
      /\ Main \in Threads /\ Procs \subseteq Threads
  BY DEF Init, Threads, None
<1>2. AttemptsOver
  BY <1>1, LimitsAssumption DEF AttemptsOver, NewTask, Syncs, None
<1>3. UpdateInTime
  BY <1>1 DEF UpdateInTime, Stage, TakesHashes
<1>4. PreparesAttempt /\ SendsBeforeLayout /\ DeletesComeLate
  BY <1>1 DEF PreparesAttempt, SendsBeforeLayout, DeletesComeLate, Stage, HashPlaces,
     WritePlaces
<1>5. QueuedInTime
  BY <1>1 DEF QueuedInTime, Stage
<1> QED
  BY <1>1, <1>2, <1>3, <1>4, <1>5 DEF AttemptInv, StatusMatchesTask

\* The status and the sync task change together, or the status is set while the
\* sync task is there.
LEMMA NextStatus ==
    ASSUME TypeOK, AttemptInv, StatusMatchesTask, [Next]_vars
    PROVE  StatusMatchesTask'
<1>1. CASE Synchronize
  <2>1. syncs + 1 # None
    BY <1>1, LimitsAssumption DEF TypeOK, ClientTypeOK, None
  <2> QED
    BY <1>1, <2>1 DEF Synchronize, StatusMatchesTask
<1>2. CASE UpdateStep
  <2>1. UNCHANGED <<taskSync, syncStatus>>
    BY <1>2 DEF UpdateStep, SendQueuedMessages, ReceiveMessage,
       ProcessResponseFileLayout, ProcessResponseFileBlockHashes, CheckFinishedHashes,
       EnqueueSyncTask, ProcessResponseDeleteFile, ProcessResponseWriteFile,
       ProcessFileDataReceived, ProcessResponseFinishWriteFile, CheckFinishedWrite, client
  <2> QED
    BY <2>1 DEF StatusMatchesTask
<1>3. ASSUME NEW p \in Procs, RunTaskStep(p)
      PROVE  StatusMatchesTask'
  <2>1. CASE LookUpLayouts(p)
    <3>1. /\ pc[p] \in HashPlaces \cup WritePlaces
          /\ taskSync' = taskSync /\ syncStatus' = "processing"
      BY <2>1 DEF LookUpLayouts, HashPlaces, WritePlaces
    <3>2. taskSync = sync[p] /\ sync[p] # None
      BY <3>1, SyncOfBusyThread
         DEF AttemptInv, PreparesAttempt, Threads, Syncs, None, HashPlaces, WritePlaces
    <3> QED
      BY <3>1, <3>2 DEF StatusMatchesTask
  <2>2. CASE ~ LookUpLayouts(p)
    <3>1. UNCHANGED <<taskSync, syncStatus>>
      BY <1>3, <2>2 DEF RunTaskStep, TakeTask, ProcessFileLayoutServer,
         LayoutServerBuilt, RunSyncTask, LockForHashing, AddFileBlockHashTask,
         HashingPrepared, LockForWriting, AddFileDeleteTask, WritingPrepared,
         ReadFileBlock, SendBlockRead, client
    <3> QED
      BY <3>1 DEF StatusMatchesTask
  <2> QED
    BY <2>1, <2>2
<1>4. ASSUME NEW t \in Threads, SharedStep(t)
      PROVE  StatusMatchesTask'
  <2>1. CASE SucceedSynchronization(t) \/ FailSynchronization(t)
    BY <2>1 DEF SucceedSynchronization, FailSynchronization, StatusMatchesTask
  <2>2. CASE FinishLayout(t) \/ SendNextWriteRequests(t) \/ ClearPendingTasks(t)
    <3>1. UNCHANGED <<taskSync, syncStatus>>
      BY <2>2 DEF FinishLayout, SendNextWriteRequests, LockForSending, RequestWriteFile,
         RequestFinishWriteFile, SendFileData, SkipFile, Visit, SendingDone,
         ClearPendingTasks, client
    <3> QED
      BY <3>1 DEF StatusMatchesTask
  <2> QED
    BY <1>4, <2>1, <2>2 DEF SharedStep
<1>5. CASE Answer
  BY <1>5 DEF Answer, client, StatusMatchesTask
<1>6. CASE UNCHANGED vars
  BY <1>6 DEF vars, client, StatusMatchesTask
<1> QED
  BY <1>1, <1>2, <1>3, <1>4, <1>5, <1>6 DEF Next

(* The status shown is "processing" exactly while there is a sync task: nothing that
   is still done for an attempt that failed or was finished - a message, a task left
   in the queue, a thread on its way - brings it back.  ProcessPrepareHashing() and
   ProcessPrepareWriting() set it without the mutex; with one task processor, which is
   what StartTaskProcessors() starts, they only run while their sync task is the one
   present.  With two it can be set after its attempt has ended, and
   stays until the next one. *)
THEOREM StatusIsTrue ==
    ASSUME \A p, q \in Procs : p = q
    PROVE  Spec => []StatusMatchesTask
<1> DEFINE Inv == TypeOK /\ CountsInv /\ StagesKept /\ AttemptInv /\ StatusMatchesTask
<1>1. Init => Inv
  BY InitTypeOK, InitCounts, InitAttempt
<1>2. Inv /\ [Next]_vars => Inv'
  BY NextTypeOK, NextCounts, NextAttempt, NextStatus
<1>3. Inv => StatusMatchesTask
  OBVIOUS
<1> HIDE DEF Inv
<1> QED
  BY <1>1, <1>2, <1>3, PTL DEF Spec
===============================================================================
