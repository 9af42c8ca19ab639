---------------------------- MODULE RemoteClientReady --------------------------
(***************************************************************************)
(* RemoteClient with one task processor: an attempt moves on, what the     *)
(* launcher is asked comes in order, "ready" is the truth, and a           *)
(* synchronisation does what SyncLifecycle promises, for every set of      *)
(* paths and contents, every limit, any number of attempts and all faults. *)
(***************************************************************************)
EXTENDS RemoteClientProofs

-------------------------------------------------------------------------------
(* Somebody moves on *)

LayoutPlaces == {"fileLayout", "building", "layoutDone"}

\* The attempt under way waits for the server's layout.
WantsLayout == Stage({"pending"}) /\ "server" \in task[taskSync].want

\* The processor has the server's layout at hand only while it is waited for.
LayoutInHand ==
    \A p \in Procs :
        /\ pc[p] \in LayoutPlaces => WantsLayout /\ sync[p] = taskSync
        /\ pc[p] = "clear" /\ Stage({"pending"}) => WantsLayout
        /\ pc[p] = "fail" /\ Stage({"pending"}) /\ sync[p] = taskSync =>
              WantsLayout \/ task[taskSync].want = {}

\* It is to be built once, unless the queue is about to be cleared.
LayoutQueued ==
    \A i \in DOMAIN pending : pending[i].kind = "fileLayout" =>
        \/ \E p \in Procs : pc[p] = "clear"
        \/ /\ WantsLayout /\ pending[i].sync = taskSync
           /\ \A p \in Procs : pc[p] \notin LayoutPlaces
           /\ \A j \in DOMAIN pending : pending[j].kind = "fileLayout" => j = i

\* Update() finishes the launcher's layout once, and queues no attempt that is not
\* prepared yet.
AnswerInHand ==
    /\ pc[Main] = "layoutDone" => "client" \in task[sync[Main]].want
    /\ pc[Main] = "enqueue" => task[sync[Main]].status # "pending"

\* The processor that found nothing to write ends this attempt and no other.
SucceedsItself ==
    \A p \in Procs : pc[p] = "succeed" =>
        /\ taskSync = sync[p]
        /\ task[sync[p]].status = "processWriting" /\ NothingLeft(task[sync[p]])
        /\ pc[Main] \in {"idle", "apply", "enqueue", "layoutDone"}

Sits(p) == pc[p] \in {"syncClient", "prepareHashing", "hashLock", "hash", "fail"}

\* With both layouts there the attempt is queued, or at hand, once.
QueuedOnce ==
    Stage({"pending"}) /\ task[taskSync].want = {} =>
        IF \E p \in Procs : Sits(p) /\ sync[p] = taskSync
        THEN \A i \in DOMAIN pending : pending[i] # SyncTask(taskSync)
        ELSE \E i \in DOMAIN pending : \A j \in DOMAIN pending :
                pending[j] = SyncTask(taskSync) <=> j = i

\* The launcher's layout is asked for while it is waited for.
LayoutAsked ==
    Stage({"pending"}) /\ "client" \in task[taskSync].want =>
        LayoutRequest(taskSync) \in Outstanding \/ pc[Main] = "layoutDone"

\* Somebody builds the server's, or is to build it.
LayoutComes ==
    WantsLayout =>
        \/ \E i \in DOMAIN pending : pending[i].kind = "fileLayout"
        \/ \E p \in Procs : pc[p] \in LayoutPlaces \cup {"fail"}

MoveInv ==
    /\ LayoutInHand /\ LayoutQueued /\ AnswerInHand /\ SucceedsItself
    /\ QueuedOnce /\ LayoutAsked

\* No thread that fails an attempt is still to clear the queue of the next.
NoLateClear == \A t \in Threads : pc[t] = "clear" => taskSync = None


-------------------------------------------------------------------------------
(* An attempt goes on *)

LEMMA WorkersFacts ==
    ASSUME TypeOK
    PROVE  /\ Main \in Threads /\ Main \notin Procs /\ \A p \in Procs : p \in Threads
           /\ taskSync # None => taskSync \in Syncs
           /\ \A t \in Threads : pc[t] # "idle" => sync[t] \in Syncs /\ sync[t] # None
BY SyncOfBusyThread, ThreadsAssumption
   DEF Threads, TypeOK, ClientTypeOK, Syncs, None

\* The status of one sync task is set.
LEMMA StatusSet ==
    ASSUME TypeOK,
           \/ CheckFinishedHashes \/ CheckFinishedWrite
           \/ \E t \in Threads : SucceedSynchronization(t) \/ FailSynchronization(t)
           \/ \E p \in Procs : HashingPrepared(p)
    PROVE  \A x \in Syncs : /\ task'[x].want = task[x].want
                            /\ task'[x].status # task[x].status => task'[x].status # "pending"
<1>1. \/ UNCHANGED task
      \/ \E s, v : v # "pending" /\ task' = [task EXCEPT ![s].status = v]
  BY Zenon DEF CheckFinishedHashes, CheckFinishedWrite, SucceedSynchronization,
     FailSynchronization, HashingPrepared
<1>2. CASE UNCHANGED task
  BY <1>2
<1>3. ASSUME NEW s, NEW v, v # "pending", task' = [task EXCEPT ![s].status = v]
      PROVE  \A x \in Syncs : /\ task'[x].want = task[x].want
                              /\ task'[x].status # task[x].status =>
                                    task'[x].status # "pending"
  <2>1. /\ \A x \in Syncs : /\ task'[x].want = task[x].want
                            /\ x # s => task'[x].status = task[x].status
        /\ s \in Syncs => task'[s].status = v
    <3>1. /\ DOMAIN task = Syncs
          /\ \A x \in Syncs :
                DOMAIN task[x] = {"status", "want", "layout", "hashes", "deletes", "writes"}
      BY DEF TypeOK, TasksTypeOK, IsSyncTask, NewTask
    <3> QED
      BY <1>3, <3>1
  <2> QED
    BY <1>3, <2>1
<1> QED
  BY <1>1, <1>2, <1>3

LEMMA WritingPreparedSets ==
    ASSUME TypeOK, NEW t \in Procs, WritingPrepared(t)
    PROVE  /\ pc[t] = "delete" /\ sync[t] \in Syncs
           /\ UNCHANGED <<syncs, taskSync, pending>>
           /\ \A x \in Syncs : /\ task'[x].want = task[x].want
                               /\ task'[x].deletes = task[x].deletes
                               /\ x # sync[t] => task'[x].status = task[x].status
           /\ task'[sync[t]].status = "processWriting"
<1> DEFINE s == sync[t]
<1>1. s \in Syncs /\ pc[t] = "delete" /\ UNCHANGED <<syncs, taskSync, pending>>
  BY WorkersFacts DEF WritingPrepared, client
<1>2. PICK v : task' = [task EXCEPT ![s].writes = v, ![s].status = "processWriting"]
  BY DEF WritingPrepared
<1>3. /\ DOMAIN task = Syncs
      /\ \A x \in Syncs :
            DOMAIN task[x] = {"status", "want", "layout", "hashes", "deletes", "writes"}
  BY DEF TypeOK, TasksTypeOK, IsSyncTask, NewTask
<1> QED
  BY <1>1, <1>2, <1>3

LEMMA SendFileDataKeeps ==
    ASSUME TypeOK, NEW t \in Threads, NEW p, SendFileData(t, p)
    PROVE  UNCHANGED <<syncs, taskSync, pc, sync, arg>> /\ PhasesKept /\ DeletesKept
<1>1. UNCHANGED <<syncs, taskSync, pc, sync, arg>>
  BY DEF SendFileData, Visit, client
<1>2. PICK s, v : task' = [task EXCEPT ![s].writes[p].blocks = v]
  BY Zenon DEF SendFileData
<1>3. PhasesKept
  BY Zenon, <1>2, TaskFieldSet
<1>4. DeletesKept
  BY Zenon, <1>2, TaskFieldSet
<1> QED
  BY <1>1, <1>3, <1>4

LEMMA AddFileDeleteTaskKeeps ==
    ASSUME TypeOK, NEW t \in Procs, AddFileDeleteTask(t)
    PROVE  UNCHANGED <<syncs, taskSync, pending, pc, sync, arg>> /\ PhasesKept
<1>1. UNCHANGED <<syncs, taskSync, pending, pc, sync, arg>>
  BY DEF AddFileDeleteTask, client
<1>2. \E v : task' = [task EXCEPT ![sync[t]].deletes = v]
  BY DEF AddFileDeleteTask
<1> QED
  BY <1>1, <1>2, TaskFieldSet

\* A sync task becomes pending once, and a layout that is there is not asked for again.
LEMMA AttemptsGoOn ==
    ASSUME TypeOK, [Next]_vars, ~ Synchronize
    PROVE  /\ taskSync' \in {taskSync, None}
           /\ \A x \in Syncs : /\ task'[x].status = "pending" => task[x].status = "pending"
                               /\ task'[x].want \subseteq task[x].want
<1> DEFINE On == /\ taskSync' \in {taskSync, None}
                 /\ \A x \in Syncs :
                       /\ task'[x].status = "pending" => task[x].status = "pending"
                       /\ task'[x].want \subseteq task[x].want
<1>1. ASSUME PhasesKept, UNCHANGED taskSync
      PROVE  On
  BY <1>1 DEF PhasesKept
<1>2. ASSUME UNCHANGED <<taskSync, task>>
      PROVE  On
  BY <1>2
<1>3. ASSUME UpdateStep
      PROVE  On
  <2>1. CASE CheckFinishedHashes \/ CheckFinishedWrite
    <3>1. UNCHANGED taskSync
      BY <2>1 DEF CheckFinishedHashes, CheckFinishedWrite, client
    <3> QED
      BY <2>1, <3>1, StatusSet
  <2>2. CASE EnqueueSyncTask
    BY <2>2, <1>2 DEF EnqueueSyncTask, client
  <2>3. CASE ~ (CheckFinishedHashes \/ CheckFinishedWrite \/ EnqueueSyncTask)
    BY <1>1, <1>3, <2>3, UpdateStepsKeep DEF UpdateStep
  <2> QED
    BY <2>1, <2>2, <2>3
<1>4. ASSUME NEW p \in Procs, RunTaskStep(p)
      PROVE  On
  <2>1. CASE TakeTask(p)
    BY <2>1, <1>2 DEF TakeTask, client
  <2>2. CASE HashingPrepared(p)
    <3>1. UNCHANGED taskSync
      BY <2>2 DEF HashingPrepared, client
    <3> QED
      BY <2>2, <3>1, StatusSet
  <2>3. CASE WritingPrepared(p)
    BY <2>3, WritingPreparedSets
  <2>4. CASE AddFileDeleteTask(p)
    BY <1>1, <2>4, AddFileDeleteTaskKeeps
  <2>5. CASE ~ (\/ TakeTask(p) \/ HashingPrepared(p) \/ WritingPrepared(p)
                \/ AddFileDeleteTask(p))
    BY <1>1, <1>4, <2>5, ProcessorStepsKeep DEF RunTaskStep
  <2> QED
    BY <2>1, <2>2, <2>3, <2>4, <2>5
<1>5. ASSUME NEW t \in Threads, SharedStep(t)
      PROVE  On
  <2>1. CASE FinishLayout(t)
    <3>1. PICK s, v : v \subseteq task[s].want /\ task' = [task EXCEPT ![s].want = v]
      <4>1. task' = [task EXCEPT ![sync[t]].want =
               task[sync[t]].want \ {IF t = Main THEN "client" ELSE "server"}]
        BY Zenon, <2>1 DEF FinishLayout
      <4> QED
        BY <4>1
    <3>2. UNCHANGED taskSync
      BY <2>1 DEF FinishLayout, client
    <3> QED
      BY <3>1, <3>2, TaskFieldSet
  <2>2. CASE SucceedSynchronization(t) \/ FailSynchronization(t)
    <3>1. taskSync' \in {taskSync, None}
      BY <2>2 DEF SucceedSynchronization, FailSynchronization
    <3> QED
      BY <2>2, <3>1, StatusSet
  <2>3. CASE ClearPendingTasks(t)
    BY <2>3, <1>2 DEF ClearPendingTasks, client
  <2>4. CASE SendNextWriteRequests(t)
    BY <1>1, <2>4, SendStepsKeep, SendFileDataKeeps DEF SendNextWriteRequests
  <2> QED
    BY <1>5, <2>1, <2>2, <2>3, <2>4 DEF SharedStep
<1>6. ASSUME Answer
      PROVE  On
  BY <1>6, <1>2 DEF Answer, client
<1>7. ASSUME UNCHANGED vars
      PROVE  On
  BY <1>7, <1>2 DEF vars, client
<1> HIDE DEF On
<1>8. On
  <2>1. \/ UpdateStep \/ Answer \/ UNCHANGED vars
        \/ \E p \in Procs : RunTaskStep(p)
        \/ \E t \in Threads : SharedStep(t)
    BY Zenon DEF Next
  <2> QED
    BY <1>3, <1>4, <1>5, <1>6, <1>7, <2>1
<1> QED
  BY <1>8 DEF On


-------------------------------------------------------------------------------
(* Layouts and the queue *)

\* What is at hand and in the queue of the attempt under way.
HandsAndQueue == LayoutInHand /\ LayoutQueued /\ QueuedOnce

\* Nothing leaves the queue, and no layout task and no waiting attempt is added.
QueueGrows ==
    /\ \A i \in DOMAIN pending : i \in DOMAIN pending' /\ pending'[i] = pending[i]
    /\ \A i \in DOMAIN pending' \ DOMAIN pending :
          /\ pending'[i].kind # "fileLayout"
          /\ Stage({"pending"}) => pending'[i] # SyncTask(taskSync)

LEMMA WantsKept ==
    ASSUME TypeOK, AttemptKept
    PROVE  /\ WantsLayout' <=> WantsLayout
           /\ taskSync' = taskSync
           /\ Stage({"pending"})' <=> Stage({"pending"})
           /\ taskSync # None => task'[taskSync].want = task[taskSync].want
<1>1. Stage({"pending"})' <=> Stage({"pending"})
  BY StageKept
<1>2. taskSync # None => task'[taskSync].want = task[taskSync].want
  BY WorkersFacts DEF AttemptKept, PhasesKept
<1> QED
  BY <1>1, <1>2 DEF WantsLayout, AttemptKept, Stage

LEMMA QueueGrowsFacts ==
    ASSUME QueueGrows
    PROVE  /\ \A i \in DOMAIN pending' : pending'[i].kind = "fileLayout" =>
                 i \in DOMAIN pending /\ pending[i].kind = "fileLayout"
           /\ Stage({"pending"}) => \A i \in DOMAIN pending' :
                 pending'[i] = SyncTask(taskSync) =>
                    i \in DOMAIN pending /\ pending[i] = SyncTask(taskSync)
BY DEF QueueGrows

\* A step that leaves the attempt as it is and the processors where they are.
LEMMA HandsKept ==
    ASSUME TypeOK, HandsAndQueue, AttemptKept, QueueGrows,
           \A p \in Procs : pc'[p] = pc[p] /\ sync'[p] = sync[p]
    PROVE  HandsAndQueue' /\ (LayoutComes => LayoutComes')
<1>1. /\ WantsLayout' <=> WantsLayout
      /\ taskSync' = taskSync
      /\ Stage({"pending"})' <=> Stage({"pending"})
      /\ taskSync # None => task'[taskSync].want = task[taskSync].want
  BY WantsKept
<1>2. Stage({"pending"}) => taskSync # None
  BY DEF Stage
<1>3. LayoutInHand'
  BY <1>1, <1>2 DEF HandsAndQueue, LayoutInHand
<1>4. LayoutQueued'
  BY <1>1, QueueGrowsFacts DEF HandsAndQueue, LayoutQueued, QueueGrows
<1>5. QueuedOnce'
  <2> SUFFICES ASSUME Stage({"pending"}), task[taskSync].want = {}
               PROVE  QueuedOnce'
    BY <1>1, <1>2 DEF QueuedOnce
  <2>1. (\E p \in Procs : Sits(p) /\ sync[p] = taskSync)' <=>
           \E p \in Procs : Sits(p) /\ sync[p] = taskSync
    BY <1>1 DEF Sits
  <2>2. SyncTask(taskSync)' = SyncTask(taskSync)
    BY <1>1 DEF SyncTask
  <2>3. \A i \in DOMAIN pending' : pending'[i] = SyncTask(taskSync) =>
           i \in DOMAIN pending /\ pending[i] = SyncTask(taskSync)
    BY QueueGrowsFacts
  <2>4. CASE \E p \in Procs : Sits(p) /\ sync[p] = taskSync
    BY <2>1, <2>2, <2>3, <2>4 DEF HandsAndQueue, QueuedOnce
  <2>5. CASE ~ \E p \in Procs : Sits(p) /\ sync[p] = taskSync
    <3>1. PICK i \in DOMAIN pending : \A j \in DOMAIN pending :
             pending[j] = SyncTask(taskSync) <=> j = i
      BY <2>5 DEF HandsAndQueue, QueuedOnce
    <3>2. i \in DOMAIN pending' /\ \A j \in DOMAIN pending' :
             pending'[j] = SyncTask(taskSync) <=> j = i
      BY <2>3, <3>1 DEF QueueGrows
    <3> QED
      BY <2>1, <2>2, <2>5, <3>2 DEF QueuedOnce
  <2> QED
    BY <2>4, <2>5
<1>6. LayoutComes => LayoutComes'
  BY <1>1 DEF LayoutComes, QueueGrows
<1> QED
  BY <1>3, <1>4, <1>5, <1>6 DEF HandsAndQueue

\* A step of the processor that leaves the attempt as it is.
LEMMA ProcessorHands ==
    ASSUME TypeOK, HandsAndQueue, AttemptKept, UNCHANGED pending,
           NEW t \in Procs, \A p \in Procs : p = t,
           {pc[t], pc'[t]} \cap {"clear"} = {},
           pc'[t] \in LayoutPlaces =>
              pc[t] \in LayoutPlaces /\ sync'[t] \in {sync[t], taskSync},
           Stage({"pending"}) /\ task[taskSync].want = {} =>
              ((Sits(t) /\ sync[t] = taskSync)' <=> Sits(t) /\ sync[t] = taskSync),
           pc'[t] = "fail" /\ sync'[t] = taskSync /\ Stage({"pending"}) =>
              pc[t] \in LayoutPlaces \/ task[taskSync].want = {},
           WantsLayout /\ pc[t] \in LayoutPlaces \cup {"fail"} =>
              pc'[t] \in LayoutPlaces \cup {"fail"}
    PROVE  HandsAndQueue' /\ (LayoutComes => LayoutComes')
<1>1. /\ WantsLayout' <=> WantsLayout
      /\ taskSync' = taskSync
      /\ Stage({"pending"})' <=> Stage({"pending"})
      /\ taskSync # None => task'[taskSync].want = task[taskSync].want
  BY WantsKept
<1>2. Stage({"pending"}) => taskSync # None
  BY DEF Stage
<1>3. LayoutInHand'
  BY <1>1, <1>2 DEF HandsAndQueue, LayoutInHand
<1>4. LayoutQueued'
  BY <1>1 DEF HandsAndQueue, LayoutQueued
<1>5. QueuedOnce'
  <2> SUFFICES ASSUME Stage({"pending"}), task[taskSync].want = {}
               PROVE  QueuedOnce'
    BY <1>1, <1>2 DEF QueuedOnce
  <2>1. (\E p \in Procs : Sits(p) /\ sync[p] = taskSync)' <=>
           \E p \in Procs : Sits(p) /\ sync[p] = taskSync
    BY Zenon
  <2>2. SyncTask(taskSync)' = SyncTask(taskSync)
    BY <1>1 DEF SyncTask
  <2> QED
    BY <2>1, <2>2 DEF HandsAndQueue, QueuedOnce
<1>6. LayoutComes => LayoutComes'
  BY <1>1 DEF LayoutComes
<1> QED
  BY <1>3, <1>4, <1>5, <1>6 DEF HandsAndQueue

\* A step while no attempt is waiting, before and after it.
LEMMA NothingWaits ==
    ASSUME HandsAndQueue, QueueGrows, ~ Stage({"pending"}), ~ Stage({"pending"})',
           \A p \in Procs : /\ pc'[p] \in LayoutPlaces => pc[p] \in LayoutPlaces
                            /\ pc[p] = "clear" => pc'[p] = "clear"
    PROVE  HandsAndQueue' /\ LayoutComes'
<1>1. ~ WantsLayout /\ ~ WantsLayout'
  BY DEF WantsLayout
<1>2. LayoutInHand'
  BY <1>1 DEF HandsAndQueue, LayoutInHand
<1>3. LayoutQueued'
  BY <1>1, QueueGrowsFacts DEF HandsAndQueue, LayoutQueued
<1>4. QueuedOnce' /\ LayoutComes'
  BY <1>1 DEF QueuedOnce, LayoutComes
<1> QED
  BY <1>2, <1>3, <1>4 DEF HandsAndQueue


-------------------------------------------------------------------------------
(* The steps of the processor *)

LEMMA ProcessorStepsHands ==
    ASSUME TypeOK, AttemptInv, StagesKept, HandsAndQueue, NEW t \in Procs,
           \A p \in Procs : p = t,
           \/ ProcessFileLayoutServer(t) \/ LayoutServerBuilt(t) \/ RunSyncTask(t)
           \/ LookUpLayouts(t) \/ LockForHashing(t) \/ AddFileBlockHashTask(t)
           \/ LockForWriting(t) \/ ReadFileBlock(t) \/ SendBlockRead(t)
    PROVE  HandsAndQueue' /\ (LayoutComes => LayoutComes')
<1>1. t \in Threads /\ pc[t] # "idle" /\ sync[t] \in Syncs
  <2>1. t \in Threads /\ pc[t] # "idle"
    BY WorkersFacts DEF ProcessFileLayoutServer, LayoutServerBuilt, RunSyncTask,
       LookUpLayouts, LockForHashing, AddFileBlockHashTask, LockForWriting, ReadFileBlock,
       SendBlockRead
  <2> QED
    BY <2>1, WorkersFacts
<1>2. AttemptKept /\ UNCHANGED pending /\ taskSync' = taskSync
  BY ProcessorStepsKeep DEF AttemptKept
<1>3. /\ pc[t] \in LayoutPlaces => WantsLayout
      /\ pc[t] \in HashPlaces => task[sync[t]].want = {}
      /\ pc[t] \in WritePlaces => ~ Stage({"pending"})
  BY DEF HandsAndQueue, LayoutInHand, AttemptInv, PreparesAttempt, Stage, HashPlaces,
     WritePlaces
<1>4. CASE ProcessFileLayoutServer(t) \/ SendBlockRead(t)
  <2>1. \/ /\ Return(t) /\ (pc[t] = "fileLayout" => taskSync = None)
        \/ /\ (Goto(t, "building") /\ pc[t] = "fileLayout") \/ Goto(t, "sendLock")
           /\ sync' = [sync EXCEPT ![t] = taskSync] /\ UNCHANGED arg
    BY <1>4 DEF ProcessFileLayoutServer, SendBlockRead
  <2>2. /\ pc[t] \in {"fileLayout", "blockRead"}
        /\ pc[t] = "fileLayout" /\ taskSync # None => Goto(t, "building")
    BY <1>4 DEF ProcessFileLayoutServer, SendBlockRead
  <2>3. WantsLayout => taskSync # None
    BY DEF WantsLayout, Stage
  <2>4. /\ pc'[t] \in {"idle", "building", "sendLock"}
        /\ pc'[t] = "building" => pc[t] = "fileLayout" /\ sync'[t] = taskSync
        /\ pc[t] = "fileLayout" /\ taskSync # None => pc'[t] = "building"
    BY <1>1, <2>1, <2>2, ThreadMoves DEF Goto, TypeOK, ThreadsTypeOK
  <2> QED
    BY <1>2, <2>2, <2>3, <2>4, ProcessorHands DEF Sits, LayoutPlaces
<1>5. CASE LayoutServerBuilt(t)
  <2>1. /\ pc[t] = "building" /\ pc'[t] \in {"layoutDone", "fail"} /\ sync'[t] = sync[t]
    BY <1>1, <1>5, ThreadMoves DEF LayoutServerBuilt
  <2>2. task[taskSync].want # {}
    BY <1>3, <2>1 DEF WantsLayout, LayoutPlaces
  <2> QED
    BY <1>2, <2>1, <2>2, ProcessorHands DEF LayoutPlaces
<1>6. CASE RunSyncTask(t)
  <2>1. \/ /\ pc[t] = "syncClient" /\ pc'[t] = "prepareHashing" /\ sync'[t] = sync[t]
        \/ /\ pc[t] = "syncClient" /\ pc'[t] = "secondTest"
           /\ task[sync[t]].status # "pending"
        \/ pc[t] = "secondTest" /\ pc'[t] \in {"prepareWriting", "idle"}
    BY <1>1, <1>6, ThreadMoves DEF RunSyncTask
  <2>2. Stage({"pending"}) /\ sync[t] = taskSync => task[sync[t]].status = "pending"
    BY DEF Stage
  <2> QED
    BY <1>2, <2>1, <2>2, ProcessorHands DEF LayoutPlaces, Sits
<1>7. CASE LookUpLayouts(t)
  <2>1. /\ sync'[t] = sync[t]
        /\ \/ pc[t] = "prepareHashing" /\ pc'[t] \in {"fail", "hashLock"}
           \/ pc[t] = "prepareWriting" /\ pc'[t] \in {"fail", "deleteLock"}
    <3>1. \/ pc[t] = "prepareHashing" /\ (Continue(t, "fail") \/ Goto(t, "hashLock"))
          \/ pc[t] = "prepareWriting" /\ (Continue(t, "fail") \/ Goto(t, "deleteLock"))
      BY <1>7 DEF LookUpLayouts
    <3>2. sync'[t] = sync[t]
      BY <1>7 DEF LookUpLayouts, Continue
    <3>3. \A to : Continue(t, to) \/ Goto(t, to) => pc'[t] = to
      BY <1>1 DEF TypeOK, ThreadsTypeOK, Continue, Goto
    <3> QED
      BY <3>1, <3>2, <3>3
  <2> QED
    BY <1>2, <1>3, <2>1, ProcessorHands DEF LayoutPlaces, Sits, HashPlaces, WritePlaces
<1>8. CASE LockForHashing(t) \/ LockForWriting(t) \/ AddFileBlockHashTask(t)
  <2>1. /\ sync'[t] = sync[t]
        /\ \/ pc[t] \in {"hash", "hashLock"} /\ pc'[t] = "hash"
           \/ pc[t] = "deleteLock" /\ pc'[t] = "delete"
    BY <1>1, <1>8, ThreadMoves DEF LockForHashing, LockForWriting, AddFileBlockHashTask
  <2> QED
    BY <1>2, <2>1, ProcessorHands DEF LayoutPlaces, Sits
<1>9. CASE ReadFileBlock(t)
  <2>1. /\ pc[t] = "fileWriteBlock" /\ pc'[t] \in {"blockRead", "fail", "idle"}
        /\ pc'[t] = "fail" => sync'[t] = sync[t] /\ DOMAIN task[sync[t]].writes # {}
    BY <1>1, <1>9, ThreadMoves DEF ReadFileBlock
  <2>2. DOMAIN task[sync[t]].writes # {} => task[sync[t]].status # "pending"
    BY <1>1 DEF StagesKept, WritesComeLate, NothingToWrite
  <2>3. Stage({"pending"}) /\ sync[t] = taskSync => task[sync[t]].status = "pending"
    BY DEF Stage
  <2> QED
    BY <1>2, <2>1, <2>2, <2>3, ProcessorHands DEF LayoutPlaces, Sits
<1> QED
  BY <1>4, <1>5, <1>6, <1>7, <1>8, <1>9

LEMMA SendStepsHands ==
    ASSUME TypeOK, AttemptInv, StagesKept, HandsAndQueue, NEW t \in Procs,
           \A p \in Procs : p = t,
           \/ LockForSending(t) \/ SendingDone(t)
           \/ \E p \in todo[t] : \/ RequestWriteFile(t, p) \/ RequestFinishWriteFile(t, p)
                                 \/ SkipFile(t, p)
    PROVE  HandsAndQueue' /\ (LayoutComes => LayoutComes')
<1>1. AttemptKept /\ UNCHANGED pending /\ taskSync' = taskSync /\ t \in Threads
  BY SendStepsKeep, WorkersFacts DEF AttemptKept
<1>2. /\ pc[t] \in {"sendLock", "send"} /\ pc'[t] \in {"send", "fail", "idle"}
      /\ pc'[t] = "fail" => sync'[t] = sync[t] /\ DOMAIN task[sync[t]].writes # {}
  <2>1. CASE LockForSending(t) \/ SendingDone(t)
    BY <1>1, <2>1, ThreadMoves DEF LockForSending, SendingDone
  <2>2. CASE \E p \in todo[t] : \/ RequestWriteFile(t, p) \/ RequestFinishWriteFile(t, p)
                                \/ SkipFile(t, p)
    <3>1. /\ pc[t] = "send" /\ UNCHANGED <<sync, arg>>
          /\ pc' = pc \/ (Goto(t, "fail") /\ DOMAIN task[sync[t]].writes # {})
      BY <2>2 DEF RequestWriteFile, RequestFinishWriteFile, SkipFile, Visit, Writing
    <3> QED
      BY <1>1, <3>1, ThreadMoves
  <2> QED
    BY <2>1, <2>2
<1>3. DOMAIN task[sync[t]].writes # {} => task[sync[t]].status # "pending"
  BY <1>1, <1>2, WorkersFacts DEF StagesKept, WritesComeLate, NothingToWrite
<1>4. Stage({"pending"}) /\ sync[t] = taskSync => task[sync[t]].status = "pending"
  BY DEF Stage
<1> QED
  BY <1>1, <1>2, <1>3, <1>4, ProcessorHands DEF LayoutPlaces, Sits

-------------------------------------------------------------------------------
(* The queue *)

LEMMA SyncTaskShape ==
    ASSUME TypeOK
    PROVE  /\ \A i \in DOMAIN pending :
                 /\ pending[i] \in PendingTasks
                 /\ pending[i].kind = "syncClient" <=> pending[i] = SyncTask(pending[i].sync)
           /\ \A s : SyncTask(s).kind = "syncClient" /\ SyncTask(s).sync = s
           /\ \A s : LayoutTask(s).kind = "fileLayout" /\ LayoutTask(s).sync = s
<1>1. \A e \in PendingTasks : e.kind = "syncClient" <=> e = SyncTask(e.sync)
  BY DEF PendingTasks, LayoutTask, SyncTask, AboutBlocks, BlockTask
<1> QED
  BY <1>1, PendingFacts DEF SyncTask, LayoutTask

\* The processor takes the server's layout, or the attempt, out of the queue.
LEMMA TakeTaskHands ==
    ASSUME TypeOK, AttemptInv, HandsAndQueue, NEW t \in Procs, \A p \in Procs : p = t,
           TakeTask(t)
    PROVE  HandsAndQueue' /\ (LayoutComes => LayoutComes')
<1>1. PICK i \in DOMAIN pending :
         /\ Eligible(pending[i])
         /\ pending' = SubSeq(pending, 1, i - 1) \o SubSeq(pending, i + 1, Len(pending))
         /\ Goto(t, pending[i].kind)
         /\ sync' = [sync EXCEPT ![t] = pending[i].sync]
  BY Zenon DEF TakeTask
<1>2. PICK kind, s : kind = pending[i].kind /\ s = pending[i].sync
  OBVIOUS
<1>3. /\ t \in Threads /\ pc[t] = "idle" /\ UNCHANGED <<syncs, taskSync, task>>
  BY WorkersFacts DEF TakeTask, client
<1>4. /\ s \in Syncs /\ kind \in {"fileLayout", "syncClient", "fileWriteBlock"}
  BY <1>2, PendingFacts
<1>5. pc'[t] = kind /\ sync'[t] = s
  BY <1>1, <1>2, <1>3 DEF TypeOK, ThreadsTypeOK, Goto
<1>6. /\ Stage({"pending"})' <=> Stage({"pending"})
      /\ WantsLayout' <=> WantsLayout
      /\ SyncTask(taskSync)' = SyncTask(taskSync)
  BY <1>3 DEF Stage, WantsLayout, SyncTask
<1>7. kind = "syncClient" => taskSync = s
  BY <1>1, <1>2, <1>4, PendingFacts
     DEF Eligible, AttemptInv, AttemptsOver, QueuedInTime, Over
<1> DEFINE at(n) == IF n < i THEN n ELSE n + 1
<1>8. /\ \A n \in DOMAIN pending' : at(n) \in DOMAIN pending \ {i} /\ pending'[n] = pending[at(n)]
      /\ \A m, n \in DOMAIN pending' : at(m) = at(n) => m = n
      /\ \A k \in DOMAIN pending \ {i} : \E n \in DOMAIN pending' : at(n) = k
  <2>1. /\ Len(pending) \in Nat /\ i \in 1 .. Len(pending)
        /\ DOMAIN pending = 1 .. Len(pending) /\ DOMAIN pending' = 1 .. Len(pending) - 1
        /\ \A n \in 1 .. i - 1 : pending'[n] = pending[n]
        /\ \A n \in i .. Len(pending) - 1 : pending'[n] = pending[n + 1]
    BY <1>1, EraseShifts DEF TypeOK, QueuesTypeOK
  <2>2. ASSUME NEW k \in DOMAIN pending \ {i}
        PROVE  \E n \in DOMAIN pending' : at(n) = k
    <3>1. CASE k < i
      BY <2>1, <3>1
    <3>2. CASE k > i
      <4>1. k - 1 \in DOMAIN pending' /\ at(k - 1) = k
        BY <2>1, <3>2
      <4> QED
        BY <4>1
    <3> QED
      BY <2>1, <3>1, <3>2
  <2> QED
    BY <2>1, <2>2
<1> HIDE DEF at
<1>9. LayoutInHand'
  BY <1>2, <1>3, <1>4, <1>5, <1>6
     DEF HandsAndQueue, LayoutInHand, LayoutQueued, LayoutPlaces
<1>10. LayoutQueued'
  <2> SUFFICES ASSUME NEW n \in DOMAIN pending', pending'[n].kind = "fileLayout"
               PROVE  /\ WantsLayout' /\ pending'[n].sync = taskSync'
                      /\ \A p \in Procs : pc'[p] \notin LayoutPlaces
                      /\ \A j \in DOMAIN pending' : pending'[j].kind = "fileLayout" => j = n
    BY DEF LayoutQueued
  <2>1. /\ at(n) \in DOMAIN pending \ {i} /\ pending[at(n)].kind = "fileLayout"
        /\ pending[at(n)].sync = pending'[n].sync
    BY <1>8
  <2>2. /\ WantsLayout /\ pending[at(n)].sync = taskSync
        /\ \A j \in DOMAIN pending : pending[j].kind = "fileLayout" => j = at(n)
    BY <1>3, <2>1 DEF HandsAndQueue, LayoutQueued
  <2>3. kind # "fileLayout"
    BY <1>2, <2>1, <2>2
  <2>4. \A j \in DOMAIN pending' : pending'[j].kind = "fileLayout" => j = n
    BY <1>8, <2>2
  <2> QED
    BY <1>3, <1>4, <1>5, <1>6, <2>1, <2>2, <2>3, <2>4 DEF LayoutPlaces
<1>11. QueuedOnce'
  <2> SUFFICES ASSUME Stage({"pending"}), task[taskSync].want = {}
               PROVE  QueuedOnce'
    BY <1>3, <1>6 DEF QueuedOnce
  <2>1. PICK k \in DOMAIN pending : \A j \in DOMAIN pending :
           pending[j] = SyncTask(taskSync) <=> j = k
    BY <1>3 DEF HandsAndQueue, QueuedOnce, Sits
  <2>2. (\E p \in Procs : Sits(p) /\ sync[p] = taskSync)' <=> kind = "syncClient"
    BY <1>3, <1>4, <1>5, <1>7 DEF Sits
  <2>3. CASE kind = "syncClient"
    <3>1. pending[i] = SyncTask(taskSync)
      <4>1. pending[i] = SyncTask(pending[i].sync)
        BY <1>2, <2>3, SyncTaskShape
      <4> QED
        BY <1>2, <1>7, <2>3, <4>1
    <3>2. \A n \in DOMAIN pending' : pending'[n] # SyncTask(taskSync)
      BY <1>8, <2>1, <3>1
    <3> QED
      BY <1>6, <2>2, <2>3, <3>2 DEF QueuedOnce
  <2>4. CASE kind # "syncClient"
    <3>1. k # i
      BY <1>2, <2>1, <2>4, SyncTaskShape
    <3>2. PICK n \in DOMAIN pending' : at(n) = k
      BY <1>8, <3>1
    <3>3. \A j \in DOMAIN pending' : pending'[j] = SyncTask(taskSync) <=> j = n
      BY <1>8, <2>1, <3>2
    <3> QED
      BY <1>6, <2>2, <2>4, <3>3 DEF QueuedOnce
  <2> QED
    BY <2>3, <2>4
<1>12. LayoutComes => LayoutComes'
  <2> SUFFICES ASSUME LayoutComes, WantsLayout
               PROVE  \/ \E n \in DOMAIN pending' : pending'[n].kind = "fileLayout"
                      \/ \E p \in Procs : pc'[p] \in LayoutPlaces \cup {"fail"}
    BY <1>6 DEF LayoutComes
  <2>1. PICK k \in DOMAIN pending : pending[k].kind = "fileLayout"
    BY <1>3 DEF LayoutComes, LayoutPlaces
  <2>2. CASE k = i
    BY <1>2, <1>5, <2>1, <2>2 DEF LayoutPlaces
  <2>3. CASE k # i
    BY <1>8, <2>1, <2>3
  <2> QED
    BY <2>2, <2>3
<1> QED
  BY <1>9, <1>10, <1>11, <1>12 DEF HandsAndQueue

LEMMA TaskAppended ==
    ASSUME TypeOK, NEW e \in PendingTasks, pending' = Append(pending, e)
    PROVE  /\ \A i \in DOMAIN pending : i \in DOMAIN pending' /\ pending'[i] = pending[i]
           /\ \E n : /\ n \notin DOMAIN pending /\ DOMAIN pending' = DOMAIN pending \cup {n}
                     /\ pending'[n] = e
<1>1. pending \in Seq(PendingTasks) /\ Len(pending) \in Nat /\ DOMAIN pending = 1 .. Len(pending)
  BY LenProperties DEF TypeOK, QueuesTypeOK
<1>2. /\ DOMAIN pending' = 1 .. Len(pending) + 1
      /\ \A i \in 1 .. Len(pending) : pending'[i] = pending[i]
      /\ pending'[Len(pending) + 1] = e
  BY <1>1, AppendProperties
<1>3. /\ Len(pending) + 1 \notin DOMAIN pending
      /\ DOMAIN pending' = DOMAIN pending \cup {Len(pending) + 1}
  BY <1>1, <1>2
<1> QED
  BY <1>1, <1>2, <1>3

\* A thread sets the status of a sync task.
LEMMA StatusStepsHands ==
    ASSUME TypeOK, AttemptInv, HandsAndQueue, AnswerInHand, SucceedsItself,
           \A p, q \in Procs : p = q,
           \/ CheckFinishedHashes \/ CheckFinishedWrite
           \/ SucceedSynchronization(Main) \/ FailSynchronization(Main)
           \/ \E t \in Procs : WritingPrepared(t) \/ SucceedSynchronization(t)
    PROVE  HandsAndQueue' /\ LayoutComes'
<1>1. ~ Stage({"pending"})
  <2>1. CASE CheckFinishedHashes
    BY <2>1 DEF CheckFinishedHashes, TakesHashes, AttemptInv, UpdateInTime, Stage
  <2>2. CASE \/ CheckFinishedWrite \/ SucceedSynchronization(Main) \/ FailSynchronization(Main)
    <3>1. pc[Main] \in {"checkWrite", "succeed", "fail"}
      BY <2>2 DEF CheckFinishedWrite, SucceedSynchronization, FailSynchronization
    <3>2. \/ ~ Stage({"pending", "processHashing", "prepareTasksWriting"})
          \/ ~ Stage({"pending", "prepareTasksWriting"})
      BY <3>1, UpdateElsewhere
    <3> QED
      BY <3>2 DEF Stage
  <2>3. ASSUME NEW t \in Procs, WritingPrepared(t) \/ SucceedSynchronization(t)
        PROVE  ~ Stage({"pending"})
    <3>1. pc[t] \in {"delete", "succeed"}
      BY <2>3 DEF WritingPrepared, SucceedSynchronization
    <3> QED
      BY <3>1 DEF AttemptInv, PreparesAttempt, SucceedsItself, WritePlaces, Stage
  <2> QED
    BY <2>1, <2>2, <2>3
<1>2. ~ Stage({"pending"})'
  <2>1. ASSUME taskSync' \in {taskSync, None}, task'[taskSync].status = "pending" =>
                  task[taskSync].status = "pending"
        PROVE  ~ Stage({"pending"})'
    BY <1>1, <2>1 DEF Stage
  <2>2. CASE \/ CheckFinishedHashes \/ CheckFinishedWrite
             \/ \E t \in Threads : SucceedSynchronization(t) \/ FailSynchronization(t)
    <3>1. taskSync' \in {taskSync, None}
      BY <2>2 DEF CheckFinishedHashes, CheckFinishedWrite, SucceedSynchronization,
         FailSynchronization, client
    <3>2. taskSync # None => taskSync \in Syncs
      BY WorkersFacts
    <3>3. \A x \in Syncs : task'[x].status = "pending" => task[x].status = "pending"
      BY <2>2, StatusSet
    <3> QED
      BY <1>1, <3>1, <3>2, <3>3 DEF Stage
  <2>3. CASE \E t \in Procs : WritingPrepared(t)
    <3>1. PICK t \in Procs : WritingPrepared(t)
      BY <2>3
    <3>2. /\ UNCHANGED taskSync /\ sync[t] \in Syncs
          /\ \A x \in Syncs : x # sync[t] => task'[x].status = task[x].status
          /\ task'[sync[t]].status = "processWriting"
      BY <3>1, WritingPreparedSets
    <3>3. taskSync # None => taskSync \in Syncs
      BY WorkersFacts
    <3> QED
      BY <1>1, <3>2, <3>3 DEF Stage
  <2> QED
    BY <2>2, <2>3, WorkersFacts
<1>3. UNCHANGED pending
  BY DEF CheckFinishedHashes, CheckFinishedWrite, SucceedSynchronization,
     FailSynchronization, WritingPrepared
<1>4. \A p \in Procs : /\ pc'[p] \in LayoutPlaces => pc[p] \in LayoutPlaces
                       /\ pc[p] = "clear" => pc'[p] = "clear"
  <2>1. CASE \/ CheckFinishedHashes \/ CheckFinishedWrite
             \/ SucceedSynchronization(Main) \/ FailSynchronization(Main)
    <3>1. OthersStay(Main)
      <4>1. \/ Return(Main)
            \/ \E to : Continue(Main, to)
        BY <2>1 DEF CheckFinishedHashes, CheckFinishedWrite, SucceedSynchronization,
           FailSynchronization
      <4> QED
        BY <4>1, ThreadMoves, WorkersFacts
    <3> QED
      BY <3>1, WorkersFacts DEF OthersStay
  <2>2. ASSUME NEW t \in Procs, WritingPrepared(t) \/ SucceedSynchronization(t)
        PROVE  \A p \in Procs : /\ pc'[p] \in LayoutPlaces => pc[p] \in LayoutPlaces
                                /\ pc[p] = "clear" => pc'[p] = "clear"
    <3>1. /\ pc[t] \in {"delete", "succeed"}
          /\ Return(t) \/ \E to \in {"succeed", "sendLock"} : Continue(t, to)
      BY <2>2 DEF WritingPrepared, SucceedSynchronization
    <3>2. pc'[t] \in {"idle", "succeed", "sendLock"}
      BY <3>1, ThreadMoves, WorkersFacts
    <3> QED
      BY <2>2, <3>1, <3>2 DEF LayoutPlaces
  <2> QED
    BY <2>1, <2>2
<1>5. QueueGrows
  BY <1>3 DEF QueueGrows
<1> QED
  BY <1>1, <1>2, <1>4, <1>5, NothingWaits

\* The hashes are asked for, or there are none to ask for.
LEMMA HashingPreparedHands ==
    ASSUME TypeOK, AttemptInv, HandsAndQueue, NEW t \in Procs, \A p \in Procs : p = t,
           HashingPrepared(t)
    PROVE  HandsAndQueue' /\ LayoutComes'
<1>1. /\ t \in Threads /\ pc[t] = "hash" /\ taskSync = sync[t] /\ sync[t] \in Syncs
      /\ task[taskSync].status = "pending" /\ task[taskSync].want = {}
      /\ UNCHANGED <<taskSync, pending>>
  <2>1. t \in Threads /\ pc[t] = "hash" /\ UNCHANGED <<taskSync, pending>>
    BY WorkersFacts DEF HashingPrepared, client
  <2> QED
    BY <2>1, WorkersFacts DEF AttemptInv, PreparesAttempt, HashPlaces
<1>2. pc'[t] = "secondTest"
  BY <1>1, ThreadMoves DEF HashingPrepared
<1>3. ~ Stage({"pending"})'
  <2>1. PICK v : v # "pending" /\ task' = [task EXCEPT ![sync[t]].status = v]
    BY DEF HashingPrepared
  <2>2. PICK s : s = sync[t]
    OBVIOUS
  <2>3. task' = [task EXCEPT ![s].status = v] /\ s \in Syncs
    BY <1>1, <2>1, <2>2
  <2>4. task'[s].status = v
    BY Zenon, <2>3, TaskFieldSet
  <2> QED
    BY <1>1, <2>1, <2>2, <2>4 DEF Stage
<1>4. \A i \in DOMAIN pending : pending[i].kind # "fileLayout"
  BY <1>1 DEF HandsAndQueue, LayoutQueued, WantsLayout
<1>5. LayoutInHand' /\ LayoutQueued' /\ QueuedOnce' /\ LayoutComes'
  BY <1>1, <1>2, <1>3, <1>4
     DEF LayoutInHand, LayoutQueued, QueuedOnce, LayoutComes, WantsLayout, LayoutPlaces
<1> QED
  BY <1>5 DEF HandsAndQueue

\* The processor fails an attempt: the queue is to be cleared.
LEMMA FailHands ==
    ASSUME TypeOK, HandsAndQueue, NEW t \in Procs, \A p \in Procs : p = t,
           FailSynchronization(t)
    PROVE  HandsAndQueue' /\ LayoutComes'
<1>1. t \in Threads /\ pc[t] = "fail" /\ UNCHANGED pending
  BY WorkersFacts DEF FailSynchronization
<1>2. CASE taskSync = None
  <2>1. UNCHANGED <<taskSync, pending>> /\ pc'[t] = "idle"
    BY <1>1, <1>2, ThreadMoves DEF FailSynchronization
  <2>2. ~ Stage({"pending"}) /\ ~ Stage({"pending"})' /\ QueueGrows
    BY <1>2, <2>1 DEF Stage, QueueGrows
  <2> QED
    BY <1>1, <2>1, <2>2, NothingWaits DEF LayoutPlaces
<1>3. CASE taskSync # None
  <2>1. taskSync' = None /\ pc'[t] = "clear"
    BY <1>1, <1>3, ThreadMoves DEF FailSynchronization
  <2>2. ~ Stage({"pending"})'
    BY <2>1 DEF Stage, None
  <2>3. LayoutInHand' /\ LayoutQueued' /\ QueuedOnce' /\ LayoutComes'
    BY <2>1, <2>2
       DEF LayoutInHand, LayoutQueued, QueuedOnce, LayoutComes, WantsLayout, LayoutPlaces
  <2> QED
    BY <2>3 DEF HandsAndQueue
<1> QED
  BY <1>2, <1>3

\* The queue is cleared; the attempt to come must not have begun.
LEMMA ClearHands ==
    ASSUME TypeOK, AttemptInv, HandsAndQueue, NEW t \in Threads, \A p, q \in Procs : p = q,
           ClearPendingTasks(t)
    PROVE  HandsAndQueue' /\ (NoLateClear => LayoutComes')
<1>1. /\ pc[t] = "clear" /\ pending' = <<>> /\ UNCHANGED <<taskSync, task>>
      /\ pc'[t] = "idle" /\ OthersStay(t)
  BY ThreadMoves DEF ClearPendingTasks, client
<1>2. /\ Stage({"pending"})' <=> Stage({"pending"})
      /\ WantsLayout' <=> WantsLayout
  BY <1>1 DEF Stage, WantsLayout
<1>3. DOMAIN pending' = {}
  BY <1>1
<1>4. Stage({"pending"}) => WantsLayout
  <2>1. CASE t = Main
    BY <1>1, <2>1, UpdateElsewhere DEF Stage
  <2>2. CASE t \in Procs
    BY <1>1, <2>2 DEF HandsAndQueue, LayoutInHand
  <2> QED
    BY <2>1, <2>2 DEF Threads
<1>5. \A p \in Procs : pc'[p] = "idle" \/ (pc'[p] = pc[p] /\ sync'[p] = sync[p])
  BY <1>1, WorkersFacts DEF OthersStay
<1>6. LayoutInHand'
  BY <1>1, <1>2, <1>5 DEF HandsAndQueue, LayoutInHand, LayoutPlaces
<1>7. LayoutQueued' /\ QueuedOnce'
  BY <1>1, <1>2, <1>3, <1>4 DEF LayoutQueued, QueuedOnce, WantsLayout
<1>8. NoLateClear => LayoutComes'
  BY <1>1, <1>2 DEF NoLateClear, LayoutComes, WantsLayout, Stage
<1> QED
  BY <1>6, <1>7, <1>8 DEF HandsAndQueue

LEMMA EnqueueHands ==
    ASSUME TypeOK, AttemptInv, HandsAndQueue, AnswerInHand, EnqueueSyncTask
    PROVE  HandsAndQueue' /\ LayoutComes'
<1>1. /\ pc[Main] = "enqueue" /\ pending' = Append(pending, SyncTask(sync[Main]))
      /\ Return(Main) /\ UNCHANGED <<taskSync, task>>
  BY DEF EnqueueSyncTask, client
<1>2. ~ Stage({"pending"}) /\ ~ Stage({"pending"})'
  BY <1>1 DEF AttemptInv, UpdateInTime, AnswerInHand, Stage
<1>3. SyncTask(sync[Main]) \in PendingTasks
  BY <1>1, WorkersFacts DEF PendingTasks
<1>4. \A p \in Procs : pc'[p] = pc[p]
  BY <1>1, ThreadMoves, WorkersFacts DEF OthersStay
<1>5. QueueGrows
  <2>1. SyncTask(sync[Main]).kind # "fileLayout"
    BY DEF SyncTask
  <2>2. PICK e : e = SyncTask(sync[Main])
    OBVIOUS
  <2>3. e \in PendingTasks /\ pending' = Append(pending, e) /\ e.kind # "fileLayout"
    BY <1>1, <1>3, <2>1, <2>2
  <2> QED
    BY <1>2, <2>3, TaskAppended DEF QueueGrows
<1> QED
  BY <1>2, <1>4, <1>5, NothingWaits

\* A new attempt asks for both layouts.
LEMMA SynchronizeHands ==
    ASSUME TypeOK, AttemptInv, HandsAndQueue, Synchronize
    PROVE  HandsAndQueue' /\ LayoutComes'
<1>1. PICK s : s = syncs + 1
  OBVIOUS
<1>2. /\ taskSync # None => task[taskSync].status = "failure"
      /\ taskSync' = s /\ UNCHANGED <<task, pc, sync>>
      /\ pending' = Append(pending, LayoutTask(s))
      /\ s \in Syncs /\ s > syncs
  BY <1>1, LimitsAssumption
     DEF Synchronize, threads, TypeOK, ClientTypeOK, Syncs
<1>3. task[s].status = "pending" /\ task[s].want = {"server", "client"}
  BY <1>2 DEF AttemptInv, AttemptsOver
<1>4. ~ Stage({"pending"}) /\ ~ WantsLayout
  BY <1>2 DEF Stage, WantsLayout
<1>5. WantsLayout'
  BY <1>2, <1>3 DEF WantsLayout, Stage, Syncs, None
<1>6. \A p \in Procs : pc[p] \notin LayoutPlaces
  BY <1>4 DEF HandsAndQueue, LayoutInHand
<1>7. /\ \A i \in DOMAIN pending : i \in DOMAIN pending' /\ pending'[i] = pending[i]
      /\ \E n : /\ n \notin DOMAIN pending /\ DOMAIN pending' = DOMAIN pending \cup {n}
                /\ pending'[n] = LayoutTask(s)
  <2>1. PICK e : e = LayoutTask(s)
    OBVIOUS
  <2>2. e \in PendingTasks
    BY <1>2, <2>1 DEF PendingTasks
  <2> QED
    BY <1>2, <2>1, <2>2, TaskAppended
<1>8. LayoutTask(s).kind = "fileLayout" /\ LayoutTask(s).sync = s
  BY DEF LayoutTask
<1>9. LayoutInHand'
  BY <1>2, <1>5, <1>6 DEF LayoutInHand
<1>10. LayoutQueued'
  <2>1. CASE \E p \in Procs : pc[p] = "clear"
    BY <1>2, <2>1 DEF LayoutQueued
  <2>2. CASE ~ \E p \in Procs : pc[p] = "clear"
    <3>1. \A i \in DOMAIN pending : pending[i].kind # "fileLayout"
      BY <1>4, <2>2 DEF HandsAndQueue, LayoutQueued
    <3> QED
      BY <1>2, <1>5, <1>6, <1>7, <1>8, <3>1 DEF LayoutQueued
  <2> QED
    BY <2>1, <2>2
<1>11. QueuedOnce'
  BY <1>2, <1>3 DEF QueuedOnce
<1>12. LayoutComes'
  BY <1>7, <1>8 DEF LayoutComes
<1> QED
  BY <1>9, <1>10, <1>11, <1>12 DEF HandsAndQueue

\* One of the two layouts is there.
LEMMA FinishLayoutHands ==
    ASSUME TypeOK, AttemptInv, HandsAndQueue, AnswerInHand, NEW t \in Threads,
           \A p, q \in Procs : p = q, FinishLayout(t)
    PROVE  HandsAndQueue' /\ (LayoutComes => LayoutComes')
<1>1. PICK s, left : /\ s = sync[t]
                     /\ left = task[s].want \ {IF t = Main THEN "client" ELSE "server"}
  OBVIOUS
<1>2. /\ pc[t] = "layoutDone" /\ UNCHANGED taskSync
      /\ task' = [task EXCEPT ![s].want = left]
      /\ pending' = IF left = {} THEN Append(pending, SyncTask(s)) ELSE pending
      /\ pc'[t] = "idle" /\ OthersStay(t) /\ s \in Syncs
  <2>1. /\ pc[t] = "layoutDone" /\ UNCHANGED taskSync
        /\ task' = [task EXCEPT ![s].want = left]
        /\ pending' = IF left = {} THEN Append(pending, SyncTask(s)) ELSE pending
        /\ Return(t)
    BY Zenon, <1>1 DEF FinishLayout, client, BothThere
  <2> QED
    BY <1>1, <2>1, ThreadMoves, WorkersFacts
<1>3. /\ \A x \in Syncs : /\ task'[x].status = task[x].status
                          /\ x # s => task'[x].want = task[x].want
      /\ task'[s].want = left
  BY <1>2, OneWantSet
<1>4. Stage({"pending"})' <=> Stage({"pending"})
  BY <1>2, <1>3, WorkersFacts DEF Stage
<1>5. \A p \in Procs : (pc'[p] = "idle" /\ p = t) \/ (pc'[p] = pc[p] /\ sync'[p] = sync[p])
  BY <1>2, WorkersFacts DEF OthersStay
<1>6. /\ \A i \in DOMAIN pending : i \in DOMAIN pending' /\ pending'[i] = pending[i]
      /\ left # {} => DOMAIN pending' = DOMAIN pending
      /\ left = {} => \E n : /\ n \notin DOMAIN pending
                             /\ DOMAIN pending' = DOMAIN pending \cup {n}
                             /\ pending'[n] = SyncTask(s)
  <2>1. PICK e : e = SyncTask(s)
    OBVIOUS
  <2>2. e \in PendingTasks
    BY <1>2, <2>1 DEF PendingTasks
  <2> QED
    BY <1>2, <2>1, <2>2, TaskAppended
<1>7. SyncTask(s).kind = "syncClient" /\ SyncTask(s).sync = s
  BY DEF SyncTask
<1>8. CASE ~ Stage({"pending"})
  <2>1. QueueGrows
    BY <1>6, <1>7, <1>8 DEF QueueGrows
  <2>2. \A p \in Procs : /\ pc'[p] \in LayoutPlaces => pc[p] \in LayoutPlaces
                         /\ pc[p] = "clear" => pc'[p] = "clear"
    BY <1>2, <1>5 DEF LayoutPlaces
  <2> QED
    BY <1>4, <1>8, <2>1, <2>2, NothingWaits
<1>9. CASE Stage({"pending"})
  <2>1. s = taskSync /\ taskSync \in Syncs /\ taskSync # None
    <3>1. CASE t = Main
      BY <1>1, <1>2, <1>9, <3>1, WorkersFacts DEF AttemptInv, UpdateInTime, Stage
    <3>2. CASE t \in Procs
      BY <1>1, <1>2, <1>9, <3>2, WorkersFacts
         DEF HandsAndQueue, LayoutInHand, LayoutPlaces, Stage
    <3> QED
      BY <3>1, <3>2 DEF Threads
  <2>2. task[taskSync].want # {}
    <3>1. CASE t = Main
      BY <1>1, <1>2, <2>1, <3>1 DEF AnswerInHand
    <3>2. CASE t \in Procs
      BY <1>2, <3>2 DEF HandsAndQueue, LayoutInHand, LayoutPlaces, WantsLayout
    <3> QED
      BY <3>1, <3>2 DEF Threads
  <2>3. WantsLayout' <=> "server" \in left
    BY <1>2, <1>3, <1>4, <1>9, <2>1 DEF WantsLayout
  <2>4. \A p \in Procs : pc[p] \in LayoutPlaces \cup {"clear"} \/
                            (pc[p] = "fail" /\ sync[p] = taskSync) => WantsLayout
    BY <1>9, <2>2 DEF HandsAndQueue, LayoutInHand
  <2>5. ASSUME \A p \in Procs : pc'[p] \in LayoutPlaces \cup {"clear"} \/
                            (pc'[p] = "fail" /\ sync'[p] = taskSync) => WantsLayout'
        PROVE  LayoutInHand'
    BY <1>2, <1>5, <2>5 DEF HandsAndQueue, LayoutInHand, LayoutPlaces
  <2>6. QueuedOnce'
    <3> SUFFICES ASSUME left = {}
                 PROVE  QueuedOnce'
      BY <1>2, <1>3, <2>1 DEF QueuedOnce
    <3>1. SyncTask(taskSync)' = SyncTask(s)
      BY <1>2, <2>1 DEF SyncTask
    <3>2. ~ \E p \in Procs : (Sits(p) /\ sync[p] = taskSync)'
      <4> SUFFICES ASSUME NEW p \in Procs, pc'[p] = pc[p], sync'[p] = sync[p],
                          Sits(p)', sync[p] = taskSync
                   PROVE  FALSE
        BY <1>2, <1>5 DEF Sits
      <4>1. CASE pc[p] = "fail"
        <5>1. WantsLayout
          BY <2>1, <2>4, <4>1
        <5>2. t = Main
          BY <1>1, <1>2, <4>1 DEF Threads
        <5> QED
          BY <1>1, <2>1, <5>1, <5>2 DEF WantsLayout
      <4>2. CASE pc[p] # "fail"
        BY <2>2, <4>2 DEF Sits, HashPlaces, AttemptInv, PreparesAttempt
      <4> QED
        BY <4>1, <4>2
    <3>3. \A i \in DOMAIN pending : pending[i] # SyncTask(s)
      BY <1>7, <2>1, <2>2 DEF AttemptInv, QueuedInTime
    <3>4. PICK n : /\ n \notin DOMAIN pending /\ DOMAIN pending' = DOMAIN pending \cup {n}
                   /\ pending'[n] = SyncTask(s)
      BY <1>6
    <3>5. \A j \in DOMAIN pending' : pending'[j] = SyncTask(s) <=> j = n
      BY <1>6, <3>3, <3>4
    <3> QED
      BY <3>1, <3>2, <3>4, <3>5 DEF QueuedOnce
  <2>7. \A i \in DOMAIN pending' : pending'[i].kind = "fileLayout" =>
           i \in DOMAIN pending /\ pending[i].kind = "fileLayout"
    BY <1>6, <1>7
  <2>8. CASE t = Main
    <3>1. WantsLayout' <=> WantsLayout
      BY <1>1, <2>1, <2>3, <2>8, <1>9 DEF WantsLayout
    <3>2. LayoutInHand'
      BY <1>2, <1>5, <2>4, <2>5, <3>1, <2>8, WorkersFacts
    <3>3. \A p \in Procs : pc'[p] = pc[p]
      BY <1>5, <2>8, WorkersFacts
    <3>4. LayoutQueued'
      BY <1>2, <1>6, <2>7, <3>1, <3>3 DEF HandsAndQueue, LayoutQueued
    <3>5. LayoutComes => LayoutComes'
      BY <1>6, <3>1, <3>3 DEF LayoutComes
    <3> QED
      BY <2>6, <3>2, <3>4, <3>5 DEF HandsAndQueue
  <2>9. CASE t \in Procs
    <3>1. ~ WantsLayout'
      BY <1>1, <2>3, <2>9, WorkersFacts
    <3>2. \A p \in Procs : pc'[p] = "idle"
      BY <1>2, <2>9
    <3>3. LayoutInHand'
      BY <2>5, <3>2 DEF LayoutPlaces
    <3>4. \A i \in DOMAIN pending' : pending'[i].kind # "fileLayout"
      BY <1>2, <2>7, <2>9 DEF HandsAndQueue, LayoutQueued, LayoutPlaces
    <3>5. LayoutQueued' /\ LayoutComes'
      BY <3>1, <3>4 DEF LayoutQueued, LayoutComes
    <3> QED
      BY <2>6, <3>3, <3>5 DEF HandsAndQueue
  <2> QED
    BY <2>8, <2>9 DEF Threads
<1> QED
  BY <1>8, <1>9

LEMMA NextHands ==
    ASSUME TypeOK, StagesKept, AttemptInv, HandsAndQueue, AnswerInHand, SucceedsItself,
           [Next]_vars, \A p, q \in Procs : p = q
    PROVE  HandsAndQueue' /\ (LayoutComes /\ NoLateClear => LayoutComes')
<1> DEFINE On == HandsAndQueue' /\ (LayoutComes /\ NoLateClear => LayoutComes')
<1>1. ASSUME AttemptKept, UNCHANGED pending, \A p \in Procs : pc'[p] = pc[p] /\ sync'[p] = sync[p]
      PROVE  On
  <2>1. QueueGrows
    BY <1>1 DEF QueueGrows
  <2> QED
    BY <1>1, <2>1, HandsKept
<1>2. ASSUME UpdateStep
      PROVE  On
  <2>1. CASE CheckFinishedHashes \/ CheckFinishedWrite
    BY <2>1, StatusStepsHands
  <2>2. CASE EnqueueSyncTask
    BY <2>2, EnqueueHands
  <2>3. CASE ~ (CheckFinishedHashes \/ CheckFinishedWrite \/ EnqueueSyncTask)
    <3>1. AttemptKept /\ UNCHANGED pending
      BY <1>2, <2>3, UpdateStepsKeep DEF UpdateStep, AttemptKept
    <3>2. \A p \in Procs : pc'[p] = pc[p] /\ sync'[p] = sync[p]
      <4>1. \/ UNCHANGED <<pc, sync>>
            \/ Return(Main)
            \/ \E to : Continue(Main, to)
            \/ \E to, s : Goto(Main, to) /\ sync' = [sync EXCEPT ![Main] = s]
        BY <1>2, <2>3
           DEF UpdateStep, SendQueuedMessages, ReceiveMessage, ProcessResponseFileLayout,
               ProcessResponseFileBlockHashes, ProcessResponseDeleteFile,
               ProcessResponseWriteFile, ProcessFileDataReceived,
               ProcessResponseFinishWriteFile, threads
      <4> QED
        BY <4>1, WorkersFacts DEF TypeOK, ThreadsTypeOK, Return, Continue, Goto
    <3> QED
      BY <1>1, <3>1, <3>2
  <2> QED
    BY <2>1, <2>2, <2>3
<1>3. ASSUME NEW t \in Procs, RunTaskStep(t)
      PROVE  On
  <2>1. \A p \in Procs : p = t
    OBVIOUS
  <2>2. CASE TakeTask(t)
    BY <2>1, <2>2, TakeTaskHands
  <2>3. CASE HashingPrepared(t)
    BY <2>1, <2>3, HashingPreparedHands
  <2>4. CASE WritingPrepared(t)
    BY <2>4, StatusStepsHands
  <2>5. CASE AddFileDeleteTask(t)
    <3>1. UNCHANGED <<syncs, taskSync, pending, pc, sync, arg>> /\ PhasesKept
      BY <2>5, AddFileDeleteTaskKeeps
    <3> QED
      BY <1>1, <3>1 DEF AttemptKept
  <2>6. CASE ~ (\/ TakeTask(t) \/ HashingPrepared(t) \/ WritingPrepared(t)
                \/ AddFileDeleteTask(t))
    BY <1>3, <2>1, <2>6, ProcessorStepsHands DEF RunTaskStep
  <2> QED
    BY <2>2, <2>3, <2>4, <2>5, <2>6
<1>4. ASSUME NEW t \in Threads, SendNextWriteRequests(t)
      PROVE  On
  <2>1. CASE \E p : SendFileData(t, p)
    <3>1. PICK p : SendFileData(t, p)
      BY <2>1
    <3>2. UNCHANGED <<syncs, taskSync, pc, sync, arg>> /\ PhasesKept
      BY <3>1, SendFileDataKeeps
    <3>3. QueueGrows
      <4>1. /\ \A i \in DOMAIN pending' :
                  \/ i \in DOMAIN pending /\ pending'[i] = pending[i]
                  \/ pending'[i].kind = "fileWriteBlock"
            /\ \A i \in DOMAIN pending : i \in DOMAIN pending' /\ pending'[i] = pending[i]
        BY <3>1, SendFileDataAppends
      <4>2. SyncTask(taskSync).kind = "syncClient"
        BY DEF SyncTask
      <4> QED
        BY <4>1, <4>2 DEF QueueGrows
    <3> QED
      BY <3>2, <3>3, HandsKept DEF AttemptKept
  <2>2. CASE \/ LockForSending(t) \/ SendingDone(t)
             \/ \E p \in todo[t] : \/ RequestWriteFile(t, p) \/ RequestFinishWriteFile(t, p)
                                   \/ SkipFile(t, p)
    <3>1. CASE t \in Procs
      BY <2>2, <3>1, SendStepsHands
    <3>2. CASE t = Main
      <4>1. AttemptKept /\ UNCHANGED pending
        BY <2>2, SendStepsKeep DEF AttemptKept
      <4>2. \A p \in Procs : pc'[p] = pc[p] /\ sync'[p] = sync[p]
        <5>1. \/ UNCHANGED <<pc, sync>>
              \/ Return(t)
              \/ \E to : Goto(t, to) /\ UNCHANGED sync
          BY <2>2 DEF LockForSending, SendingDone, RequestWriteFile, RequestFinishWriteFile,
                      SkipFile, Visit
        <5> QED
          BY <3>2, <5>1, WorkersFacts DEF TypeOK, ThreadsTypeOK, Return, Goto
      <4> QED
        BY <1>1, <4>1, <4>2
    <3> QED
      BY <3>1, <3>2 DEF Threads
  <2> QED
    BY <1>4, <2>1, <2>2 DEF SendNextWriteRequests
<1>5. ASSUME NEW t \in Threads, SharedStep(t)
      PROVE  On
  <2>1. CASE FinishLayout(t)
    BY <2>1, FinishLayoutHands
  <2>2. CASE SucceedSynchronization(t)
    BY <2>2, StatusStepsHands DEF Threads
  <2>3. CASE FailSynchronization(t)
    BY <2>3, StatusStepsHands, FailHands DEF Threads
  <2>4. CASE ClearPendingTasks(t)
    BY <2>4, ClearHands
  <2>5. CASE SendNextWriteRequests(t)
    BY <1>4, <2>5
  <2> QED
    BY <1>5, <2>1, <2>2, <2>3, <2>4, <2>5 DEF SharedStep
<1>6. ASSUME UNCHANGED <<client, pending, task, threads>>
      PROVE  On
  BY <1>1, <1>6 DEF client, threads, AttemptKept, PhasesKept
<1>7. Synchronize => On
  BY SynchronizeHands
<1> HIDE DEF On
<1>8. On
  <2>1. Answer \/ UNCHANGED vars => UNCHANGED <<client, pending, task, threads>>
    BY DEF Answer, vars
  <2>2. \/ Synchronize \/ UpdateStep \/ Answer \/ UNCHANGED vars
        \/ \E p \in Procs : RunTaskStep(p)
        \/ \E t \in Threads : SharedStep(t)
    BY Zenon DEF Next
  <2> QED
    BY <1>2, <1>3, <1>5, <1>6, <1>7, <2>1, <2>2
<1> QED
  BY <1>8 DEF On

-------------------------------------------------------------------------------
(* One thread at a time *)

\* How the state of one thread changes in a variable.
OnlyOf(t, f, new) == new = f \/ \E v : new = [f EXCEPT ![t] = v]

LEMMA OthersRest ==
    ASSUME TypeOK, NEW t \in Threads, (t \in Procs /\ RunTaskStep(t)) \/ SharedStep(t)
    PROVE  OthersStay(t)
<1>1. OnlyOf(t, pc, pc') /\ OnlyOf(t, sync, sync') /\ OnlyOf(t, arg, arg')
  <2>1. ASSUME \/ Return(t)
               \/ \E to : Continue(t, to)
               \/ UNCHANGED <<pc, sync, arg>>
               \/ \E to : Goto(t, to) /\ UNCHANGED <<sync, arg>>
        PROVE  OnlyOf(t, pc, pc') /\ OnlyOf(t, sync, sync') /\ OnlyOf(t, arg, arg')
    BY Zenon, <2>1 DEF OnlyOf, Return, Continue, Goto
  <2>2. CASE TakeTask(t)
    BY Zenon, <2>2 DEF TakeTask, OnlyOf, Goto
  <2>3. CASE ProcessFileLayoutServer(t) \/ SendBlockRead(t)
    BY Zenon, <2>3 DEF ProcessFileLayoutServer, SendBlockRead, OnlyOf, Goto, Return
  <2>4. CASE LookUpLayouts(t)
    BY Zenon, <2>4 DEF LookUpLayouts, OnlyOf, Goto, Continue
  <2>5. CASE LayoutServerBuilt(t) \/ RunSyncTask(t) \/ HashingPrepared(t) \/ WritingPrepared(t)
    BY Zenon, <2>1, <2>5 DEF LayoutServerBuilt, RunSyncTask, HashingPrepared, WritingPrepared
  <2>6. CASE \/ LockForHashing(t) \/ AddFileBlockHashTask(t) \/ LockForWriting(t)
             \/ AddFileDeleteTask(t)
    BY Zenon, <2>1, <2>6 DEF LockForHashing, AddFileBlockHashTask, LockForWriting,
       AddFileDeleteTask
  <2>7. CASE ReadFileBlock(t)
    BY Zenon, <2>1, <2>7 DEF ReadFileBlock
  <2>8. CASE FinishLayout(t) \/ SucceedSynchronization(t) \/ ClearPendingTasks(t)
    BY Zenon, <2>1, <2>8 DEF FinishLayout, SucceedSynchronization, ClearPendingTasks
  <2>9. CASE FailSynchronization(t)
    BY Zenon, <2>1, <2>9 DEF FailSynchronization
  <2>10. CASE LockForSending(t) \/ SendingDone(t)
    BY Zenon, <2>1, <2>10 DEF LockForSending, SendingDone
  <2>11. ASSUME NEW p, \/ RequestWriteFile(t, p) \/ RequestFinishWriteFile(t, p)
                       \/ SkipFile(t, p)
         PROVE  OnlyOf(t, pc, pc') /\ OnlyOf(t, sync, sync') /\ OnlyOf(t, arg, arg')
    BY Zenon, <2>1, <2>11 DEF RequestWriteFile, RequestFinishWriteFile, SkipFile, Visit
  <2>12. ASSUME NEW p, SendFileData(t, p)
         PROVE  OnlyOf(t, pc, pc') /\ OnlyOf(t, sync, sync') /\ OnlyOf(t, arg, arg')
    BY <2>1, <2>12, SendFileDataKeeps
  <2> QED
    BY <2>2, <2>3, <2>4, <2>5, <2>6, <2>7, <2>8, <2>9, <2>10, <2>11, <2>12
       DEF RunTaskStep, SharedStep, SendNextWriteRequests
<1> QED
  BY <1>1 DEF OnlyOf, OthersStay, TypeOK, ThreadsTypeOK, ArgsTypeOK

\* What a step of a processor, of the launcher or of the application leaves of Main.
LEMMA MainRests ==
    ASSUME TypeOK, [Next]_vars, ~ UpdateStep, ~ SharedStep(Main)
    PROVE  pc'[Main] = pc[Main] /\ sync'[Main] = sync[Main] /\ arg'[Main] = arg[Main]
<1>1. ASSUME NEW t \in Procs, RunTaskStep(t) \/ SharedStep(t)
      PROVE  pc'[Main] = pc[Main] /\ sync'[Main] = sync[Main] /\ arg'[Main] = arg[Main]
  BY <1>1, OthersRest, WorkersFacts DEF OthersStay
<1>2. Synchronize \/ Answer \/ UNCHANGED vars => UNCHANGED <<pc, sync, arg>>
  BY DEF Synchronize, Answer, threads, vars
<1>3. \/ Synchronize \/ Answer \/ UNCHANGED vars
      \/ \E p \in Procs : RunTaskStep(p) \/ SharedStep(p)
  BY Zenon DEF Next, Threads
<1> QED
  BY <1>1, <1>2, <1>3

-------------------------------------------------------------------------------
(* The answers and the end of an attempt *)

\* The launcher's layout is not finished by another thread.
LEMMA ClientWantKept ==
    ASSUME TypeOK, [Next]_vars, ~ Synchronize, ~ FinishLayout(Main), NEW x \in Syncs
    PROVE  "client" \in task[x].want => "client" \in task'[x].want
<1>1. ASSUME PhasesKept
      PROVE  task'[x].want = task[x].want
  BY <1>1 DEF PhasesKept
<1>2. ASSUME UNCHANGED task
      PROVE  task'[x].want = task[x].want
  BY <1>2
<1>3. ASSUME UpdateStep
      PROVE  task'[x].want = task[x].want
  <2>1. CASE CheckFinishedHashes \/ CheckFinishedWrite
    BY <2>1, StatusSet
  <2>2. CASE EnqueueSyncTask
    BY <2>2 DEF EnqueueSyncTask
  <2>3. CASE ~ (CheckFinishedHashes \/ CheckFinishedWrite \/ EnqueueSyncTask)
    BY <1>1, <1>3, <2>3, UpdateStepsKeep DEF UpdateStep
  <2> QED
    BY <2>1, <2>2, <2>3
<1>4. ASSUME NEW p \in Procs, RunTaskStep(p)
      PROVE  task'[x].want = task[x].want
  <2>1. CASE TakeTask(p)
    BY <2>1 DEF TakeTask
  <2>2. CASE HashingPrepared(p)
    BY <2>2, StatusSet
  <2>3. CASE WritingPrepared(p)
    BY <2>3, WritingPreparedSets
  <2>4. CASE AddFileDeleteTask(p)
    BY <1>1, <2>4, AddFileDeleteTaskKeeps
  <2>5. CASE ~ (\/ TakeTask(p) \/ HashingPrepared(p) \/ WritingPrepared(p)
                \/ AddFileDeleteTask(p))
    BY <1>1, <1>4, <2>5, ProcessorStepsKeep DEF RunTaskStep
  <2> QED
    BY <2>1, <2>2, <2>3, <2>4, <2>5
<1>5. ASSUME NEW t \in Threads, SharedStep(t)
      PROVE  "client" \in task[x].want => "client" \in task'[x].want
  <2>1. CASE FinishLayout(t)
    <3>1. t \in Procs /\ t # Main
      BY <2>1, ThreadsAssumption DEF Threads
    <3>2. PICK s, v : /\ v = task[s].want \ {"server"} /\ s \in Syncs
                      /\ task' = [task EXCEPT ![s].want = v]
      <4>1. task' = [task EXCEPT ![sync[t]].want =
               task[sync[t]].want \ {IF t = Main THEN "client" ELSE "server"}]
        BY Zenon, <2>1 DEF FinishLayout
      <4>2. sync[t] \in Syncs
        BY <2>1, WorkersFacts DEF FinishLayout
      <4> QED
        BY <3>1, <4>1, <4>2
    <3>3. /\ x # s => task'[x].want = task[x].want
          /\ task'[s].want = v
      BY <3>2, OneWantSet
    <3> QED
      BY <3>2, <3>3
  <2>2. CASE SucceedSynchronization(t) \/ FailSynchronization(t)
    BY <2>2, StatusSet
  <2>3. CASE ClearPendingTasks(t)
    BY <2>3 DEF ClearPendingTasks
  <2>4. CASE SendNextWriteRequests(t)
    BY <1>1, <2>4, SendStepsKeep, SendFileDataKeeps DEF SendNextWriteRequests
  <2> QED
    BY <1>5, <2>1, <2>2, <2>3, <2>4 DEF SharedStep
<1>6. Answer \/ UNCHANGED vars => UNCHANGED task
  BY DEF Answer, vars
<1>7. \/ UpdateStep \/ Answer \/ UNCHANGED vars
      \/ \E p \in Procs : RunTaskStep(p)
      \/ \E t \in Threads : SharedStep(t)
  BY Zenon DEF Next
<1> QED
  BY <1>2, <1>3, <1>4, <1>5, <1>6, <1>7

LEMMA NextAnswer ==
    ASSUME TypeOK, AnswerInHand, [Next]_vars
    PROVE  AnswerInHand'
<1> DEFINE s == sync[Main]
<1>1. ASSUME pc'[Main] \notin {"layoutDone", "enqueue"}
      PROVE  AnswerInHand'
  BY <1>1 DEF AnswerInHand
<1>2. CASE Synchronize
  BY <1>2 DEF Synchronize, threads, AnswerInHand
<1>3. CASE ~ Synchronize /\ ~ UpdateStep /\ ~ SharedStep(Main)
  <2>1. pc'[Main] = pc[Main] /\ sync'[Main] = sync[Main]
    BY <1>3, MainRests
  <2>2. pc[Main] # "idle" => sync[Main] \in Syncs
    BY WorkersFacts
  <2>3. \A x \in Syncs : /\ "client" \in task[x].want => "client" \in task'[x].want
                         /\ task'[x].status = "pending" => task[x].status = "pending"
    BY <1>3, AttemptsGoOn, ClientWantKept, WorkersFacts DEF SharedStep
  <2> QED
    BY <2>1, <2>2, <2>3 DEF AnswerInHand
<1>4. CASE ProcessResponseFileLayout
  <2>1. PhasesKept /\ s \in Syncs
    BY <1>4, UpdateStepsKeep, WorkersFacts DEF ProcessResponseFileLayout, Applies
  <2>2. \/ Return(Main)
        \/ Continue(Main, "layoutDone") /\ "client" \in task[s].want
    BY <1>4 DEF ProcessResponseFileLayout
  <2> QED
    BY <1>1, <2>1, <2>2, ThreadMoves, WorkersFacts DEF AnswerInHand, PhasesKept
<1>5. CASE CheckFinishedHashes
  <2>1. s \in Syncs
    BY <1>5, WorkersFacts DEF CheckFinishedHashes
  <2>2. \/ Return(Main)
        \/ Continue(Main, "enqueue") /\ task' = [task EXCEPT ![s].status = "prepareTasksWriting"]
    BY <1>5 DEF CheckFinishedHashes
  <2>3. PICK k : k = s
    OBVIOUS
  <2>4. task' = [task EXCEPT ![k].status = "prepareTasksWriting"] =>
           task'[k].status = "prepareTasksWriting"
    BY Zenon, <2>1, <2>3, TaskFieldSet
  <2> QED
    BY <1>1, <2>1, <2>2, <2>3, <2>4, ThreadMoves, WorkersFacts DEF AnswerInHand
<1>6. CASE \/ SendQueuedMessages \/ ReceiveMessage \/ ProcessResponseFileBlockHashes
           \/ EnqueueSyncTask \/ ProcessResponseDeleteFile \/ ProcessResponseWriteFile
           \/ ProcessFileDataReceived \/ ProcessResponseFinishWriteFile \/ CheckFinishedWrite
  <2>1. pc'[Main] \notin {"layoutDone", "enqueue"}
    <3>1. CASE SendQueuedMessages \/ ReceiveMessage
      <4>1. pc[Main] = "idle" /\ (UNCHANGED pc \/ Goto(Main, "apply"))
        BY <3>1 DEF SendQueuedMessages, ReceiveMessage, threads
      <4> QED
        BY <4>1, WorkersFacts DEF TypeOK, ThreadsTypeOK, Goto
    <3>2. CASE ~ (SendQueuedMessages \/ ReceiveMessage)
      <4>1. \/ Return(Main)
            \/ \E to \in {"checkHashes", "fail", "checkWrite", "sendLock", "succeed"} :
                  Continue(Main, to)
        BY <1>6, <3>2
           DEF ProcessResponseFileBlockHashes, EnqueueSyncTask, ProcessResponseDeleteFile,
               ProcessResponseWriteFile, ProcessFileDataReceived,
               ProcessResponseFinishWriteFile, CheckFinishedWrite
      <4> QED
        BY <4>1, ThreadMoves, WorkersFacts
    <3> QED
      BY <3>1, <3>2
  <2> QED
    BY <1>1, <2>1
<1>7. CASE SharedStep(Main)
  <2>1. pc'[Main] \notin {"layoutDone", "enqueue"}
    <3>1. CASE \/ FinishLayout(Main) \/ SucceedSynchronization(Main)
               \/ FailSynchronization(Main) \/ ClearPendingTasks(Main)
               \/ SendingDone(Main) \/ LockForSending(Main)
      <4>1. \/ Return(Main)
            \/ Continue(Main, "clear")
            \/ Goto(Main, "send")
        BY <3>1 DEF FinishLayout, SucceedSynchronization, FailSynchronization,
           ClearPendingTasks, SendingDone, LockForSending
      <4> QED
        BY <4>1, WorkersFacts DEF TypeOK, ThreadsTypeOK, Return, Continue, Goto
    <3>2. ASSUME NEW p, \/ RequestWriteFile(Main, p) \/ RequestFinishWriteFile(Main, p)
                        \/ SkipFile(Main, p) \/ SendFileData(Main, p)
          PROVE  pc'[Main] \notin {"layoutDone", "enqueue"}
      <4>1. pc[Main] = "send" /\ (UNCHANGED pc \/ Goto(Main, "fail"))
        BY Zenon, <3>2 DEF RequestWriteFile, RequestFinishWriteFile, SkipFile, SendFileData, Visit
      <4> QED
        BY <4>1, WorkersFacts DEF TypeOK, ThreadsTypeOK, Goto
    <3> QED
      BY <1>7, <3>1, <3>2 DEF SharedStep, SendNextWriteRequests
  <2> QED
    BY <1>1, <2>1
<1> QED
  BY <1>2, <1>3, <1>4, <1>5, <1>6, <1>7 DEF UpdateStep

\* A processor finds nothing to write when it has prepared writing.
LEMMA OnlyThenSucceeds ==
    ASSUME TypeOK, NEW t \in Procs, RunTaskStep(t) \/ SharedStep(t), ~ WritingPrepared(t)
    PROVE  pc'[t] # "succeed"
<1>1. t \in Threads
  BY WorkersFacts
<1>2. ASSUME \/ Return(t)
             \/ \E to : to # "succeed" /\ (Continue(t, to) \/ Goto(t, to))
             \/ UNCHANGED pc /\ pc[t] # "succeed"
      PROVE  pc'[t] # "succeed"
  BY <1>1, <1>2 DEF TypeOK, ThreadsTypeOK, Return, Continue, Goto
<1>3. CASE TakeTask(t)
  <2>1. PICK i \in DOMAIN pending : Goto(t, pending[i].kind)
    BY Zenon, <1>3 DEF TakeTask
  <2> QED
    BY <1>2, <2>1, PendingFacts
<1>4. CASE ProcessFileLayoutServer(t) \/ SendBlockRead(t)
  BY <1>2, <1>4 DEF ProcessFileLayoutServer, SendBlockRead
<1>5. CASE LayoutServerBuilt(t) \/ RunSyncTask(t) \/ HashingPrepared(t)
  BY <1>2, <1>5 DEF LayoutServerBuilt, RunSyncTask, HashingPrepared
<1>6. CASE LookUpLayouts(t)
  BY <1>2, <1>6 DEF LookUpLayouts
<1>7. CASE \/ LockForHashing(t) \/ AddFileBlockHashTask(t) \/ LockForWriting(t)
           \/ AddFileDeleteTask(t)
  BY <1>2, <1>7 DEF LockForHashing, AddFileBlockHashTask, LockForWriting, AddFileDeleteTask
<1>8. CASE ReadFileBlock(t)
  BY <1>2, <1>8 DEF ReadFileBlock
<1>9. CASE \/ FinishLayout(t) \/ SucceedSynchronization(t) \/ ClearPendingTasks(t)
           \/ FailSynchronization(t)
  BY <1>2, <1>9 DEF FinishLayout, SucceedSynchronization, ClearPendingTasks,
     FailSynchronization
<1>10. CASE LockForSending(t) \/ SendingDone(t)
  BY <1>2, <1>10 DEF LockForSending, SendingDone
<1>11. ASSUME NEW p, \/ RequestWriteFile(t, p) \/ RequestFinishWriteFile(t, p)
                     \/ SkipFile(t, p) \/ SendFileData(t, p)
       PROVE  pc'[t] # "succeed"
  <2>1. pc[t] = "send" /\ (UNCHANGED pc \/ Goto(t, "fail"))
    BY Zenon, <1>11 DEF RequestWriteFile, RequestFinishWriteFile, SkipFile, SendFileData, Visit
  <2> QED
    BY <1>2, <2>1
<1> QED
  BY <1>3, <1>4, <1>5, <1>6, <1>7, <1>8, <1>9, <1>10, <1>11
     DEF RunTaskStep, SharedStep, SendNextWriteRequests

LEMMA NextSucceeds ==
    ASSUME TypeOK, CountsInv, AttemptInv, SucceedsItself, [Next]_vars, \A p, q \in Procs : p = q
    PROVE  SucceedsItself'
<1> SUFFICES ASSUME NEW p \in Procs, pc'[p] = "succeed"
             PROVE  /\ taskSync' = sync'[p]
                    /\ task'[sync'[p]].status = "processWriting"
                    /\ NothingLeft(task'[sync'[p]])
                    /\ pc'[Main] \in {"idle", "apply", "enqueue", "layoutDone"}
  BY DEF SucceedsItself
<1> DEFINE On == /\ taskSync' = sync'[p]
                 /\ task'[sync'[p]].status = "processWriting"
                 /\ NothingLeft(task'[sync'[p]])
                 /\ pc'[Main] \in {"idle", "apply", "enqueue", "layoutDone"}
<1>1. p \in Threads /\ Main \in Threads /\ p # Main
  BY WorkersFacts
<1>2. CASE WritingPrepared(p)
  <2>1. /\ pc[p] = "delete" /\ sync[p] \in Syncs /\ UNCHANGED taskSync
        /\ task'[sync[p]].status = "processWriting"
    BY <1>2, WritingPreparedSets
  <2>2. taskSync = sync[p] /\ Stage({"prepareTasksWriting"})
    BY <1>1, <2>1, WorkersFacts DEF AttemptInv, PreparesAttempt, WritePlaces, Stage
  <2>3. pc[Main] \in {"idle", "apply", "enqueue", "layoutDone"}
    BY <2>2 DEF AttemptInv, UpdateInTime, Stage, Harmless
  <2>4. Continue(p, IF NothingLeft(task'[sync[p]]) THEN "succeed" ELSE "sendLock")
    BY <1>2 DEF WritingPrepared
  <2>5. NothingLeft(task'[sync[p]]) /\ sync'[p] = sync[p] /\ pc'[Main] = pc[Main]
    BY <1>1, <2>4, ThreadMoves DEF OthersStay
  <2> QED
    BY <2>1, <2>2, <2>3, <2>5
<1>3. CASE (RunTaskStep(p) \/ SharedStep(p)) /\ ~ WritingPrepared(p)
  BY <1>3, OnlyThenSucceeds
<1>4. ASSUME pc[p] = "succeed", sync'[p] = sync[p], UNCHANGED taskSync, StatusQuiet, Shrinks,
             task'[taskSync].status \notin Over, DeletesKept,
             pc'[Main] \in {"idle", "apply", "enqueue", "layoutDone"}
      PROVE  On
  <2>1. /\ taskSync = sync[p] /\ sync[p] \in Syncs
        /\ task[sync[p]].status = "processWriting" /\ NothingLeft(task[sync[p]])
    BY <1>1, <1>4, WorkersFacts DEF SucceedsItself
  <2> QED
    BY <1>4, <2>1 DEF StatusQuiet, Shrinks, DeletesKept, NothingLeft, Over
<1> HIDE DEF On
<1>5. ASSUME UNCHANGED <<taskSync, task, pc, sync>>
      PROVE  On
  BY <1>5 DEF On, SucceedsItself
<1>6. ASSUME UpdateStep \/ SharedStep(Main)
      PROVE  On
  <2>1. OthersStay(Main)
    <3>1. ASSUME UpdateStep
          PROVE  OthersStay(Main)
      <4>1. /\ OnlyOf(Main, pc, pc')
            /\ OnlyOf(Main, sync, sync')
            /\ OnlyOf(Main, arg, arg')
        BY Zenon, <3>1
           DEF UpdateStep, SendQueuedMessages, ReceiveMessage, ProcessResponseFileLayout,
               ProcessResponseFileBlockHashes, CheckFinishedHashes, EnqueueSyncTask,
               ProcessResponseDeleteFile, ProcessResponseWriteFile, ProcessFileDataReceived,
               ProcessResponseFinishWriteFile, CheckFinishedWrite, threads, OnlyOf, Return,
               Continue, Goto
      <4> QED
        BY <4>1 DEF OnlyOf, OthersStay, TypeOK, ThreadsTypeOK, ArgsTypeOK
    <3> QED
      BY <1>1, <1>6, <3>1, OthersRest
  <2>2. pc[p] = "succeed" /\ sync'[p] = sync[p]
    BY <1>1, <2>1 DEF OthersStay
  <2>3. /\ taskSync = sync[p] /\ sync[p] \in Syncs /\ taskSync # None
        /\ task[taskSync].status = "processWriting"
        /\ task[taskSync].deletes = {} /\ DOMAIN task[taskSync].writes = {}
        /\ pc[Main] \in {"idle", "apply", "enqueue", "layoutDone"}
    BY <1>1, <2>2, WorkersFacts DEF SucceedsItself, NothingLeft
  <2>4. pc[Main] # "idle" => sync[Main] = taskSync
    BY <2>3 DEF AttemptInv, UpdateInTime
  <2>5. CASE SendQueuedMessages
    BY <1>5, <2>5 DEF SendQueuedMessages, threads, client
  <2>6. CASE ReceiveMessage
    <3>1. UNCHANGED <<taskSync, task>>
      BY <2>6 DEF ReceiveMessage, client
    <3>2. pc'[Main] \in {"idle", "apply"}
      <4>1. pc[Main] = "idle" /\ (UNCHANGED pc \/ Goto(Main, "apply"))
        BY <2>6 DEF ReceiveMessage, threads
      <4> QED
        BY <1>1, <4>1 DEF TypeOK, ThreadsTypeOK, Goto
    <3> QED
      BY <1>4, <2>2, <2>3, <3>1, <3>2 DEF StatusQuiet, Shrinks, DeletesKept, Over
  <2>7. CASE ProcessResponseFileLayout
    <3>1. UNCHANGED taskSync /\ PhasesKept /\ DeletesKept
      BY <2>7, UpdateStepsKeep
    <3>2. StatusQuiet /\ Shrinks
      BY <2>7, OtherStepsCount
    <3>3. pc'[Main] \in {"idle", "layoutDone"}
      BY <1>1, <2>7, ThreadMoves DEF ProcessResponseFileLayout
    <3> QED
      BY <1>4, <2>2, <2>3, <3>1, <3>2, <3>3 DEF PhasesKept, Over
  <2>8. ~ (ProcessResponseFileBlockHashes \/ CheckFinishedHashes)
    BY <2>3 DEF ProcessResponseFileBlockHashes, Applies, CheckFinishedHashes, TakesHashes,
       AttemptInv, UpdateInTime
  <2>9. CASE \/ ProcessResponseDeleteFile \/ ProcessResponseWriteFile
             \/ ProcessFileDataReceived \/ ProcessResponseFinishWriteFile
    <3>1. Return(Main) /\ UNCHANGED <<task, taskSync>>
      <4>1. pc[Main] = "apply"
        BY <2>9 DEF ProcessResponseDeleteFile, ProcessResponseWriteFile,
           ProcessFileDataReceived, ProcessResponseFinishWriteFile, Applies
      <4>2. task[sync[Main]].deletes = {} /\ \A q, status : ~ Writing(sync[Main], q, status)
        BY <2>3, <2>4, <4>1 DEF Writing
      <4> QED
        BY <2>9, <4>2 DEF ProcessResponseDeleteFile, ProcessResponseWriteFile,
           ProcessFileDataReceived, ProcessResponseFinishWriteFile, client
    <3>2. pc'[Main] = "idle"
      BY <1>1, <3>1, ThreadMoves
    <3> QED
      BY <1>4, <2>2, <2>3, <3>1, <3>2 DEF StatusQuiet, Shrinks, DeletesKept, Over
  <2>10. CASE EnqueueSyncTask
    <3>1. Return(Main) /\ UNCHANGED <<task, taskSync>>
      BY <2>10 DEF EnqueueSyncTask, client
    <3>2. pc'[Main] = "idle"
      BY <1>1, <3>1, ThreadMoves
    <3> QED
      BY <1>4, <2>2, <2>3, <3>1, <3>2 DEF StatusQuiet, Shrinks, DeletesKept, Over
  <2>11. CASE FinishLayout(Main)
    <3>1. pc'[Main] = "idle" /\ UNCHANGED taskSync
      BY <1>1, <2>11, ThreadMoves DEF FinishLayout, client
    <3>2. StatusQuiet /\ Shrinks
      BY <1>1, <2>11, OtherStepsCount
    <3>3. \A x \in Syncs : task'[x].deletes = task[x].deletes /\ task'[x].status = task[x].status
      <4>1. PICK s, v : s \in Syncs /\ task' = [task EXCEPT ![s].want = v]
        <5>1. task' = [task EXCEPT ![sync[Main]].want =
                 task[sync[Main]].want \ {IF Main = Main THEN "client" ELSE "server"}]
          BY Zenon, <2>11 DEF FinishLayout
        <5>2. sync[Main] \in Syncs
          BY <1>1, <2>11, WorkersFacts DEF FinishLayout
        <5> QED
          BY <5>1, <5>2
      <4> QED
        BY <4>1, OneWantSet
    <3> QED
      BY <1>4, <2>2, <2>3, <3>1, <3>2, <3>3 DEF DeletesKept, Over
  <2>12. ~ \/ CheckFinishedWrite \/ SucceedSynchronization(Main) \/ FailSynchronization(Main)
           \/ ClearPendingTasks(Main) \/ SendNextWriteRequests(Main)
    BY <2>3 DEF CheckFinishedWrite, SucceedSynchronization, FailSynchronization,
       ClearPendingTasks, SendNextWriteRequests, LockForSending, RequestWriteFile,
       RequestFinishWriteFile, SendFileData, SkipFile, SendingDone, Visit
  <2> QED
    BY <1>6, <2>5, <2>6, <2>7, <2>8, <2>9, <2>10, <2>11, <2>12 DEF UpdateStep, SharedStep
<1>7. CASE Synchronize
  <2>1. /\ pc[p] = "succeed" /\ pc[Main] = "idle"
        /\ taskSync # None => task[taskSync].status = "failure"
    BY <1>7 DEF Synchronize, threads
  <2> QED
    BY <1>1, <2>1, WorkersFacts DEF SucceedsItself
<1>8. Answer \/ UNCHANGED vars => UNCHANGED <<taskSync, task, pc, sync>>
  BY DEF Answer, vars, client, threads
<1>9. \/ Synchronize \/ UpdateStep \/ Answer \/ UNCHANGED vars \/ SharedStep(Main)
      \/ RunTaskStep(p) \/ SharedStep(p)
  <2>1. \/ Synchronize \/ UpdateStep \/ Answer \/ UNCHANGED vars
        \/ \E q \in Procs : RunTaskStep(q)
        \/ \E t \in Threads : SharedStep(t)
    BY Zenon DEF Next
  <2> QED
    BY <2>1 DEF Threads
<1> QED
  BY <1>2, <1>3, <1>5, <1>6, <1>7, <1>8, <1>9 DEF On

-------------------------------------------------------------------------------
(* The launcher's layout is asked for *)

LEMMA SendFileDataSends ==
    ASSUME TypeOK, NEW t \in Threads, NEW p, SendFileData(t, p)
    PROVE  Range(queueSend) \subseteq Range(queueSend')
<1> DEFINE s == sync[t]
           blocks == task[s].writes[p].blocks
           reads(S) == IF ServerDir[p] = <<>> THEN {} ELSE S
           sends(S) ==
              {i \in {i \in DOMAIN blocks : \A j \in DOMAIN blocks \ S :
                        blocks[j] = "pending" => i < j} : blocks[i] = "dataReady"}
                \cup (S \ reads(S))
<1>1. pc[t] # "idle" /\ p \in DOMAIN task[s].writes
  BY Zenon DEF SendFileData, Visit, Writing
<1>2. s \in Syncs /\ IsSyncTask(task[s])
  BY <1>1, SyncOfBusyThread
<1>3. p \in DOMAIN ServerDir /\ DOMAIN blocks \subseteq ServerBlocks(p)
  BY <1>1, <1>2 DEF IsSyncTask, IsWriteTask, IsMap
<1>4. PICK S \in Started(blocks) : \E q \in Ascending(sends(S)) :
         queueSend' = queueSend \o [n \in DOMAIN q |-> DataRequest(s, p, q[n])]
  BY Zenon DEF SendFileData
<1>5. sends(S) \subseteq ServerBlocks(p)
  BY <1>3 DEF Started
<1>6. PICK D : D \subseteq ServerBlocks(p) /\ \E q \in Ascending(D) :
         queueSend' = queueSend \o [n \in DOMAIN q |-> DataRequest(s, p, q[n])]
  BY <1>4, <1>5
<1>7. PICK q \in Ascending(D) :
         queueSend' = queueSend \o [n \in DOMAIN q |-> DataRequest(s, p, q[n])]
  BY <1>6
<1> DEFINE u == [n \in DOMAIN q |-> DataRequest(s, p, q[n])]
<1>8. u \in Seq(Requests)
  <2>1. /\ IsFiniteSet(D) /\ Cardinality(D) \in Nat
        /\ DOMAIN q = 1 .. Cardinality(D) /\ \A n \in DOMAIN q : q[n] \in D
    BY <1>3, <1>6, ServerDirProperties, FS_Subset, FS_CardinalityType, AscendingProperties
  <2>2. \A i \in D : DataRequest(s, p, i) \in Requests
    BY <1>2, <1>3, <1>6, QueueMembers
  <2>3. u \in [1 .. Cardinality(D) -> Requests]
    BY <2>1, <2>2
  <2> QED
    BY <2>1, <2>3, SeqDef
<1> HIDE DEF u
<1>9. queueSend' = queueSend \o u /\ queueSend \in Seq(Requests)
  BY <1>7 DEF u, TypeOK, QueuesTypeOK
<1> QED
  BY <1>8, <1>9, RangeConcatenation

\* A request waits in the queue until Update() sends it.
LEMMA QueueSendGrows ==
    ASSUME TypeOK, [Next]_vars, ~ SendQueuedMessages
    PROVE  Range(queueSend) \subseteq Range(queueSend')
<1>1. queueSend \in Seq(Range(queueSend))
  BY SeqOfRange DEF TypeOK, QueuesTypeOK
<1>2. ASSUME \/ UNCHANGED queueSend
             \/ \E e : queueSend' = Append(queueSend, e)
      PROVE  Range(queueSend) \subseteq Range(queueSend')
  <2>1. \A e : Range(queueSend) \subseteq Range(Append(queueSend, e))
    BY <1>1, AppendTyped
  <2> QED
    BY <1>2, <2>1
<1>3. ASSUME UpdateStep
      PROVE  UNCHANGED queueSend
  BY <1>3 DEF UpdateStep, ReceiveMessage, ProcessResponseFileLayout,
     ProcessResponseFileBlockHashes, CheckFinishedHashes, EnqueueSyncTask,
     ProcessResponseDeleteFile, ProcessResponseWriteFile, ProcessFileDataReceived,
     ProcessResponseFinishWriteFile, CheckFinishedWrite, queues
<1>4. ASSUME NEW p \in Procs, RunTaskStep(p)
      PROVE  UNCHANGED queueSend \/ \E e : queueSend' = Append(queueSend, e)
  <2>1. CASE AddFileBlockHashTask(p) \/ AddFileDeleteTask(p)
    BY Zenon, <2>1 DEF AddFileBlockHashTask, AddFileDeleteTask
  <2>2. CASE ~ (AddFileBlockHashTask(p) \/ AddFileDeleteTask(p))
    BY Zenon, <1>4, <2>2 DEF RunTaskStep, TakeTask, ProcessFileLayoutServer, LayoutServerBuilt,
       RunSyncTask, LookUpLayouts, LockForHashing, HashingPrepared, LockForWriting,
       WritingPrepared, ReadFileBlock, SendBlockRead, queues
  <2> QED
    BY <2>1, <2>2
<1>5. ASSUME NEW t \in Threads, SharedStep(t)
      PROVE  Range(queueSend) \subseteq Range(queueSend')
  <2>1. CASE SendNextWriteRequests(t)
    <3>1. ASSUME NEW p, \/ RequestWriteFile(t, p) \/ RequestFinishWriteFile(t, p)
                        \/ SkipFile(t, p)
          PROVE  UNCHANGED queueSend \/ \E e : queueSend' = Append(queueSend, e)
      BY Zenon, <3>1 DEF RequestWriteFile, RequestFinishWriteFile, SkipFile
    <3>2. ASSUME LockForSending(t) \/ SendingDone(t)
          PROVE  UNCHANGED queueSend
      BY <3>2 DEF LockForSending, SendingDone, queues
    <3> QED
      BY <1>2, <2>1, <3>1, <3>2, SendFileDataSends DEF SendNextWriteRequests
  <2>2. CASE ~ SendNextWriteRequests(t)
    <3>1. UNCHANGED queueSend
      BY <1>5, <2>2 DEF SharedStep, FinishLayout, SucceedSynchronization, FailSynchronization,
         ClearPendingTasks, queues
    <3> QED
      BY <1>2, <3>1
  <2> QED
    BY <2>1, <2>2
<1>6. ASSUME Synchronize \/ Answer \/ UNCHANGED vars
      PROVE  UNCHANGED queueSend \/ \E e : queueSend' = Append(queueSend, e)
  BY Zenon, <1>6 DEF Synchronize, Answer, vars, queues
<1>7. \/ UpdateStep \/ Synchronize \/ Answer \/ UNCHANGED vars
      \/ \E p \in Procs : RunTaskStep(p)
      \/ \E t \in Threads : SharedStep(t)
  BY Zenon DEF Next
<1> QED
  BY <1>2, <1>3, <1>4, <1>5, <1>6, <1>7

\* Requests the launcher has, and answers Update() has not looked at.
LEMMA TravelRests ==
    ASSUME [Next]_vars, ~ SendQueuedMessages, ~ ReceiveMessage, ~ Answer
    PROVE  UNCHANGED <<wire, queueReceived>>
<1>1. ASSUME UpdateStep
      PROVE  UNCHANGED <<wire, queueReceived>>
  BY <1>1 DEF UpdateStep, ProcessResponseFileLayout,
     ProcessResponseFileBlockHashes, CheckFinishedHashes, EnqueueSyncTask,
     ProcessResponseDeleteFile, ProcessResponseWriteFile, ProcessFileDataReceived,
     ProcessResponseFinishWriteFile, CheckFinishedWrite, queues, launcher
<1>2. ASSUME NEW p \in Procs, RunTaskStep(p)
      PROVE  UNCHANGED <<wire, queueReceived>>
  <2>1. /\ UNCHANGED launcher
        /\ UNCHANGED queues \/ UNCHANGED queueReceived
    BY Zenon, <1>2 DEF RunTaskStep, TakeTask, ProcessFileLayoutServer, LayoutServerBuilt,
       RunSyncTask, LookUpLayouts, LockForHashing, AddFileBlockHashTask, HashingPrepared,
       LockForWriting, AddFileDeleteTask, WritingPrepared, ReadFileBlock, SendBlockRead
  <2> QED
    BY <2>1 DEF launcher, queues
<1>3. ASSUME NEW t \in Threads, SharedStep(t)
      PROVE  UNCHANGED <<wire, queueReceived>>
  <2>1. /\ UNCHANGED launcher
        /\ UNCHANGED queues \/ UNCHANGED queueReceived
    BY Zenon, <1>3 DEF SharedStep, FinishLayout, SucceedSynchronization, FailSynchronization,
       ClearPendingTasks, SendNextWriteRequests, LockForSending, RequestWriteFile,
       RequestFinishWriteFile, SendFileData, SkipFile, SendingDone, Visit
  <2> QED
    BY <2>1 DEF launcher, queues
<1>4. ASSUME Synchronize \/ UNCHANGED vars
      PROVE  UNCHANGED <<wire, queueReceived>>
  BY <1>4 DEF Synchronize, vars, queues, launcher
<1>5. \/ UpdateStep \/ Synchronize \/ UNCHANGED vars
      \/ \E p \in Procs : RunTaskStep(p)
      \/ \E t \in Threads : SharedStep(t)
  BY Zenon DEF Next
<1> QED
  BY <1>1, <1>2, <1>3, <1>4, <1>5

\* A request on its way stays on its way.
LEMMA UnderwayKept ==
    ASSUME TypeOK, [Next]_vars, NEW r, r \in Outstanding,
           ~ ReceiveMessage,
           pc[Main] = "apply" /\ arg[Main].req = r =>
              arg'[Main] = arg[Main] /\ pc'[Main] = "apply"
    PROVE  r \in Outstanding'
<1>1. \/ r \in Range(queueSend) \/ r \in wire
      \/ \E m \in Range(queueReceived) : m.req = r
      \/ pc[Main] = "apply" /\ arg[Main].req = r
  BY DEF Outstanding
<1>2. ASSUME \/ r \in Range(queueSend') \/ r \in wire'
             \/ \E m \in Range(queueReceived') : m.req = r
             \/ pc'[Main] = "apply" /\ arg'[Main].req = r
      PROVE  r \in Outstanding'
  BY <1>2 DEF Outstanding
<1>3. CASE pc[Main] = "apply" /\ arg[Main].req = r
  BY <1>2, <1>3
<1>4. CASE SendQueuedMessages
  <2>1. pc[Main] = "idle" /\ UNCHANGED queueReceived /\ wire' = wire \cup Range(queueSend)
    BY <1>4 DEF SendQueuedMessages
  <2> QED
    BY <1>1, <1>2, <2>1
<1>5. CASE Answer
  <2>1. PICK m, a :
           /\ m \in wire /\ wire' = wire \ {m} /\ a.req = m
           /\ queueReceived' = Append(queueReceived, a) /\ UNCHANGED queueSend
    BY <1>5 DEF Answer
  <2>2. Range(queueReceived') = Range(queueReceived) \cup {a}
    BY <2>1, AppendTyped DEF TypeOK, QueuesTypeOK
  <2> QED
    BY <1>1, <1>2, <1>3, <2>1, <2>2
<1>6. CASE ~ SendQueuedMessages /\ ~ Answer
  <2>1. UNCHANGED <<wire, queueReceived>> /\ Range(queueSend) \subseteq Range(queueSend')
    BY <1>6, TravelRests, QueueSendGrows
  <2> QED
    BY <1>1, <1>2, <1>3, <2>1
<1> QED
  BY <1>4, <1>5, <1>6

\* Update() takes an answer it has waited for: that one, or another.
LEMMA ReceiveAsked ==
    ASSUME TypeOK, AttemptInv, ReceiveMessage, Stage({"pending"}),
           LayoutRequest(taskSync) \in Outstanding
    PROVE  LayoutRequest(taskSync) \in Outstanding'
<1> DEFINE r == LayoutRequest(taskSync)
           m == Head(queueReceived)
<1>1. /\ pc[Main] = "idle" /\ queueReceived # <<>> /\ queueReceived' = Tail(queueReceived)
      /\ UNCHANGED <<queueSend, wire, taskSync>>
  BY DEF ReceiveMessage, client, launcher
<1>2. \A n \in Range(queueReceived) : n = m \/ n \in Range(queueReceived')
  <2>1. queueReceived \in Seq(Range(queueReceived))
    BY DEF TypeOK, QueuesTypeOK
  <2> QED
    BY <1>1, <2>1, HeadOrTail
<1>3. CASE \E n \in Range(queueReceived) : n.req = r /\ n # m
  BY <1>1, <1>2, <1>3 DEF Outstanding
<1>4. CASE r \in Range(queueSend) \/ r \in wire
  BY <1>1, <1>4 DEF Outstanding
<1>5. CASE m.req = r
  <2>1. m.req.kind = "layout"
    BY <1>5 DEF LayoutRequest
  <2>2. taskSync # None /\ task[taskSync].status \in Accepts(m.req.kind)
    BY <2>1 DEF Stage, Accepts
  <2>3. Goto(Main, "apply") /\ arg' = [arg EXCEPT ![Main] = m]
    BY Zenon, <2>2 DEF ReceiveMessage
  <2>4. pc'[Main] = "apply" /\ arg'[Main] = m
    BY <2>3, WorkersFacts DEF TypeOK, ThreadsTypeOK, ArgsTypeOK, Goto
  <2>5. LayoutRequest(taskSync)' = r
    BY <1>1 DEF LayoutRequest
  <2> QED
    BY <1>5, <2>4, <2>5 DEF Outstanding
<1> QED
  BY <1>1, <1>3, <1>4, <1>5 DEF Outstanding

LEMMA NextAsked ==
    ASSUME TypeOK, AttemptInv, LayoutAsked, [Next]_vars
    PROVE  LayoutAsked'
<1> SUFFICES ASSUME Stage({"pending"})', "client" \in task'[taskSync'].want
             PROVE  LayoutRequest(taskSync') \in Outstanding' \/ pc'[Main] = "layoutDone"
  BY DEF LayoutAsked
<1>1. CASE Synchronize
  <2>1. taskSync' = syncs + 1 /\ queueSend' = Append(queueSend, LayoutRequest(syncs + 1))
    BY <1>1 DEF Synchronize
  <2>2. Range(queueSend') = Range(queueSend) \cup {LayoutRequest(syncs + 1)}
    <3>1. queueSend \in Seq(Range(queueSend))
      BY SeqOfRange DEF TypeOK, QueuesTypeOK
    <3> QED
      BY <2>1, <3>1, AppendTyped
  <2> QED
    BY <2>1, <2>2 DEF Outstanding
<1>2. CASE ~ Synchronize
  <2> DEFINE s == taskSync
             r == LayoutRequest(s)
  <2>1. /\ taskSync' = taskSync /\ s \in Syncs /\ Stage({"pending"})
        /\ "client" \in task[s].want /\ "client" \in task'[s].want
    BY <1>2, AttemptsGoOn, WorkersFacts DEF Stage
  <2>2. pc[Main] # "idle" => sync[Main] = s
    BY <2>1 DEF AttemptInv, UpdateInTime, Stage
  <2>3. CASE pc[Main] = "layoutDone"
    <3>1. ~ FinishLayout(Main)
      <4>1. SUFFICES ASSUME FinishLayout(Main)
                     PROVE  "client" \notin task'[s].want
        BY <2>1
      <4>2. task' = [task EXCEPT ![s].want = task[s].want \ {"client"}]
        <5>1. task' = [task EXCEPT ![sync[Main]].want =
                 task[sync[Main]].want \ {IF Main = Main THEN "client" ELSE "server"}]
          BY Zenon, <4>1 DEF FinishLayout
        <5> QED
          BY <2>2, <2>3, <5>1
      <4> QED
        <5>1. PICK k, v : k \in Syncs /\ k = s /\ v = task[s].want \ {"client"}
          BY <2>1
        <5>2. task' = [task EXCEPT ![k].want = v]
          BY <4>2, <5>1
        <5>3. task'[k].want = v
          BY Zenon, <5>1, <5>2, OneWantSet
        <5> QED
          BY <5>1, <5>3
    <3>2. ~ UpdateStep /\ ~ SharedStep(Main)
      <4>1. ~ UpdateStep
        BY <2>3 DEF UpdateStep, SendQueuedMessages, ReceiveMessage, ProcessResponseFileLayout,
           ProcessResponseFileBlockHashes, CheckFinishedHashes, EnqueueSyncTask,
           ProcessResponseDeleteFile, ProcessResponseWriteFile, ProcessFileDataReceived,
           ProcessResponseFinishWriteFile, CheckFinishedWrite, Applies
      <4>2. ~ SharedStep(Main)
        BY <2>3, <3>1 DEF SharedStep, SucceedSynchronization, FailSynchronization,
           ClearPendingTasks, SendNextWriteRequests, LockForSending, RequestWriteFile,
           RequestFinishWriteFile, SendFileData, SkipFile, SendingDone, Visit
      <4> QED
        BY <4>1, <4>2
    <3> QED
      BY <2>3, <3>2, MainRests
  <2>4. CASE r \in Outstanding /\ ReceiveMessage
    BY <2>1, <2>4, ReceiveAsked
  <2>5. CASE ProcessResponseFileLayout
    <3>1. pc[Main] = "apply"
      BY <2>5 DEF ProcessResponseFileLayout, Applies
    <3>2. Continue(Main, "layoutDone")
      BY <2>1, <2>2, <2>5, <3>1 DEF ProcessResponseFileLayout
    <3> QED
      BY <3>2, ThreadMoves, WorkersFacts
  <2>6. CASE r \in Outstanding /\ ~ ReceiveMessage /\ ~ ProcessResponseFileLayout
    <3>1. pc[Main] = "apply" /\ arg[Main].req = r =>
             arg'[Main] = arg[Main] /\ pc'[Main] = "apply"
      <4>1. SUFFICES ASSUME pc[Main] = "apply", arg[Main].req.kind = "layout"
                     PROVE  arg'[Main] = arg[Main] /\ pc'[Main] = "apply"
        BY DEF LayoutRequest
      <4>2. ~ UpdateStep
        BY <2>6, <4>1 DEF UpdateStep, SendQueuedMessages, ReceiveMessage,
           ProcessResponseFileBlockHashes, CheckFinishedHashes, EnqueueSyncTask,
           ProcessResponseDeleteFile, ProcessResponseWriteFile, ProcessFileDataReceived,
           ProcessResponseFinishWriteFile, CheckFinishedWrite, Applies
      <4>3. ~ SharedStep(Main)
        BY <4>1 DEF SharedStep, FinishLayout, SucceedSynchronization, FailSynchronization,
           ClearPendingTasks, SendNextWriteRequests, LockForSending, RequestWriteFile,
           RequestFinishWriteFile, SendFileData, SkipFile, SendingDone, Visit
      <4> QED
        BY <4>1, <4>2, <4>3, MainRests
    <3>2. r \in Outstanding'
      BY <2>6, <3>1, UnderwayKept
    <3> QED
      BY <2>1, <3>2
  <2> QED
    BY <2>1, <2>3, <2>4, <2>5, <2>6 DEF LayoutAsked
<1> QED
  BY <1>1, <1>2

-------------------------------------------------------------------------------
(* It moves on, whatever happens *)

LEMMA InitMoves ==
    ASSUME Init
    PROVE  MoveInv /\ LayoutComes
<1>1. /\ taskSync = None /\ pending = <<>>
      /\ \A t \in Threads : pc[t] = "idle"
      /\ Main \in Threads /\ \A p \in Procs : p \in Threads
  BY DEF Init, Threads
<1>2. ~ Stage({"pending"}) /\ DOMAIN pending = {}
  BY <1>1 DEF Stage
<1>3. LayoutInHand
  BY <1>1 DEF LayoutInHand, LayoutPlaces, Stage
<1>4. LayoutQueued /\ QueuedOnce /\ LayoutAsked /\ LayoutComes
  BY <1>2 DEF LayoutQueued, QueuedOnce, LayoutAsked, LayoutComes, WantsLayout
<1>5. AnswerInHand /\ SucceedsItself
  BY <1>1 DEF AnswerInHand, SucceedsItself
<1> QED
  BY <1>3, <1>4, <1>5 DEF MoveInv

\* The attempt is in the queue, or at hand.
LEMMA QueuedOrAtHand ==
    ASSUME TypeOK, QueuedOnce, \A p, q \in Procs : p = q,
           Stage({"pending"}), task[taskSync].want = {}
    PROVE  Cardinality({i \in DOMAIN pending : pending[i] = SyncTask(taskSync)})
             + Cardinality({p \in {p \in Procs : Sits(p)} : sync[p] = taskSync}) = 1
<1> DEFINE waiting == {i \in DOMAIN pending : pending[i] = SyncTask(taskSync)}
           atHand == {p \in {p \in Procs : Sits(p)} : sync[p] = taskSync}
<1>1. CASE \E p \in Procs : Sits(p) /\ sync[p] = taskSync
  <2>1. PICK p \in Procs : Sits(p) /\ sync[p] = taskSync
    BY <1>1
  <2>2. waiting = {} /\ atHand = {p}
    BY <2>1 DEF QueuedOnce
  <2> HIDE DEF waiting, atHand
  <2>3. Cardinality(waiting) = 0 /\ Cardinality(atHand) = 1
    BY <2>2, FS_EmptySet, FS_Singleton
  <2> QED
    BY <2>3 DEF waiting, atHand
<1>2. CASE ~ \E p \in Procs : Sits(p) /\ sync[p] = taskSync
  <2>1. PICK i \in DOMAIN pending : \A j \in DOMAIN pending :
           pending[j] = SyncTask(taskSync) <=> j = i
    BY <1>2 DEF QueuedOnce
  <2>2. waiting = {i} /\ atHand = {}
    BY <1>2, <2>1
  <2> HIDE DEF waiting, atHand
  <2>3. Cardinality(waiting) = 1 /\ Cardinality(atHand) = 0
    BY <2>2, FS_EmptySet, FS_Singleton
  <2> QED
    BY <2>3 DEF waiting, atHand
<1> QED
  BY <1>1, <1>2

LEMMA SomebodyThere ==
    ASSUME TypeOK, MoveInv, LayoutComes, \A p, q \in Procs : p = q
    PROVE  SomebodyMovesOn
<1> DEFINE At(where) == {p \in Procs : pc[p] \in where}
<1> SUFFICES ASSUME taskSync # None, task[taskSync].status = "pending"
             PROVE  /\ "server" \in task[taskSync].want =>
                          \/ \E e \in Range(pending) : e.kind = "fileLayout"
                          \/ At({"fileLayout", "building", "layoutDone", "fail"}) # {}
                    /\ "client" \in task[taskSync].want =>
                          \/ LayoutRequest(taskSync) \in Outstanding
                          \/ pc[Main] = "layoutDone"
                    /\ task[taskSync].want = {} =>
                          Cardinality({i \in DOMAIN pending : pending[i] = SyncTask(taskSync)})
                            + Cardinality({p \in At({"syncClient", "prepareHashing",
                                 "hashLock", "hash", "fail"}) : sync[p] = taskSync}) = 1
  BY Zenon DEF SomebodyMovesOn
<1>1. Stage({"pending"})
  BY DEF Stage
<1>2. ASSUME "server" \in task[taskSync].want
      PROVE  \/ \E e \in Range(pending) : e.kind = "fileLayout"
             \/ At({"fileLayout", "building", "layoutDone", "fail"}) # {}
  <2>1. \/ \E i \in DOMAIN pending : pending[i].kind = "fileLayout"
        \/ \E p \in Procs : pc[p] \in LayoutPlaces \cup {"fail"}
    BY <1>1, <1>2 DEF LayoutComes, WantsLayout
  <2> QED
    BY <2>1 DEF Range, LayoutPlaces
<1>3. "client" \in task[taskSync].want =>
         LayoutRequest(taskSync) \in Outstanding \/ pc[Main] = "layoutDone"
  BY <1>1 DEF MoveInv, LayoutAsked
<1>4. ASSUME task[taskSync].want = {}
      PROVE  Cardinality({i \in DOMAIN pending : pending[i] = SyncTask(taskSync)})
               + Cardinality({p \in At({"syncClient", "prepareHashing", "hashLock", "hash",
                                        "fail"}) : sync[p] = taskSync}) = 1
  <2>1. At({"syncClient", "prepareHashing", "hashLock", "hash", "fail"})
           = {p \in Procs : Sits(p)}
    BY DEF Sits
  <2>2. Cardinality({i \in DOMAIN pending : pending[i] = SyncTask(taskSync)})
          + Cardinality({p \in {p \in Procs : Sits(p)} : sync[p] = taskSync}) = 1
    BY <1>1, <1>4, QueuedOrAtHand DEF MoveInv
  <2> QED
    BY Zenon, <2>1, <2>2
<1> QED
  BY <1>2, <1>3, <1>4

(* With one processor - what StartTaskProcessors() starts - and no thread that
   fails an attempt still on its way to clear the task queue when the next
   attempt begins, an attempt that waits for its layouts has somebody to wait
   for: the task to build the server's layout is queued or at hand, the
   launcher's layout is asked for or arriving, and once both are there the
   thread that found them has queued the sync task exactly once.  Without the
   second hypothesis it does not hold: FailSynchronization() clears the queue in
   a critical section of its own, when Synchronize() may have filled it again. *)
THEOREM AttemptsMoveOn ==
    ASSUME \A p, q \in Procs : p = q
    PROVE  Spec /\ []NoLateClear => []SomebodyMovesOn
<1> DEFINE Inv == /\ TypeOK /\ CountsInv /\ StagesKept /\ AttemptInv
                  /\ MoveInv /\ LayoutComes
<1>1. Init => Inv
  BY InitTypeOK, InitCounts, InitAttempt, InitMoves
<1>2. Inv /\ NoLateClear /\ [Next]_vars => Inv'
  <2> SUFFICES ASSUME Inv, NoLateClear, [Next]_vars
               PROVE  Inv'
    OBVIOUS
  <2>1. TypeOK' /\ CountsInv' /\ StagesKept' /\ AttemptInv'
    BY NextTypeOK, NextCounts, NextAttempt
  <2>2. HandsAndQueue /\ AnswerInHand /\ SucceedsItself /\ LayoutAsked
    BY DEF MoveInv, HandsAndQueue
  <2>3. HandsAndQueue' /\ LayoutComes'
    BY <2>2, NextHands
  <2>4. AnswerInHand' /\ SucceedsItself' /\ LayoutAsked'
    BY <2>2, NextAnswer, NextSucceeds, NextAsked
  <2>5. MoveInv'
    BY <2>3, <2>4 DEF MoveInv, HandsAndQueue
  <2> QED
    BY <2>1, <2>3, <2>5
<1>3. Inv => SomebodyMovesOn
  BY SomebodyThere
<1> HIDE DEF Inv
<1> QED
  BY <1>1, <1>2, <1>3, PTL DEF Spec

-------------------------------------------------------------------------------
(* One attempt *)

\* A thread comes to clear the queue by failing the attempt under way.
LEMMA ClearsAfterFailing ==
    ASSUME TypeOK, [Next]_vars, NEW t \in Threads, pc'[t] = "clear"
    PROVE  pc[t] = "clear" \/ (taskSync # None /\ taskSync' = None)
<1>1. ASSUME \/ Return(t)
             \/ \E to : to # "clear" /\ (Continue(t, to) \/ Goto(t, to))
             \/ pc'[t] = pc[t]
      PROVE  pc[t] = "clear"
  BY <1>1 DEF TypeOK, ThreadsTypeOK, Return, Continue, Goto
<1>2. CASE FailSynchronization(t)
  <2>1. CASE taskSync = None
    BY <1>1, <1>2, <2>1 DEF FailSynchronization
  <2>2. CASE taskSync # None
    BY <1>2, <2>2 DEF FailSynchronization
  <2> QED
    BY <2>1, <2>2
<1>3. ASSUME UpdateStep, t = Main
      PROVE  pc[t] = "clear"
  <2>1. CASE SendQueuedMessages \/ ReceiveMessage \/ EnqueueSyncTask
    BY <1>1, <1>3, <2>1 DEF SendQueuedMessages, ReceiveMessage, EnqueueSyncTask, threads
  <2>2. CASE ProcessResponseFileLayout \/ ProcessResponseFileBlockHashes \/ CheckFinishedHashes
    BY <1>1, <1>3, <2>2 DEF ProcessResponseFileLayout, ProcessResponseFileBlockHashes,
       CheckFinishedHashes
  <2>3. CASE ProcessResponseDeleteFile \/ ProcessResponseWriteFile
    BY <1>1, <1>3, <2>3 DEF ProcessResponseDeleteFile, ProcessResponseWriteFile
  <2>4. CASE ProcessFileDataReceived \/ ProcessResponseFinishWriteFile \/ CheckFinishedWrite
    BY <1>1, <1>3, <2>4 DEF ProcessFileDataReceived, ProcessResponseFinishWriteFile,
       CheckFinishedWrite
  <2> QED
    BY <1>3, <2>1, <2>2, <2>3, <2>4 DEF UpdateStep
<1>4. ASSUME t \in Procs, RunTaskStep(t)
      PROVE  pc[t] = "clear"
  <2>1. CASE TakeTask(t)
    <3>1. PICK i \in DOMAIN pending : Goto(t, pending[i].kind)
      BY Zenon, <2>1 DEF TakeTask
    <3> QED
      BY <1>1, <3>1, PendingFacts
  <2>2. CASE \/ ProcessFileLayoutServer(t) \/ LayoutServerBuilt(t) \/ RunSyncTask(t)
             \/ LookUpLayouts(t)
    BY <1>1, <2>2 DEF ProcessFileLayoutServer, LayoutServerBuilt, RunSyncTask, LookUpLayouts
  <2>3. CASE LockForHashing(t) \/ AddFileBlockHashTask(t) \/ HashingPrepared(t)
    BY <1>1, <2>3 DEF LockForHashing, AddFileBlockHashTask, HashingPrepared
  <2>4. CASE LockForWriting(t) \/ AddFileDeleteTask(t)
    BY <1>1, <2>4 DEF LockForWriting, AddFileDeleteTask
  <2>5. CASE WritingPrepared(t)
    BY <1>1, <2>5 DEF WritingPrepared
  <2>6. CASE ReadFileBlock(t) \/ SendBlockRead(t)
    BY <1>1, <2>6 DEF ReadFileBlock, SendBlockRead
  <2> QED
    BY <1>4, <2>1, <2>2, <2>3, <2>4, <2>5, <2>6 DEF RunTaskStep
<1>5. ASSUME SharedStep(t), ~ FailSynchronization(t)
      PROVE  pc[t] = "clear"
  <2>1. CASE FinishLayout(t) \/ SucceedSynchronization(t) \/ ClearPendingTasks(t)
    BY <1>1, <2>1 DEF FinishLayout, SucceedSynchronization, ClearPendingTasks
  <2>2. CASE LockForSending(t) \/ SendingDone(t)
    BY <1>1, <2>2 DEF LockForSending, SendingDone
  <2>3. ASSUME NEW p, \/ RequestWriteFile(t, p) \/ RequestFinishWriteFile(t, p)
                      \/ SkipFile(t, p) \/ SendFileData(t, p)
        PROVE  pc[t] = "clear"
    <3>1. UNCHANGED pc \/ Goto(t, "fail")
      BY Zenon, <2>3 DEF RequestWriteFile, RequestFinishWriteFile, SkipFile, SendFileData
    <3> QED
      BY <1>1, <3>1
  <2> QED
    BY <1>5, <2>1, <2>2, <2>3 DEF SharedStep, SendNextWriteRequests
<1>6. ASSUME NEW u \in Threads, u # t, (u \in Procs /\ RunTaskStep(u)) \/ SharedStep(u)
      PROVE  pc[t] = "clear"
  BY <1>1, <1>6, OthersRest DEF OthersStay
<1>7. ASSUME UpdateStep, t # Main
      PROVE  pc[t] = "clear"
  <2>1. OnlyOf(Main, pc, pc')
    BY Zenon, <1>7
       DEF UpdateStep, SendQueuedMessages, ReceiveMessage, ProcessResponseFileLayout,
           ProcessResponseFileBlockHashes, CheckFinishedHashes, EnqueueSyncTask,
           ProcessResponseDeleteFile, ProcessResponseWriteFile, ProcessFileDataReceived,
           ProcessResponseFinishWriteFile, CheckFinishedWrite, threads, OnlyOf, Return,
           Continue, Goto
  <2>2. pc'[t] = pc[t]
    BY <1>7, <2>1 DEF OnlyOf, TypeOK, ThreadsTypeOK
  <2> QED
    BY <1>1, <2>2
<1>8. ASSUME Synchronize \/ Answer \/ UNCHANGED vars
      PROVE  pc[t] = "clear"
  BY <1>8 DEF Synchronize, Answer, threads, vars
<1>9. \/ Synchronize \/ UpdateStep \/ Answer \/ UNCHANGED vars
      \/ \E p \in Procs : RunTaskStep(p)
      \/ \E u \in Threads : SharedStep(u)
  BY Zenon DEF Next
<1>10. \A p \in Procs : p \in Threads
  BY WorkersFacts
<1> QED
  BY <1>2, <1>3, <1>4, <1>5, <1>6, <1>7, <1>8, <1>9, <1>10

\* Only Synchronize() begins an attempt.
LEMMA SyncsRests ==
    ASSUME [Next]_vars, ~ Synchronize
    PROVE  UNCHANGED syncs
<1>1. ASSUME UpdateStep
      PROVE  UNCHANGED syncs
  <2>1. UNCHANGED client \/ UNCHANGED syncs
    BY Zenon, <1>1 DEF UpdateStep, SendQueuedMessages, ReceiveMessage, ProcessResponseFileLayout,
       ProcessResponseFileBlockHashes, CheckFinishedHashes, EnqueueSyncTask,
       ProcessResponseDeleteFile, ProcessResponseWriteFile, ProcessFileDataReceived,
       ProcessResponseFinishWriteFile, CheckFinishedWrite
  <2> QED
    BY <2>1 DEF client
<1>2. ASSUME NEW p \in Procs, RunTaskStep(p)
      PROVE  UNCHANGED syncs
  <2>1. UNCHANGED client \/ UNCHANGED syncs
    BY Zenon, <1>2 DEF RunTaskStep, TakeTask, ProcessFileLayoutServer, LayoutServerBuilt,
       RunSyncTask, LookUpLayouts, LockForHashing, AddFileBlockHashTask, HashingPrepared,
       LockForWriting, AddFileDeleteTask, WritingPrepared, ReadFileBlock, SendBlockRead
  <2> QED
    BY <2>1 DEF client
<1>3. ASSUME NEW t \in Threads, SharedStep(t)
      PROVE  UNCHANGED syncs
  <2>1. UNCHANGED client \/ UNCHANGED syncs
    BY Zenon, <1>3 DEF SharedStep, FinishLayout, SucceedSynchronization, FailSynchronization,
       ClearPendingTasks, SendNextWriteRequests, LockForSending, RequestWriteFile,
       RequestFinishWriteFile, SendFileData, SkipFile, SendingDone, Visit
  <2> QED
    BY <2>1 DEF client
<1>4. Answer \/ UNCHANGED vars => UNCHANGED syncs
  BY DEF Answer, vars, client
<1>5. \/ UpdateStep \/ Answer \/ UNCHANGED vars
      \/ \E p \in Procs : RunTaskStep(p)
      \/ \E t \in Threads : SharedStep(t)
  BY Zenon DEF Next
<1> QED
  BY <1>1, <1>2, <1>3, <1>4, <1>5

(* With one attempt no failure is late, and SomebodyMovesOn holds of every
   behaviour with one task processor, whatever fails. *)
THEOREM OneAttemptMovesOn ==
    ASSUME \A p, q \in Procs : p = q, MaxSyncs = 1
    PROVE  Spec => []SomebodyMovesOn
<1> DEFINE Once == /\ taskSync # None => syncs = 1
                   /\ (\E t \in Threads : pc[t] = "clear") => taskSync = None /\ syncs = 1
<1>1. Init => Once
  BY DEF Init
<1>2. TypeOK /\ Once /\ [Next]_vars => Once'
  <2> SUFFICES ASSUME TypeOK, Once, [Next]_vars
               PROVE  Once'
    OBVIOUS
  <2>1. CASE Synchronize
    <3>1. syncs = 0 /\ syncs' = 1 /\ UNCHANGED pc
      BY <2>1 DEF Synchronize, threads, TypeOK, ClientTypeOK
    <3> QED
      BY <3>1
  <2>2. CASE ~ Synchronize
    <3>1. UNCHANGED syncs /\ taskSync' \in {taskSync, None}
      BY <2>2, SyncsRests, AttemptsGoOn
    <3>2. \A t \in Threads : pc'[t] = "clear" =>
             pc[t] = "clear" \/ (taskSync # None /\ taskSync' = None)
      BY ClearsAfterFailing
    <3> QED
      BY <3>1, <3>2
  <2> QED
    BY <2>1, <2>2
<1>3. Once => NoLateClear
  BY DEF NoLateClear
<1>4. Spec => []TypeOK
  BY TypeCorrect
<1>5. Spec /\ []NoLateClear => []SomebodyMovesOn
  BY AttemptsMoveOn
<1> HIDE DEF Once
<1> QED
  BY <1>1, <1>2, <1>3, <1>4, <1>5, PTL DEF Spec

-------------------------------------------------------------------------------
(* Requests about writing a file *)

WriteKinds == {"write", "data", "finish"}

Received(r) == \E i \in DOMAIN queueReceived : queueReceived[i].req = r

AtHand(r) == pc[Main] = "apply" /\ arg[Main].req = r

\* Each is in one place, in the queue, on the wire, answered or at hand, and is
\* answered once.
OneCopy ==
    \A r \in Requests : r.kind \in WriteKinds =>
        /\ r \in Range(queueSend) => r \notin wire /\ ~ Received(r) /\ ~ AtHand(r)
        /\ r \in wire => ~ Received(r) /\ ~ AtHand(r)
        /\ Received(r) => ~ AtHand(r)
        /\ \A i, j \in DOMAIN queueReceived :
              queueReceived[i].req = r /\ queueReceived[j].req = r => i = j

\* The write task is in the state it was in when the request was made.
Backs(r) ==
    /\ r.kind = "write" => Writing(r.sync, r.path, "preparing")
    /\ r.kind = "data" =>
          /\ Writing(r.sync, r.path, "processing")
          /\ r.index \in DOMAIN task[r.sync].writes[r.path].blocks
          /\ task[r.sync].writes[r.path].blocks[r.index] = "dataSent"
    /\ r.kind = "finish" => Writing(r.sync, r.path, "finishing")

Backed == \A r \in Outstanding : Backs(r)

\* Update() takes an answer for the attempt it was asked by.
TakenInTime == pc[Main] = "apply" => arg[Main].req.sync = sync[Main]

TravelInv == OneCopy /\ Backed /\ TakenInTime

\* No answer to a request of an attempt that failed comes during the next one.
AnswersInTime ==
    \A m \in Range(queueReceived) : taskSync \in {None, m.req.sync}

-------------------------------------------------------------------------------
(* Where a request is *)

LEMMA RequestShapes ==
    ASSUME NEW r \in Requests
    PROVE  /\ r.sync \in Syncs
           /\ r.kind = "write" => r = PathRequest("write", r.sync, r.path)
           /\ r.kind = "finish" => r = PathRequest("finish", r.sync, r.path)
           /\ r.kind = "data" => r = DataRequest(r.sync, r.path, r.index)
           /\ r.kind = "delete" => r = PathRequest("delete", r.sync, r.path)
           /\ r.kind \in {"hashes", "delete", "write", "finish"} => r.path \in Paths
BY DEF Requests, AboutBlocks, LayoutRequest, PathRequest, DataRequest

LEMMA ReceivedFacts ==
    ASSUME TypeOK
    PROVE  /\ queueReceived \in Seq(Range(queueReceived))
           /\ \A r : Received(r) <=> \E m \in Range(queueReceived) : m.req = r
           /\ Outstanding \subseteq Requests
           /\ \A r : r \in Outstanding <=>
                 \/ r \in Range(queueSend) \/ r \in wire \/ Received(r) \/ AtHand(r)
<1>1. queueReceived \in Seq(Range(queueReceived)) /\ queueSend \in Seq(Requests)
      /\ wire \subseteq Requests /\ \A m \in Range(queueReceived) : m.req \in Requests
  BY DEF TypeOK, QueuesTypeOK, IsResponse
<1>2. \A r : Received(r) <=> \E m \in Range(queueReceived) : m.req = r
  BY DEF Received, Range
<1>3. Range(queueSend) \subseteq Requests
  <2>1. \A i \in DOMAIN queueSend : queueSend[i] \in Requests
    BY <1>1
  <2> QED
    BY <2>1 DEF Range
<1>4. \A r : r \in Outstanding <=>
         \/ r \in Range(queueSend) \/ r \in wire \/ Received(r) \/ AtHand(r)
  BY <1>2 DEF Outstanding, AtHand
<1>5. pc[Main] = "apply" => arg[Main].req \in Requests
  BY DEF TypeOK, ArgsTypeOK, IsResponse
<1> QED
  BY <1>1, <1>2, <1>3, <1>4, <1>5 DEF AtHand

\* Main has no other answer at hand than before.
MainGoesOn ==
    pc'[Main] = "apply" =>
        pc[Main] = "apply" /\ arg'[Main] = arg[Main] /\ sync'[Main] = sync[Main]

\* Requests join the queue; none travels.
LEMMA TravelGoesOn ==
    ASSUME TypeOK, TypeOK', TravelInv, MainGoesOn, NEW N,
           Range(queueSend') \subseteq Range(queueSend) \cup N,
           UNCHANGED <<wire, queueReceived>>,
           \A r \in N : r.kind \in WriteKinds => r \notin Outstanding,
           \A r \in N \cup Outstanding : r \in Outstanding' => Backs(r)'
    PROVE  TravelInv'
<1>1. \A r : Received(r)' <=> Received(r)
  BY DEF Received
<1>2. \A r : AtHand(r)' => AtHand(r)
  BY DEF AtHand, MainGoesOn
<1>3. \A r : r \in Outstanding <=>
         \/ r \in Range(queueSend) \/ r \in wire \/ Received(r) \/ AtHand(r)
  BY ReceivedFacts
<1>4. \A r : r \in Outstanding' => r \in N \cup Outstanding
  <2>1. ASSUME NEW r, r \in Outstanding'
        PROVE  \/ r \in Range(queueSend') \/ r \in wire
               \/ r \in {m.req : m \in Range(queueReceived)}
               \/ pc'[Main] = "apply" /\ r = arg'[Main].req
    BY <2>1 DEF Outstanding
  <2>2. \A r : /\ r \in {m.req : m \in Range(queueReceived)} => r \in Outstanding
               /\ pc[Main] = "apply" /\ r = arg[Main].req => r \in Outstanding
               /\ r \in Range(queueSend) \/ r \in wire => r \in Outstanding
    BY DEF Outstanding
  <2> QED
    BY <2>1, <2>2 DEF MainGoesOn
<1>5. OneCopy'
  BY <1>1, <1>2, <1>3 DEF OneCopy, TravelInv, Requests
<1>6. Backed'
  BY <1>4 DEF Backed
<1>7. TakenInTime'
  BY DEF TakenInTime, TravelInv, MainGoesOn
<1> QED
  BY <1>5, <1>6, <1>7 DEF TravelInv


\* Only Update() takes an answer.
LEMMA MainContinues ==
    ASSUME TypeOK, [Next]_vars, ~ ReceiveMessage
    PROVE  MainGoesOn
<1> Main \in Threads
  BY WorkersFacts
<1>1. CASE ~ UpdateStep /\ ~ SharedStep(Main)
  BY <1>1, MainRests DEF MainGoesOn
<1>2. ASSUME \/ Return(Main)
             \/ \E to : to # "apply" /\ Continue(Main, to)
             \/ \E to : to # "apply" /\ Goto(Main, to)
             \/ UNCHANGED <<pc, sync, arg>>
      PROVE  MainGoesOn
  BY <1>2 DEF MainGoesOn, Return, Continue, Goto, TypeOK, ThreadsTypeOK
<1>3. CASE UpdateStep
  <2>1. CASE SendQueuedMessages \/ CheckFinishedHashes \/ EnqueueSyncTask \/ CheckFinishedWrite
    BY Zenon, <1>2, <2>1 DEF SendQueuedMessages, CheckFinishedHashes, EnqueueSyncTask,
       CheckFinishedWrite, threads
  <2>2. CASE ProcessResponseFileLayout \/ ProcessResponseFileBlockHashes
    BY Zenon, <1>2, <2>2 DEF ProcessResponseFileLayout, ProcessResponseFileBlockHashes
  <2>3. ASSUME NEW to, Continue(Main, to), to \in {"checkWrite", "sendLock", "fail"}
        PROVE  MainGoesOn
    BY <1>2, <2>3
  <2>4. CASE ProcessResponseDeleteFile \/ ProcessResponseFinishWriteFile
    BY <1>2, <2>3, <2>4 DEF ProcessResponseDeleteFile, ProcessResponseFinishWriteFile
  <2>5. CASE ProcessResponseWriteFile \/ ProcessFileDataReceived
    BY <1>2, <2>3, <2>5 DEF ProcessResponseWriteFile, ProcessFileDataReceived
  <2> QED
    BY <1>3, <2>1, <2>2, <2>4, <2>5 DEF UpdateStep
<1>4. CASE SharedStep(Main)
  <2>1. CASE FinishLayout(Main) \/ SucceedSynchronization(Main) \/ ClearPendingTasks(Main)
    BY Zenon, <1>2, <2>1 DEF FinishLayout, SucceedSynchronization, ClearPendingTasks
  <2>2. CASE FailSynchronization(Main)
    BY Zenon, <1>2, <2>2 DEF FailSynchronization
  <2>3. CASE LockForSending(Main) \/ SendingDone(Main)
    BY Zenon, <1>2, <2>3 DEF LockForSending, SendingDone
  <2>4. ASSUME NEW p, \/ RequestWriteFile(Main, p) \/ RequestFinishWriteFile(Main, p)
                      \/ SkipFile(Main, p)
        PROVE  MainGoesOn
    BY Zenon, <1>2, <2>4 DEF RequestWriteFile, RequestFinishWriteFile, SkipFile, Visit
  <2>5. ASSUME NEW p, SendFileData(Main, p)
        PROVE  MainGoesOn
    BY <1>2, <2>5, SendFileDataKeeps
  <2> QED
    BY <1>4, <2>1, <2>2, <2>3, <2>4, <2>5 DEF SharedStep, SendNextWriteRequests
<1> QED
  BY <1>1, <1>3, <1>4

-------------------------------------------------------------------------------
(* What a request asks for is still to do *)

\* The write task a request is about.
LEMMA AskedFor ==
    ASSUME TypeOK, Backed, NEW r \in Outstanding, r.kind \in WriteKinds
    PROVE  /\ r \in Requests /\ r.sync \in Syncs
           /\ r.path \in DOMAIN task[r.sync].writes
           /\ r.kind = "write" <=> task[r.sync].writes[r.path].status = "preparing"
           /\ r.kind = "data" <=> task[r.sync].writes[r.path].status = "processing"
           /\ r.kind = "finish" <=> task[r.sync].writes[r.path].status = "finishing"
           /\ r.kind = "data" =>
                 /\ r.index \in DOMAIN task[r.sync].writes[r.path].blocks
                 /\ task[r.sync].writes[r.path].blocks[r.index] = "dataSent"
<1>1. r \in Requests /\ r.sync \in Syncs
  BY ReceivedFacts, RequestShapes
<1>2. Backs(r)
  BY DEF Backed
<1> QED
  BY <1>1, <1>2 DEF Backs, Writing, WriteKinds

LEMMA OtherKindsBacked ==
    ASSUME NEW r, r.kind \notin WriteKinds
    PROVE  Backs(r)'
BY DEF Backs, WriteKinds

LEMMA SameWriteTask ==
    ASSUME TypeOK, Backed, NEW r \in Outstanding,
           r.kind \in WriteKinds =>
              /\ r.path \in DOMAIN task'[r.sync].writes
              /\ task'[r.sync].writes[r.path] = task[r.sync].writes[r.path]
    PROVE  Backs(r)'
<1>1. Backs(r)
  BY DEF Backed
<1> QED
  BY <1>1 DEF Backs, Writing, WriteKinds

\* Nothing happens to the write tasks, and nothing is asked about one.
LEMMA TravelUntouched ==
    ASSUME TypeOK, TypeOK', TravelInv, [Next]_vars, WritesKept,
           ~ SendQueuedMessages, ~ ReceiveMessage, ~ Answer,
           \/ UNCHANGED queueSend
           \/ \E e : e.kind \notin WriteKinds /\ queueSend' = Append(queueSend, e)
    PROVE  TravelInv'
<1>1. PICK N : /\ Range(queueSend') \subseteq Range(queueSend) \cup N
               /\ \A r \in N : r.kind \notin WriteKinds
  <2>1. CASE UNCHANGED queueSend
    <3>1. PICK N : N = {}
      OBVIOUS
    <3>2. /\ Range(queueSend') \subseteq Range(queueSend) \cup N
          /\ \A r \in N : r.kind \notin WriteKinds
      BY <2>1, <3>1
    <3> QED
      BY Zenon, <3>2
  <2>2. ASSUME NEW e, e.kind \notin WriteKinds, queueSend' = Append(queueSend, e)
        PROVE  \E N : /\ Range(queueSend') \subseteq Range(queueSend) \cup N
                      /\ \A r \in N : r.kind \notin WriteKinds
    <3>1. queueSend \in Seq(Range(queueSend))
      BY SeqOfRange DEF TypeOK, QueuesTypeOK
    <3>2. Range(queueSend') = Range(queueSend) \cup {e}
      BY <2>2, <3>1, AppendTyped
    <3>3. /\ Range(queueSend') \subseteq Range(queueSend) \cup {e}
          /\ \A r \in {e} : r.kind \notin WriteKinds
      BY <2>2, <3>2
    <3> QED
      BY Zenon, <3>3
  <2> QED
    BY <2>1, <2>2
<1>2. UNCHANGED <<wire, queueReceived>>
  BY TravelRests
<1>3. MainGoesOn
  BY MainContinues
<1>4. ASSUME NEW r \in Outstanding
      PROVE  Backs(r)'
  <2>1. Backed
    BY DEF TravelInv
  <2>2. r.kind \in WriteKinds => r.sync \in Syncs /\ r.path \in DOMAIN task[r.sync].writes
    BY <2>1, AskedFor
  <2> QED
    BY <2>1, <2>2, SameWriteTask DEF WritesKept
<1>5. \A r \in N : Backs(r)'
  BY <1>1, OtherKindsBacked
<1> QED
  BY <1>1, <1>2, <1>3, <1>4, <1>5, TravelGoesOn

OtherWritesKept(s, p) ==
    \A x \in Syncs : \A q \in DOMAIN task[x].writes : ~ (x = s /\ q = p) =>
        q \in DOMAIN task'[x].writes /\ task'[x].writes[q] = task[x].writes[q]

\* One write task changes; a request about it is no longer on its way or still backed.
LEMMA OneTaskTouched ==
    ASSUME TypeOK, TypeOK', TravelInv, [Next]_vars,
           ~ SendQueuedMessages, ~ ReceiveMessage, ~ Answer,
           NEW s \in Syncs, NEW p, NEW N,
           OtherWritesKept(s, p),
           Range(queueSend') \subseteq Range(queueSend) \cup N,
           \A r \in N : r \notin Outstanding /\ Backs(r)',
           \A r \in Outstanding :
              r.kind \in WriteKinds /\ r.sync = s /\ r.path = p /\ r \in Outstanding' => Backs(r)'
    PROVE  TravelInv'
<1>1. UNCHANGED <<wire, queueReceived>>
  BY TravelRests
<1>2. MainGoesOn
  BY MainContinues
<1>3. ASSUME NEW r \in Outstanding, r \in Outstanding'
      PROVE  Backs(r)'
  <2>1. Backed
    BY DEF TravelInv
  <2>2. r.kind \in WriteKinds => r.sync \in Syncs /\ r.path \in DOMAIN task[r.sync].writes
    BY <2>1, AskedFor
  <2>3. CASE r.kind \in WriteKinds /\ r.sync = s /\ r.path = p
    BY <1>3, <2>3
  <2>4. CASE ~ (r.kind \in WriteKinds /\ r.sync = s /\ r.path = p)
    BY <2>1, <2>2, <2>4, SameWriteTask DEF OtherWritesKept
  <2> QED
    BY <2>3, <2>4
<1> QED
  BY <1>1, <1>2, <1>3, TravelGoesOn


StatusSetTo(s, p, v) ==
    /\ OtherWritesKept(s, p) /\ p \in DOMAIN task'[s].writes
    /\ task'[s].writes[p].status = v
    /\ task'[s].writes[p].blocks = task[s].writes[p].blocks

BlocksSetTo(s, p, v) ==
    /\ OtherWritesKept(s, p) /\ p \in DOMAIN task'[s].writes
    /\ task'[s].writes[p].status = task[s].writes[p].status
    /\ task'[s].writes[p].blocks = v

LEMMA StatusOfFile ==
    ASSUME TypeOK, NEW s \in Syncs, NEW p \in DOMAIN task[s].writes
    PROVE  \A v : task' = [task EXCEPT ![s].writes[p].status = v] => StatusSetTo(s, p, v)
<1> SUFFICES ASSUME NEW v, task' = [task EXCEPT ![s].writes[p].status = v]
             PROVE  StatusSetTo(s, p, v)
  OBVIOUS
<1> DEFINE old == task[s].writes[p]
           w == [old EXCEPT !.status = v]
<1>1. DOMAIN old = {"status", "blocks"}
  BY DEF TypeOK, TasksTypeOK, IsSyncTask, IsWriteTask
<1>2. w.status = v /\ w.blocks = old.blocks
  BY <1>1
<1>3. task' = [task EXCEPT ![s].writes[p] = w]
  OBVIOUS
<1> HIDE DEF w
<1>4. OnlyWrite(s, p, w)
  BY Zenon, <1>3, WriteReplaced
<1> QED
  BY <1>2, <1>4 DEF OnlyWrite, SameDomains, OtherWritesKept, StatusSetTo

LEMMA BlocksOfFile ==
    ASSUME TypeOK, NEW s \in Syncs, NEW p \in DOMAIN task[s].writes
    PROVE  \A v : task' = [task EXCEPT ![s].writes[p].blocks = v] => BlocksSetTo(s, p, v)
<1> SUFFICES ASSUME NEW v, task' = [task EXCEPT ![s].writes[p].blocks = v]
             PROVE  BlocksSetTo(s, p, v)
  OBVIOUS
<1> DEFINE old == task[s].writes[p]
           w == [old EXCEPT !.blocks = v]
<1>1. DOMAIN old = {"status", "blocks"}
  BY DEF TypeOK, TasksTypeOK, IsSyncTask, IsWriteTask
<1>2. w.status = old.status /\ w.blocks = v
  BY <1>1
<1>3. task' = [task EXCEPT ![s].writes[p] = w]
  OBVIOUS
<1> HIDE DEF w
<1>4. OnlyWrite(s, p, w)
  BY Zenon, <1>3, WriteReplaced
<1> QED
  BY <1>2, <1>4 DEF OnlyWrite, SameDomains, OtherWritesKept, BlocksSetTo

-------------------------------------------------------------------------------
(* An answer is taken for what it was asked for *)

\* The answer at hand is gone afterwards: there was no second.
LEMMA HandledOnce ==
    ASSUME TypeOK, TravelInv, pc[Main] = "apply", pc'[Main] # "apply",
           arg[Main].req.kind \in WriteKinds, UNCHANGED <<queueSend, wire, queueReceived>>
    PROVE  /\ arg[Main].req \notin Outstanding' /\ arg[Main].req \in Outstanding
           /\ arg[Main].req.sync = sync[Main]
<1> DEFINE r == arg[Main].req
<1>1. AtHand(r) /\ r \in Outstanding
  BY DEF AtHand, Outstanding
<1>2. r \in Requests
  BY <1>1, ReceivedFacts
<1>3. r \notin Range(queueSend) /\ r \notin wire /\ ~ Received(r)
  BY <1>1, <1>2 DEF TravelInv, OneCopy
<1>4. \A m \in Range(queueReceived) : m.req # r
  BY <1>3, ReceivedFacts
<1>5. r \notin Outstanding'
  BY <1>3, <1>4 DEF Outstanding
<1> QED
  BY <1>1, <1>5 DEF TravelInv, TakenInTime

LEMMA NothingTravels ==
    ASSUME TypeOK, pc[Main] = "apply",
           Return(Main) \/ \E to : to # "apply" /\ Continue(Main, to)
    PROVE  ~ SendQueuedMessages /\ ~ ReceiveMessage /\ ~ Answer
<1>1. pc'[Main] # "apply"
  BY ThreadMoves, WorkersFacts
<1> QED
  BY <1>1 DEF SendQueuedMessages, ReceiveMessage, Answer, threads

LEMMA ResponseWriteTravels ==
    ASSUME TypeOK, TypeOK', TravelInv, [Next]_vars, ProcessResponseWriteFile
    PROVE  TravelInv'
<1>0. PICK s, p : s = sync[Main] /\ p = arg[Main].req.path
  OBVIOUS
<1>1. /\ pc[Main] = "apply" /\ arg[Main].req.kind = "write"
      /\ UNCHANGED <<queueSend, wire, queueReceived>>
  BY DEF ProcessResponseWriteFile, Applies, queues, launcher
<1>2. s \in Syncs
  BY <1>0, <1>1, WorkersFacts
<1>3. ~ SendQueuedMessages /\ ~ ReceiveMessage /\ ~ Answer
  <2>1. Return(Main) \/ \E to : to # "apply" /\ Continue(Main, to)
    BY Zenon DEF ProcessResponseWriteFile
  <2> QED
    BY <1>1, <2>1, NothingTravels
<1>4. CASE UNCHANGED task
  BY <1>1, <1>3, <1>4, TravelUntouched DEF WritesKept
<1>5. ASSUME Writing(s, p, "preparing"), NEW v, NEW to, to # "apply",
             task' = [task EXCEPT ![s].writes[p].status = v], Continue(Main, to)
      PROVE  TravelInv'
  <2>1. OtherWritesKept(s, p)
    BY <1>2, <1>5, StatusOfFile DEF Writing, StatusSetTo
  <2>2. pc'[Main] # "apply"
    BY <1>5, ThreadMoves, WorkersFacts
  <2>3. /\ arg[Main].req \notin Outstanding' /\ arg[Main].req \in Outstanding
        /\ arg[Main].req.sync = s
    BY <1>0, <1>1, <2>2, HandledOnce DEF WriteKinds
  <2>4. ASSUME NEW r \in Outstanding, r.kind \in WriteKinds, r.sync = s, r.path = p
        PROVE  r = arg[Main].req
    <3>1. r.kind = "write"
      BY <1>5, <2>4, AskedFor DEF TravelInv, Writing
    <3>2. r \in Requests /\ arg[Main].req \in Requests
      BY <2>3, ReceivedFacts
    <3>3. r = PathRequest("write", s, p) /\ arg[Main].req = PathRequest("write", s, p)
      BY <1>0, <1>1, <2>3, <2>4, <3>1, <3>2, RequestShapes
    <3> QED
      BY <3>3
  <2>5. PICK N : N = {} /\ Range(queueSend') \subseteq Range(queueSend) \cup N
    BY <1>1
  <2> QED
    BY <1>2, <1>3, <2>1, <2>3, <2>4, <2>5, OneTaskTouched
<1>6. \/ UNCHANGED task
      \/ /\ Writing(s, p, "preparing")
         /\ \E v, to : /\ to # "apply" /\ task' = [task EXCEPT ![s].writes[p].status = v]
                       /\ Continue(Main, to)
  BY Zenon, <1>0 DEF ProcessResponseWriteFile
<1> QED
  BY <1>4, <1>5, <1>6


LEMMA FileDataReceivedTravels ==
    ASSUME TypeOK, TypeOK', TravelInv, [Next]_vars, ProcessFileDataReceived
    PROVE  TravelInv'
<1>0. PICK s, p, i :
          s = sync[Main] /\ p = arg[Main].req.path /\ i = arg[Main].req.index
  OBVIOUS
<1> DEFINE blocks == task[s].writes[p].blocks
           v == Without(blocks, i)
<1>1. /\ pc[Main] = "apply" /\ arg[Main].req.kind = "data"
      /\ UNCHANGED <<queueSend, wire, queueReceived>>
  BY DEF ProcessFileDataReceived, Applies, queues, launcher
<1>2. s \in Syncs
  BY <1>0, <1>1, WorkersFacts
<1>3. ~ SendQueuedMessages /\ ~ ReceiveMessage /\ ~ Answer
  <2>1. \/ Return(Main)
        \/ \E to : to \in {"sendLock", "fail"} /\ Continue(Main, to)
    BY DEF ProcessFileDataReceived
  <2> QED
    BY <1>1, <2>1, NothingTravels
<1>4. CASE UNCHANGED task
  BY <1>1, <1>3, <1>4, TravelUntouched DEF WritesKept
<1>5. ASSUME p \in DOMAIN task[s].writes, NEW to, to # "apply",
             task' = [task EXCEPT ![s].writes[p].blocks = v], Continue(Main, to)
      PROVE  TravelInv'
  <2>1. BlocksSetTo(s, p, v)
    <3> HIDE DEF v
    <3> QED
      BY Zenon, <1>2, <1>5, BlocksOfFile
  <2>2. /\ DOMAIN v = DOMAIN blocks \ {i}
        /\ \A j \in DOMAIN blocks \ {i} : v[j] = blocks[j]
    BY WithoutProperties
  <2> HIDE DEF v
  <2>3. pc'[Main] # "apply"
    BY <1>5, ThreadMoves, WorkersFacts
  <2>4. /\ arg[Main].req \notin Outstanding' /\ arg[Main].req \in Outstanding
        /\ arg[Main].req.sync = s
    BY <1>0, <1>1, <2>3, HandledOnce DEF WriteKinds
  <2>5. task[s].writes[p].status = "processing"
    BY <1>0, <1>1, <2>4, AskedFor DEF TravelInv, WriteKinds
  <2>6. ASSUME NEW r \in Outstanding, r.kind \in WriteKinds, r.sync = s, r.path = p,
               r \in Outstanding'
        PROVE  Backs(r)'
    <3>1. /\ r.kind = "data" /\ r.index \in DOMAIN blocks /\ blocks[r.index] = "dataSent"
      BY <2>5, <2>6, AskedFor DEF TravelInv
    <3>2. r \in Requests /\ arg[Main].req \in Requests
      BY <2>4, ReceivedFacts
    <3>3. r = DataRequest(s, p, r.index) /\ arg[Main].req = DataRequest(s, p, i)
      BY <1>0, <1>1, <2>4, <2>6, <3>1, <3>2, RequestShapes
    <3>4. r.index # i
      BY <2>4, <2>6, <3>3
    <3> QED
      BY <2>1, <2>2, <2>5, <2>6, <3>1, <3>4 DEF Backs, Writing, BlocksSetTo
  <2>7. PICK N : N = {} /\ Range(queueSend') \subseteq Range(queueSend) \cup N
    BY <1>1
  <2> QED
    BY <1>2, <1>3, <2>1, <2>6, <2>7, OneTaskTouched DEF BlocksSetTo
<1>6. \/ UNCHANGED task
      \/ /\ p \in DOMAIN task[s].writes
         /\ \E to : /\ to # "apply" /\ task' = [task EXCEPT ![s].writes[p].blocks = v]
                    /\ Continue(Main, to)
  BY Zenon, <1>0 DEF ProcessFileDataReceived, Writing
<1> QED
  BY <1>4, <1>5, <1>6

LEMMA ResponseFinishTravels ==
    ASSUME TypeOK, TypeOK', TravelInv, [Next]_vars, ProcessResponseFinishWriteFile
    PROVE  TravelInv'
<1>0. PICK s, p : s = sync[Main] /\ p = arg[Main].req.path
  OBVIOUS
<1> DEFINE f == task[s].writes
           v == Without(f, p)
<1>1. /\ pc[Main] = "apply" /\ arg[Main].req.kind = "finish"
      /\ UNCHANGED <<queueSend, wire, queueReceived>>
  BY DEF ProcessResponseFinishWriteFile, Applies, queues, launcher
<1>2. s \in Syncs
  BY <1>0, <1>1, WorkersFacts
<1>3. ~ SendQueuedMessages /\ ~ ReceiveMessage /\ ~ Answer
  <2>1. \/ Return(Main)
        \/ \E to : to \in {"checkWrite", "fail"} /\ Continue(Main, to)
    BY DEF ProcessResponseFinishWriteFile
  <2> QED
    BY <1>1, <2>1, NothingTravels
<1>4. CASE UNCHANGED task
  BY <1>1, <1>3, <1>4, TravelUntouched DEF WritesKept
<1>5. ASSUME Writing(s, p, "finishing"), NEW to, to # "apply",
             task' = [task EXCEPT ![s].writes = v], Continue(Main, to)
      PROVE  TravelInv'
  <2>1. DOMAIN v = DOMAIN f \ {p} /\ \A q \in DOMAIN f \ {p} : v[q] = f[q]
    BY WithoutProperties
  <2> HIDE DEF v
  <2>2. /\ task'[s].writes = v
        /\ \A x \in Syncs : x # s => task'[x] = task[x]
    BY <1>2, <1>5 DEF TypeOK, TasksTypeOK, IsSyncTask, NewTask
  <2>3. OtherWritesKept(s, p)
    BY <2>1, <2>2 DEF OtherWritesKept
  <2>4. pc'[Main] # "apply"
    BY <1>5, ThreadMoves, WorkersFacts
  <2>5. /\ arg[Main].req \notin Outstanding' /\ arg[Main].req \in Outstanding
        /\ arg[Main].req.sync = s
    BY <1>0, <1>1, <2>4, HandledOnce DEF WriteKinds
  <2>6. ASSUME NEW r \in Outstanding, r.kind \in WriteKinds, r.sync = s, r.path = p
        PROVE  r = arg[Main].req
    <3>1. r.kind = "finish"
      BY <1>5, <2>6, AskedFor DEF TravelInv, Writing
    <3>2. r \in Requests /\ arg[Main].req \in Requests
      BY <2>5, ReceivedFacts
    <3>3. r = PathRequest("finish", s, p) /\ arg[Main].req = PathRequest("finish", s, p)
      BY <1>0, <1>1, <2>5, <2>6, <3>1, <3>2, RequestShapes
    <3> QED
      BY <3>3
  <2>7. PICK N : N = {} /\ Range(queueSend') \subseteq Range(queueSend) \cup N
    BY <1>1
  <2> QED
    BY <1>2, <1>3, <2>3, <2>5, <2>6, <2>7, OneTaskTouched
<1>6. \/ UNCHANGED task
      \/ /\ Writing(s, p, "finishing")
         /\ \E to : /\ to # "apply" /\ task' = [task EXCEPT ![s].writes = v]
                    /\ Continue(Main, to)
  BY Zenon, <1>0 DEF ProcessResponseFinishWriteFile
<1> QED
  BY <1>4, <1>5, <1>6


-------------------------------------------------------------------------------
(* Requests are made when nothing else is asked about the file *)

LEMMA NothingElseTravels ==
    ASSUME TypeOK, NEW t \in Threads, NEW p,
           RequestWriteFile(t, p) \/ RequestFinishWriteFile(t, p) \/ SendFileData(t, p)
    PROVE  /\ ~ SendQueuedMessages /\ ~ ReceiveMessage /\ ~ Answer
           /\ pc[t] # "idle"
<1>1. pc[t] = "send" /\ p \in todo[t] /\ todo' = [todo EXCEPT ![t] = todo[t] \ {p}]
  BY Zenon DEF RequestWriteFile, RequestFinishWriteFile, SendFileData, Visit
<1>2. todo' # todo
  BY <1>1 DEF TypeOK, ThreadsTypeOK
<1>3. SendQueuedMessages \/ ReceiveMessage \/ Answer => UNCHANGED todo
  BY DEF SendQueuedMessages, ReceiveMessage, Answer, threads
<1> QED
  BY <1>1, <1>2, <1>3

LEMMA RequestWriteTravels ==
    ASSUME TypeOK, TypeOK', TravelInv, [Next]_vars, NEW t \in Threads, NEW p,
           RequestWriteFile(t, p) \/ RequestFinishWriteFile(t, p)
    PROVE  TravelInv'
<1>0. PICK s : s = sync[t]
  OBVIOUS
<1>1. ~ SendQueuedMessages /\ ~ ReceiveMessage /\ ~ Answer /\ s \in Syncs
  BY <1>0, NothingElseTravels, WorkersFacts
<1>2. p \in DOMAIN task[s].writes
  BY Zenon, <1>0 DEF RequestWriteFile, RequestFinishWriteFile, Writing
<1>3. PICK v, k, new :
         /\ task' = [task EXCEPT ![s].writes[p].status = v]
         /\ \/ new = {} /\ UNCHANGED queueSend
            \/ /\ new = {PathRequest(k, s, p)} /\ queueSend' = Append(queueSend, PathRequest(k, s, p))
               /\ (k = "write" /\ v = "preparing") \/ (k = "finish" /\ v = "finishing")
         /\ \/ task[s].writes[p].status = "pending"
            \/ task[s].writes[p].status = "processing" /\ DOMAIN task[s].writes[p].blocks = {}
  <2>1. CASE RequestWriteFile(t, p)
    BY <1>0, <2>1 DEF RequestWriteFile, Writing
  <2>2. CASE RequestFinishWriteFile(t, p)
    BY <1>0, <2>2 DEF RequestFinishWriteFile, Writing, AllWritten
  <2> QED
    BY <2>1, <2>2
<1>4. StatusSetTo(s, p, v)
  BY <1>1, <1>2, <1>3, StatusOfFile
<1>5. \A r \in Outstanding : r.kind \in WriteKinds => ~ (r.sync = s /\ r.path = p)
  BY <1>3, AskedFor DEF TravelInv, WriteKinds
<1>6. Range(queueSend') \subseteq Range(queueSend) \cup new
  <2>1. queueSend \in Seq(Range(queueSend))
    BY SeqOfRange DEF TypeOK, QueuesTypeOK
  <2> QED
    BY <1>3, <2>1, AppendTyped
<1>7. ASSUME NEW r \in new
      PROVE  r \notin Outstanding /\ Backs(r)'
  <2>1. /\ r = PathRequest(k, s, p)
        /\ (k = "write" /\ v = "preparing") \/ (k = "finish" /\ v = "finishing")
    BY <1>3
  <2>2. r.kind = k /\ r.sync = s /\ r.path = p
    BY <2>1 DEF PathRequest
  <2>3. r \notin Outstanding
    BY <1>5, <2>1, <2>2 DEF WriteKinds
  <2> QED
    BY <1>4, <2>1, <2>2, <2>3 DEF Backs, Writing, StatusSetTo
<1> QED
  BY <1>1, <1>4, <1>5, <1>6, <1>7, OneTaskTouched DEF StatusSetTo

LEMMA SendFileDataTravels ==
    ASSUME TypeOK, TypeOK', TravelInv, [Next]_vars, NEW t \in Threads, NEW p,
           SendFileData(t, p)
    PROVE  TravelInv'
<1> DEFINE s == sync[t]
           blocks == task[s].writes[p].blocks
           empty == ServerDir[p] = <<>>
           visited(S) == {i \in DOMAIN blocks : \A j \in DOMAIN blocks \ S :
                            blocks[j] = "pending" => i < j}
           reads(S) == IF empty THEN {} ELSE S
           sends(S) == {i \in visited(S) : blocks[i] = "dataReady"} \cup (S \ reads(S))
<1>1. /\ ~ SendQueuedMessages /\ ~ ReceiveMessage /\ ~ Answer /\ s \in Syncs
      /\ IsSyncTask(task[s])
  BY NothingElseTravels, WorkersFacts, SyncOfBusyThread
<1>2. p \in DOMAIN task[s].writes /\ task[s].writes[p].status = "processing"
  BY Zenon DEF SendFileData, Writing
<1>3. PICK S \in Started(blocks) :
         /\ task' = [task EXCEPT ![s].writes[p].blocks =
               [i \in DOMAIN blocks |->
                   CASE i \in reads(S) -> "readingData"
                     [] i \in sends(S) -> "dataSent"
                     [] OTHER -> blocks[i]]]
         /\ \E q \in Ascending(sends(S)) :
               queueSend' = queueSend \o [n \in DOMAIN q |-> DataRequest(s, p, q[n])]
  BY ZenonT(30) DEF SendFileData
<1> DEFINE v == [i \in DOMAIN blocks |->
                   CASE i \in reads(S) -> "readingData"
                     [] i \in sends(S) -> "dataSent"
                     [] OTHER -> blocks[i]]
<1>4. S \subseteq DOMAIN blocks /\ \A i \in S : blocks[i] = "pending"
  BY DEF Started
<1>5. /\ DOMAIN v = DOMAIN blocks
      /\ \A i \in sends(S) : /\ i \in DOMAIN blocks /\ v[i] = "dataSent"
                             /\ blocks[i] # "dataSent"
      /\ \A i \in DOMAIN blocks : blocks[i] = "dataSent" => v[i] = "dataSent"
  BY <1>4
<1>6. task' = [task EXCEPT ![s].writes[p].blocks = v]
  BY Zenon, <1>3
<1>7. PICK D : D = sends(S)
  OBVIOUS
<1>8. PICK q \in Ascending(D) :
         queueSend' = queueSend \o [n \in DOMAIN q |-> DataRequest(s, p, q[n])]
  BY <1>3, <1>7
<1>9. /\ \A i \in D : i \in DOMAIN blocks /\ v[i] = "dataSent" /\ blocks[i] # "dataSent"
  BY <1>5, <1>7
<1> HIDE DEF v
<1>10. BlocksSetTo(s, p, v)
  BY Zenon, <1>1, <1>2, <1>6, BlocksOfFile
<1> DEFINE u == [n \in DOMAIN q |-> DataRequest(s, p, q[n])]
           N == {DataRequest(s, p, i) : i \in D}
<1>11. Range(queueSend') \subseteq Range(queueSend) \cup N
  <2>1. p \in DOMAIN ServerDir /\ DOMAIN blocks \subseteq ServerBlocks(p)
    BY <1>1, <1>2 DEF IsSyncTask, IsWriteTask, IsMap
  <2>2. /\ IsFiniteSet(D) /\ Cardinality(D) \in Nat
        /\ DOMAIN q = 1 .. Cardinality(D) /\ \A n \in DOMAIN q : q[n] \in D
    <3>1. D \subseteq ServerBlocks(p)
      BY <1>9, <2>1
    <3> QED
      BY <2>1, <3>1, ServerDirProperties, FS_Subset, FS_CardinalityType, AscendingProperties
  <2>3. u \in Seq(N)
    <3>1. u \in [1 .. Cardinality(D) -> N]
      BY <2>2
    <3> QED
      BY <2>2, <3>1, SeqDef
  <2>4. queueSend \in Seq(Range(queueSend)) /\ queueSend' = queueSend \o u
    BY <1>8, SeqOfRange DEF TypeOK, QueuesTypeOK
  <2> HIDE DEF u
  <2>5. Range(queueSend') = Range(queueSend) \cup Range(u)
    <3>1. PICK A, M : A = Range(queueSend) \cup M /\ M = N
      OBVIOUS
    <3>2. queueSend \in Seq(A) /\ u \in Seq(A)
      <4>1. \A f \in Seq(Range(queueSend)) : f \in Seq(A)
        BY <3>1
      <4>2. \A f \in Seq(M) : f \in Seq(A)
        BY <3>1
      <4> QED
        BY <2>3, <2>4, <3>1, <4>1, <4>2
    <3> QED
      BY <2>4, <3>2, RangeConcatenation
  <2>6. Range(u) \subseteq N
    <3>1. \A i \in DOMAIN u : u[i] \in N
      BY <2>3
    <3> QED
      BY <3>1 DEF Range
  <2> QED
    BY <2>5, <2>6
<1>12. ASSUME NEW r \in N
       PROVE  r \notin Outstanding /\ Backs(r)'
  <2>1. PICK i \in D : r = DataRequest(s, p, i)
    OBVIOUS
  <2>2. r.kind = "data" /\ r.sync = s /\ r.path = p /\ r.index = i
    BY <2>1 DEF DataRequest
  <2>3. r \notin Outstanding
    BY <1>9, <2>2, AskedFor DEF TravelInv, WriteKinds
  <2>4. Backs(r)'
    <3>1. /\ p \in DOMAIN task'[s].writes /\ task'[s].writes[p].status = "processing"
          /\ task'[s].writes[p].blocks = v /\ i \in DOMAIN v /\ v[i] = "dataSent"
      BY <1>2, <1>5, <1>9, <1>10 DEF BlocksSetTo
    <3> QED
      BY <2>2, <3>1 DEF Backs, Writing
  <2> QED
    BY <2>3, <2>4
<1>13. ASSUME NEW r \in Outstanding, r.kind \in WriteKinds, r.sync = s, r.path = p
       PROVE  Backs(r)'
  <2>1. r.kind = "data" /\ r.index \in DOMAIN blocks /\ blocks[r.index] = "dataSent"
    BY <1>2, <1>13, AskedFor DEF TravelInv
  <2>2. /\ p \in DOMAIN task'[s].writes /\ task'[s].writes[p].status = "processing"
        /\ task'[s].writes[p].blocks = v /\ r.index \in DOMAIN v /\ v[r.index] = "dataSent"
    BY <1>2, <1>5, <1>10, <2>1 DEF BlocksSetTo
  <2> QED
    BY <1>13, <2>1, <2>2 DEF Backs, Writing
<1> QED
  <2>1. OtherWritesKept(s, p)
    BY <1>10 DEF BlocksSetTo
  <2>2. PICK x, M : x = s /\ M = N
    OBVIOUS
  <2> HIDE DEF s, N
  <2> QED
    BY <1>1, <1>11, <1>12, <1>13, <2>1, <2>2, OneTaskTouched


-------------------------------------------------------------------------------
(* The write tasks a processor touches *)

LEMMA ReadFileBlockTravels ==
    ASSUME TypeOK, TypeOK', TravelInv, [Next]_vars, NEW t \in Procs, ReadFileBlock(t)
    PROVE  TravelInv'
<1>0. PICK s, path, i : s = sync[t] /\ path = arg[t].path /\ i = arg[t].index
  OBVIOUS
<1> DEFINE blocks == task[s].writes[path].blocks
<1>1. /\ s \in Syncs /\ t \in Threads /\ pc[t] = "fileWriteBlock"
      /\ UNCHANGED <<queueSend, wire, queueReceived>>
  BY <1>0, WorkersFacts DEF ReadFileBlock, queues, launcher
<1>2. ~ SendQueuedMessages /\ ~ ReceiveMessage /\ ~ Answer
  <2>1. pc'[t] # pc[t]
    <3>1. Return(t) \/ \E to : to # "fileWriteBlock" /\ Continue(t, to)
      BY DEF ReadFileBlock
    <3> QED
      BY <1>1, <3>1, ThreadMoves
  <2>2. ~ Answer /\ ~ SendQueuedMessages
    BY <2>1 DEF Answer, SendQueuedMessages, threads
  <2>3. ~ ReceiveMessage
    <3>1. queueReceived # <<>> => Tail(queueReceived) # queueReceived
      <4>1. queueReceived \in Seq(Range(queueReceived))
        BY DEF TypeOK, QueuesTypeOK
      <4> QED
        BY <4>1
    <3> QED
      BY <1>1, <3>1 DEF ReceiveMessage
  <2> QED
    BY <2>2, <2>3
<1>3. CASE UNCHANGED task
  BY <1>1, <1>2, <1>3, TravelUntouched DEF WritesKept
<1>4. ASSUME path \in DOMAIN task[s].writes, i \in DOMAIN blocks,
             blocks[i] = "readingData", NEW u,
             task' = [task EXCEPT ![s].writes[path].blocks[i] = u]
      PROVE  TravelInv'
  <2> DEFINE v == [blocks EXCEPT ![i] = u]
  <2>1. DOMAIN v = DOMAIN blocks
    OBVIOUS
  <2>2. \A j \in DOMAIN blocks : blocks[j] = "dataSent" => v[j] = "dataSent"
    <3> HIDE DEF blocks
    <3> QED
      BY <1>4
  <2>3. task' = [task EXCEPT ![s].writes[path].blocks = v]
    BY <1>4
  <2> HIDE DEF v
  <2>4. BlocksSetTo(s, path, v)
    BY Zenon, <1>1, <1>4, <2>3, BlocksOfFile
  <2>5. ASSUME NEW r \in Outstanding, r.kind \in WriteKinds, r.sync = s, r.path = path
        PROVE  Backs(r)'
    <3>1. Backs(r)
      BY DEF TravelInv, Backed
    <3> QED
      BY <2>1, <2>2, <2>4, <2>5, <3>1 DEF Backs, Writing, BlocksSetTo
  <2>6. PICK N : N = {} /\ Range(queueSend') \subseteq Range(queueSend) \cup N
    BY <1>1
  <2>7. OtherWritesKept(s, path)
    BY <2>4 DEF BlocksSetTo
  <2> QED
    BY <1>1, <1>2, <2>5, <2>6, <2>7, OneTaskTouched
<1> QED
  BY Zenon, <1>0, <1>3, <1>4 DEF ReadFileBlock

\* There were no write tasks, so nothing was asked about one.
LEMMA WritingPreparedTravels ==
    ASSUME TypeOK, TypeOK', StagesKept, TravelInv, [Next]_vars, NEW t \in Procs,
           WritingPrepared(t)
    PROVE  TravelInv'
<1>0. PICK s : s = sync[t]
  OBVIOUS
<1>1. /\ s \in Syncs /\ t \in Threads /\ t # Main /\ pc[t] = "delete"
      /\ UNCHANGED <<queueSend, wire, queueReceived>>
  BY <1>0, WorkersFacts DEF WritingPrepared, queues, launcher
<1>2. NothingToWrite(s)
  BY <1>0, <1>1 DEF StagesKept, PreparedInTime, WritePlaces
<1>3. pc'[Main] = pc[Main] /\ arg'[Main] = arg[Main] /\ sync'[Main] = sync[Main]
  BY <1>1, OthersRest, WorkersFacts DEF RunTaskStep, OthersStay
<1>4. \A x \in Syncs : x # s => task'[x] = task[x]
  <2>1. PICK writes :
           task' = [task EXCEPT ![s].writes = writes, ![s].status = "processWriting"]
    BY Zenon, <1>0 DEF WritingPrepared
  <2> QED
    BY <2>1 DEF TypeOK, TasksTypeOK
<1>5. ASSUME NEW r \in Outstanding
      PROVE  Backs(r)'
  <2>1. Backed
    BY DEF TravelInv
  <2>2. r.kind \in WriteKinds =>
           r.sync \in Syncs /\ r.sync # s /\ r.path \in DOMAIN task[r.sync].writes
    BY <1>2, <2>1, AskedFor DEF NothingToWrite
  <2>3. r.kind \in WriteKinds => task'[r.sync] = task[r.sync]
    BY <1>4, <2>2
  <2> QED
    BY <2>1, <2>2, <2>3, SameWriteTask
<1>6. PICK N : N = {} /\ Range(queueSend') \subseteq Range(queueSend) \cup N
  BY <1>1
<1> QED
  BY <1>1, <1>3, <1>5, <1>6, TravelGoesOn DEF MainGoesOn

-------------------------------------------------------------------------------
(* Requests and answers travel *)

LEMMA SendQueuedTravels ==
    ASSUME TypeOK, TravelInv, SendQueuedMessages
    PROVE  TravelInv'
<1>1. /\ pc[Main] = "idle" /\ queueSend' = <<>> /\ wire' = wire \cup Range(queueSend)
      /\ UNCHANGED <<queueReceived, task, pc, arg, sync>>
  BY DEF SendQueuedMessages, threads
<1>2. Range(queueSend') = {}
  BY <1>1 DEF Range
<1>3. /\ \A r : Received(r)' <=> Received(r)
      /\ \A r : ~ AtHand(r) /\ ~ AtHand(r)'
  BY <1>1 DEF Received, AtHand
<1>4. OneCopy'
  BY <1>1, <1>2, <1>3 DEF TravelInv, OneCopy
<1>5. Outstanding' = Outstanding
  BY <1>1, <1>2 DEF Outstanding
<1>6. \A r : Backs(r)' <=> Backs(r)
  BY <1>1 DEF Backs, Writing
<1>7. Backed'
  BY <1>5, <1>6 DEF TravelInv, Backed
<1> QED
  BY <1>1, <1>4, <1>7 DEF TravelInv, TakenInTime

LEMMA ReceiveTravels ==
    ASSUME TypeOK, TravelInv, AnswersInTime, ReceiveMessage
    PROVE  TravelInv'
<1> DEFINE m == Head(queueReceived)
<1>1. /\ pc[Main] = "idle" /\ queueReceived # <<>> /\ queueReceived' = Tail(queueReceived)
      /\ UNCHANGED <<queueSend, wire, task>>
  BY DEF ReceiveMessage, launcher
<1>2. /\ queueReceived \in Seq(Range(queueReceived))
      /\ 1 \in DOMAIN queueReceived /\ m = queueReceived[1] /\ m \in Range(queueReceived)
      /\ \A i \in DOMAIN queueReceived' : /\ i \in Nat /\ i + 1 \in DOMAIN queueReceived
                                          /\ i + 1 # 1
                                          /\ queueReceived'[i] = queueReceived[i + 1]
  <2>1. queueReceived \in Seq(Range(queueReceived))
    BY DEF TypeOK, QueuesTypeOK
  <2>2. Len(queueReceived) \in Nat /\ Len(queueReceived) > 0
    BY <1>1, <2>1
  <2>3. 1 \in DOMAIN queueReceived /\ m = queueReceived[1]
    BY <2>1, <2>2
  <2>4. \A i \in DOMAIN queueReceived' : /\ i \in Nat /\ i + 1 \in DOMAIN queueReceived
                                         /\ queueReceived'[i] = queueReceived[i + 1]
    BY <1>1, <2>1, <2>2
  <2> QED
    BY <2>1, <2>3, <2>4 DEF Range
<1>3. \A r : Received(r)' => Received(r)
  BY <1>2 DEF Received
<1>4. Received(m.req) /\ ~ AtHand(m.req)
  BY <1>1, <1>2 DEF Received, AtHand
<1>5. \A r \in Requests : r.kind \in WriteKinds =>
         /\ m.req = r => ~ Received(r)'
         /\ \A i, j \in DOMAIN queueReceived' :
               queueReceived'[i].req = r /\ queueReceived'[j].req = r => i = j
  <2>1. SUFFICES ASSUME NEW r \in Requests, r.kind \in WriteKinds
                 PROVE  /\ m.req = r => ~ Received(r)'
                        /\ \A i, j \in DOMAIN queueReceived' :
                             queueReceived'[i].req = r /\ queueReceived'[j].req = r => i = j
    OBVIOUS
  <2>2. \A i, j \in DOMAIN queueReceived :
           queueReceived[i].req = r /\ queueReceived[j].req = r => i = j
    BY <2>1 DEF TravelInv, OneCopy
  <2>3. m.req = r => ~ Received(r)'
    BY <1>2, <2>2 DEF Received
  <2>4. ASSUME NEW i \in DOMAIN queueReceived', NEW j \in DOMAIN queueReceived',
               queueReceived'[i].req = r, queueReceived'[j].req = r
        PROVE  i = j
    <3>1. i \in Nat /\ j \in Nat /\ i + 1 = j + 1
      BY <1>2, <2>2, <2>4
    <3> QED
      BY <3>1
  <2> QED
    BY <2>3, <2>4
<1>6. \/ UNCHANGED threads
      \/ /\ taskSync # None /\ Goto(Main, "apply") /\ sync' = [sync EXCEPT ![Main] = taskSync]
         /\ arg' = [arg EXCEPT ![Main] = m]
  BY DEF ReceiveMessage
<1>7. CASE UNCHANGED threads
  <2>1. pc'[Main] = "idle" /\ \A r : ~ AtHand(r)'
    BY <1>1, <1>7 DEF threads, AtHand
  <2>2. OneCopy'
    BY <1>1, <1>3, <1>5, <2>1 DEF TravelInv, OneCopy
  <2>3. Outstanding' \subseteq Outstanding
    <3>1. Range(queueReceived') \subseteq Range(queueReceived)
      BY <1>1, <1>2, TailTyped
    <3> QED
      BY <1>1, <2>1, <3>1 DEF Outstanding
  <2>4. Backed'
    BY <1>1, <2>3 DEF TravelInv, Backed, Backs, Writing
  <2> QED
    BY <2>1, <2>2, <2>4 DEF TravelInv, TakenInTime
<1>8. CASE /\ taskSync # None /\ Goto(Main, "apply") /\ sync' = [sync EXCEPT ![Main] = taskSync]
           /\ arg' = [arg EXCEPT ![Main] = m]
  <2>1. pc'[Main] = "apply" /\ arg'[Main] = m /\ sync'[Main] = taskSync
    BY <1>8, WorkersFacts DEF TypeOK, ThreadsTypeOK, ArgsTypeOK, Goto
  <2>2. \A r : AtHand(r)' <=> r = m.req
    BY <2>1 DEF AtHand
  <2>3. \A r \in Requests : r.kind \in WriteKinds /\ r = m.req =>
           r \notin Range(queueSend) /\ r \notin wire
    BY <1>4 DEF TravelInv, OneCopy
  <2>4. OneCopy'
    <3> SUFFICES ASSUME NEW r \in Requests, r.kind \in WriteKinds
                 PROVE  /\ r \in Range(queueSend') =>
                              r \notin wire' /\ ~ Received(r)' /\ ~ AtHand(r)'
                        /\ r \in wire' => ~ Received(r)' /\ ~ AtHand(r)'
                        /\ Received(r)' => ~ AtHand(r)'
                        /\ \A i, j \in DOMAIN queueReceived' :
                              queueReceived'[i].req = r /\ queueReceived'[j].req = r => i = j
      BY DEF OneCopy, Requests, AboutBlocks
    <3>1. /\ r \in Range(queueSend) => r \notin wire /\ ~ Received(r) /\ ~ AtHand(r)
          /\ r \in wire => ~ Received(r) /\ ~ AtHand(r)
      BY DEF TravelInv, OneCopy
    <3> QED
      BY <1>1, <1>3, <1>5, <2>2, <2>3, <3>1
  <2>5. Outstanding' \subseteq Outstanding
    <3>1. Range(queueReceived') \subseteq Range(queueReceived)
      BY <1>1, <1>2, TailTyped
    <3> QED
      BY <1>1, <1>2, <2>1, <3>1 DEF Outstanding
  <2>6. Backed'
    BY <1>1, <2>5 DEF TravelInv, Backed, Backs, Writing
  <2>7. TakenInTime'
    BY <1>2, <1>8, <2>1 DEF TakenInTime, AnswersInTime
  <2> QED
    BY <2>4, <2>6, <2>7 DEF TravelInv
<1> QED
  BY <1>6, <1>7, <1>8

LEMMA AnswerTravels ==
    ASSUME TypeOK, TravelInv, Answer
    PROVE  TravelInv'
<1>1. PICK m, a :
         /\ m \in wire /\ wire' = wire \ {m} /\ a.req = m /\ queueReceived' = Append(queueReceived, a)
         /\ UNCHANGED <<task, queueSend, pc, arg, sync>>
  BY DEF Answer, threads
<1>2. PICK n \in Nat : n = Len(queueReceived) + 1 /\ DOMAIN queueReceived = 1 .. n - 1
                       /\ DOMAIN queueReceived' = 1 .. n /\ queueReceived'[n] = a
                       /\ \A i \in 1 .. n - 1 : queueReceived'[i] = queueReceived[i]
  <2>1. queueReceived \in Seq(Range(queueReceived))
    BY DEF TypeOK, QueuesTypeOK
  <2> DEFINE S == Range(queueReceived) \cup {a}
  <2>2. queueReceived \in Seq(S) /\ a \in S
    <3>1. \A q \in Seq(Range(queueReceived)) : q \in Seq(S)
      OBVIOUS
    <3> QED
      BY <2>1, <3>1
  <2> HIDE DEF S
  <2> QED
    BY <1>1, <2>2
<1>3. \A r : Received(r)' <=> Received(r) \/ r = m
  <2>1. \A r : Received(r)' <=> \E i \in 1 .. n : queueReceived'[i].req = r
    BY <1>2 DEF Received
  <2>2. \A r : Received(r) <=> \E i \in 1 .. n - 1 : queueReceived[i].req = r
    BY <1>2 DEF Received
  <2>3. \A i \in 1 .. n : i = n \/ i \in 1 .. n - 1
    OBVIOUS
  <2>4. n \in 1 .. n /\ \A i \in 1 .. n - 1 : i \in 1 .. n
    BY <1>2
  <2> QED
    BY <1>1, <1>2, <2>1, <2>2, <2>3, <2>4
<1>4. \A r : AtHand(r)' <=> AtHand(r)
  BY <1>1 DEF AtHand
<1>5. OneCopy'
  <2>1. ASSUME NEW r \in Requests, r.kind \in WriteKinds
        PROVE  /\ r \in Range(queueSend') =>
                     r \notin wire' /\ ~ Received(r)' /\ ~ AtHand(r)'
               /\ r \in wire' => ~ Received(r)' /\ ~ AtHand(r)'
               /\ Received(r)' => ~ AtHand(r)'
               /\ \A i, j \in DOMAIN queueReceived' :
                     queueReceived'[i].req = r /\ queueReceived'[j].req = r => i = j
    <3>1. /\ r \in Range(queueSend) => r \notin wire /\ ~ Received(r) /\ ~ AtHand(r)
          /\ r \in wire => ~ Received(r) /\ ~ AtHand(r)
          /\ Received(r) => ~ AtHand(r)
          /\ \A i, j \in DOMAIN queueReceived :
                queueReceived[i].req = r /\ queueReceived[j].req = r => i = j
      BY <2>1 DEF TravelInv, OneCopy
    <3>2. ASSUME NEW i \in DOMAIN queueReceived', NEW j \in DOMAIN queueReceived',
                 queueReceived'[i].req = r, queueReceived'[j].req = r
          PROVE  i = j
      <4>1. CASE r = m
        <5>1. ~ Received(r)
          BY <1>1, <3>1, <4>1
        <5>2. \A k \in 1 .. n - 1 : queueReceived'[k].req # r
          BY <1>2, <5>1 DEF Received
        <5>3. i \in 1 .. n /\ j \in 1 .. n /\ i \notin 1 .. n - 1 /\ j \notin 1 .. n - 1
          BY <1>2, <3>2, <5>2
        <5> QED
          BY <5>3
      <4>2. CASE r # m
        <5>1. i # n /\ j # n /\ i \in 1 .. n /\ j \in 1 .. n
          BY <1>1, <1>2, <3>2, <4>2
        <5>2. i \in 1 .. n - 1 /\ j \in 1 .. n - 1
          BY <5>1
        <5> QED
          BY <1>2, <3>1, <3>2, <5>2
      <4> QED
        BY <4>1, <4>2
    <3> QED
      BY <1>1, <1>3, <1>4, <3>1, <3>2
  <2> QED
    BY <2>1 DEF OneCopy, Requests, AboutBlocks
<1>6. Outstanding' \subseteq Outstanding
  <2>1. Range(queueReceived') = Range(queueReceived) \cup {a}
    BY <1>1, AppendTyped DEF TypeOK, QueuesTypeOK
  <2> QED
    BY <1>1, <2>1 DEF Outstanding
<1>7. Backed'
  BY <1>1, <1>6 DEF TravelInv, Backed, Backs, Writing
<1> QED
  BY <1>1, <1>5, <1>7 DEF TravelInv, TakenInTime


-------------------------------------------------------------------------------
(* All steps *)

\* What the steps that leave the write tasks alone add to the queue.
LEMMA OtherRequests ==
    ASSUME [Next]_vars, ~ SendQueuedMessages,
           \A t \in Threads : \A p : /\ ~ RequestWriteFile(t, p) /\ ~ RequestFinishWriteFile(t, p)
                                     /\ ~ SendFileData(t, p)
    PROVE  \/ UNCHANGED queueSend
           \/ \E e : e.kind \notin WriteKinds /\ queueSend' = Append(queueSend, e)
<1>1. ASSUME NEW e, e.kind \notin WriteKinds, queueSend' = Append(queueSend, e)
      PROVE  \E x : x.kind \notin WriteKinds /\ queueSend' = Append(queueSend, x)
  BY <1>1
<1>2. \A s, p : /\ LayoutRequest(s).kind \notin WriteKinds
                /\ PathRequest("hashes", s, p).kind \notin WriteKinds
                /\ PathRequest("delete", s, p).kind \notin WriteKinds
  BY DEF LayoutRequest, PathRequest, WriteKinds
<1>3. CASE UpdateStep
  BY <1>3 DEF UpdateStep, ReceiveMessage, ProcessResponseFileLayout,
     ProcessResponseFileBlockHashes, CheckFinishedHashes, EnqueueSyncTask,
     ProcessResponseDeleteFile, ProcessResponseWriteFile, ProcessFileDataReceived,
     ProcessResponseFinishWriteFile, CheckFinishedWrite, queues
<1>4. ASSUME NEW p \in Procs, RunTaskStep(p)
      PROVE  \/ UNCHANGED queueSend
             \/ \E e : e.kind \notin WriteKinds /\ queueSend' = Append(queueSend, e)
  <2>1. CASE AddFileBlockHashTask(p)
    <3>1. PICK path : queueSend' = Append(queueSend, PathRequest("hashes", sync[p], path))
      BY <2>1 DEF AddFileBlockHashTask
    <3> QED
      BY <1>1, <1>2, <3>1
  <2>2. CASE AddFileDeleteTask(p)
    <3>1. PICK path : queueSend' = Append(queueSend, PathRequest("delete", sync[p], path))
      BY <2>2 DEF AddFileDeleteTask
    <3> QED
      BY <1>1, <1>2, <3>1
  <2>3. CASE ~ (AddFileBlockHashTask(p) \/ AddFileDeleteTask(p))
    <3>1. UNCHANGED queues
      BY Zenon, <1>4, <2>3 DEF RunTaskStep, TakeTask, ProcessFileLayoutServer, LayoutServerBuilt,
         RunSyncTask, LookUpLayouts, LockForHashing, HashingPrepared, LockForWriting,
         WritingPrepared, ReadFileBlock, SendBlockRead
    <3> QED
      BY <3>1 DEF queues
  <2> QED
    BY <2>1, <2>2, <2>3
<1>5. ASSUME NEW t \in Threads, SharedStep(t)
      PROVE  UNCHANGED queueSend
  <2>1. UNCHANGED queues \/ UNCHANGED queueSend
    BY Zenon, <1>5 DEF SharedStep, FinishLayout, SucceedSynchronization, FailSynchronization,
       ClearPendingTasks, SendNextWriteRequests, LockForSending, SendingDone, SkipFile
  <2> QED
    BY <2>1 DEF queues
<1>6. CASE Synchronize
  <2>1. queueSend' = Append(queueSend, LayoutRequest(syncs + 1))
    BY <1>6 DEF Synchronize
  <2> QED
    BY <1>1, <1>2, <2>1
<1>7. CASE Answer \/ UNCHANGED vars
  BY <1>7 DEF Answer, vars, queues
<1>8. \/ UpdateStep \/ Synchronize \/ Answer \/ UNCHANGED vars
      \/ \E p \in Procs : RunTaskStep(p)
      \/ \E t \in Threads : SharedStep(t)
  BY Zenon DEF Next
<1> QED
  BY <1>3, <1>4, <1>5, <1>6, <1>7, <1>8

LEMMA NextTravel ==
    ASSUME TypeOK, TypeOK', CountsInv, StagesKept, TravelInv, AnswersInTime, [Next]_vars
    PROVE  TravelInv'
<1>1. CASE SendQueuedMessages
  BY <1>1, SendQueuedTravels
<1>2. CASE ReceiveMessage
  BY <1>2, ReceiveTravels
<1>3. CASE Answer
  BY <1>3, AnswerTravels
<1>4. CASE \/ ProcessResponseWriteFile \/ ProcessFileDataReceived
           \/ ProcessResponseFinishWriteFile
  BY <1>4, ResponseWriteTravels, FileDataReceivedTravels, ResponseFinishTravels
<1>5. CASE \E t \in Threads : \E p :
              RequestWriteFile(t, p) \/ RequestFinishWriteFile(t, p) \/ SendFileData(t, p)
  BY <1>5, RequestWriteTravels, SendFileDataTravels
<1>6. CASE \E t \in Procs : ReadFileBlock(t) \/ WritingPrepared(t)
  BY <1>6, ReadFileBlockTravels, WritingPreparedTravels
<1>7. ASSUME ~ SendQueuedMessages, ~ ReceiveMessage, ~ Answer,
             ~ ProcessResponseWriteFile, ~ ProcessFileDataReceived,
             ~ ProcessResponseFinishWriteFile,
             ~ (\E t \in Threads : \E p :
                   RequestWriteFile(t, p) \/ RequestFinishWriteFile(t, p) \/ SendFileData(t, p)),
             ~ (\E t \in Procs : ReadFileBlock(t) \/ WritingPrepared(t))
      PROVE  TravelInv'
  <2>1. WritesKept
    <3>1. CASE CheckFinishedHashes
      <4>1. \/ UNCHANGED task
            \/ task' = [task EXCEPT ![sync[Main]].status = "prepareTasksWriting"]
        BY <3>1, Zenon DEF CheckFinishedHashes
      <4> QED
        BY <4>1, FieldKept
    <3>2. CASE \E t \in Procs : HashingPrepared(t)
      <4>1. PICK s, v : task' = [task EXCEPT ![s].status = v]
        BY <3>2 DEF HashingPrepared
      <4> QED
        BY <4>1, FieldKept
    <3>3. CASE ~ CheckFinishedHashes /\ ~ \E t \in Procs : HashingPrepared(t)
      BY <1>7, <3>3, OtherStepsCount
         DEF Next, UpdateStep, RunTaskStep, SharedStep, SendNextWriteRequests
    <3> QED
      BY <3>1, <3>2, <3>3
  <2>2. \/ UNCHANGED queueSend
        \/ \E e : e.kind \notin WriteKinds /\ queueSend' = Append(queueSend, e)
    BY <1>7, OtherRequests
  <2> QED
    BY <1>7, <2>1, <2>2, TravelUntouched
<1> QED
  BY <1>1, <1>2, <1>3, <1>4, <1>5, <1>6, <1>7

LEMMA InitTravel == Init => TravelInv
<1> SUFFICES ASSUME Init PROVE TravelInv
  OBVIOUS
<1>1. /\ queueSend = <<>> /\ queueReceived = <<>> /\ wire = {}
      /\ pc[Main] = "idle"
  BY DEF Init, Threads
<1>2. Range(queueSend) = {} /\ Outstanding = {}
  BY <1>1 DEF Range, Outstanding
<1>3. OneCopy
  BY <1>1, <1>2 DEF OneCopy, Received, AtHand
<1> QED
  BY <1>1, <1>2, <1>3 DEF TravelInv, Backed, TakenInTime

\* A write task is in one state, so all requests about it are of one kind.
LEMMA OneKindOfRequest ==
    ASSUME TypeOK, TravelInv
    PROVE  StagesInOrder
BY AskedFor DEF TravelInv, StagesInOrder, WriteKinds


(* With one processor - what StartTaskProcessors() starts - and answers to an
   attempt that failed never left for the next one to read, what the launcher is
   asked about a file comes in order: no block is sent before the launcher
   agreed to write the file, and the request to finish only when every block was
   acknowledged.  Without the second hypothesis it does not hold: an answer names
   the path and the block but not the attempt, so a late one stands for a request
   that is still on its way. *)
THEOREM StagesComeInOrder ==
    ASSUME \A p, q \in Procs : p = q
    PROVE  Spec /\ []AnswersInTime => []StagesInOrder
<1> DEFINE Inv == TypeOK /\ CountsInv /\ StagesKept /\ TravelInv
<1>1. Init => Inv
  BY InitTypeOK, InitCounts, InitTravel
<1>2. Inv /\ AnswersInTime /\ [Next]_vars => Inv'
  <2> SUFFICES ASSUME Inv, AnswersInTime, [Next]_vars
               PROVE  Inv'
    OBVIOUS
  <2>1. TypeOK' /\ CountsInv' /\ StagesKept'
    BY NextTypeOK, NextCounts
  <2>2. TravelInv'
    BY <2>1, NextTravel
  <2> QED
    BY <2>1, <2>2
<1>3. Inv => StagesInOrder
  BY OneKindOfRequest
<1> HIDE DEF Inv
<1> QED
  BY <1>1, <1>2, <1>3, PTL DEF Spec

\* Every answer is for the only attempt.
LEMMA OneAttemptAnswers ==
    ASSUME TypeOK, MaxSyncs = 1
    PROVE  AnswersInTime
<1> SUFFICES ASSUME NEW m \in Range(queueReceived)
             PROVE  taskSync \in {None, m.req.sync}
  BY DEF AnswersInTime
<1>1. m.req \in Requests
  BY DEF TypeOK, QueuesTypeOK, IsResponse
<1>2. m.req.sync \in Syncs
  BY <1>1, RequestShapes
<1> QED
  BY <1>2 DEF Syncs, None, TypeOK, ClientTypeOK

(* With one attempt there is no late answer, and StagesInOrder holds of every
   behaviour with one task processor, whatever fails. *)
THEOREM OneAttemptInOrder ==
    ASSUME \A p, q \in Procs : p = q, MaxSyncs = 1
    PROVE  Spec => []StagesInOrder
<1>1. TypeOK => AnswersInTime
  BY OneAttemptAnswers
<1>2. Spec => []TypeOK
  BY TypeCorrect
<1>3. Spec /\ []AnswersInTime => []StagesInOrder
  BY StagesComeInOrder
<1> QED
  BY <1>1, <1>2, <1>3, PTL

-------------------------------------------------------------------------------
(* What the launcher has, and what is known of it *)

\* The launcher's file is the server's.
Right(p) == p \in DOMAIN files /\ files[p] = ServerDir[p]

\* A layout received names every file to delete, and what it says is right is.
Tells(dir) ==
    /\ DOMAIN files \subseteq DOMAIN dir \cup DOMAIN ServerDir
    /\ \A p \in DOMAIN ServerDir : p \in DOMAIN dir /\ dir[p] = ServerDir[p] => Right(p)

Fits(layout) ==
    /\ DOMAIN files \subseteq DOMAIN layout \cup DOMAIN ServerDir
    /\ \A p \in DOMAIN ServerDir :
          p \in DOMAIN layout /\ layout[p].data = ServerDir[p] => Right(p)

Answers == Range(queueReceived) \cup (IF pc[Main] = "apply" THEN {arg[Main]} ELSE {})

DeletesOthers ==
    /\ \A p \in Procs : pc[p] = "delete" => todo[p] \cap DOMAIN ServerDir = {}
    /\ \A r \in Outstanding : r.kind = "delete" => r.path \notin DOMAIN ServerDir

\* What was true when the launcher said it still is.
AnswersTrue ==
    \A m \in Answers :
        /\ m.req.kind = "layout" => Tells(m.body)
        /\ m.req.kind = "delete" /\ m.ok => m.req.path \notin DOMAIN files
        /\ m.req.kind = "finish" /\ m.ok /\ m.req.path \in DOMAIN ServerDir => Right(m.req.path)

LayoutFits ==
    /\ \A s \in Syncs : "client" \notin task[s].want => Fits(task[s].layout)
    /\ pc[Main] = "layoutDone" => Fits(task[sync[Main]].layout)

ClientOwn == taskSync # None => layoutClient \in {None, taskSync}

OwnLayout ==
    \A p \in Procs : pc[p] \in {"hashLock", "hash", "deleteLock", "delete"} =>
        arg[p] = LayoutOf(sync[p])

WantFirst ==
    \A s \in Syncs :
        task[s].status \in {"prepareTasksWriting", "processWriting"} => task[s].want = {}

StillOpen ==
    taskSync # None =>
        /\ task[taskSync].status # "failure"
        /\ task[taskSync].status = "success" => pc[Main] = "succeed"

DeletesComplete ==
    \A p \in Procs : pc[p] = "delete" =>
        DOMAIN files \ DOMAIN ServerDir \subseteq todo[p] \cup task[sync[p]].deletes

\* The tasks of an attempt are all that is left to do.
Remaining(tk) ==
    /\ \A p \in DOMAIN ServerDir : p \in DOMAIN tk.writes \/ Right(p)
    /\ DOMAIN files \ DOMAIN ServerDir \subseteq tk.deletes

FilesLeft == Stage({"processWriting"}) /\ pc[Main] # "fail" => Remaining(task[taskSync])

Finished == syncStatus = "ready" \/ (pc[Main] = "succeed" /\ taskSync # None)

ReadyDone == Finished => files = ServerDir

FilesInv ==
    /\ DeletesOthers /\ AnswersTrue /\ LayoutFits /\ ClientOwn /\ OwnLayout /\ WantFirst
    /\ StillOpen /\ DeletesComplete /\ FilesLeft /\ ReadyDone

-------------------------------------------------------------------------------
(* What a step leaves of the files and of the work to do *)

\* Only the launcher changes its files.
LEMMA FilesRest ==
    ASSUME [Next]_vars, ~ Answer
    PROVE  UNCHANGED files
<1>1. ASSUME UpdateStep
      PROVE  UNCHANGED files
  <2>1. UNCHANGED launcher \/ UNCHANGED files
    BY Zenon, <1>1 DEF UpdateStep, SendQueuedMessages, ReceiveMessage, ProcessResponseFileLayout,
       ProcessResponseFileBlockHashes, CheckFinishedHashes, EnqueueSyncTask,
       ProcessResponseDeleteFile, ProcessResponseWriteFile, ProcessFileDataReceived,
       ProcessResponseFinishWriteFile, CheckFinishedWrite
  <2> QED
    BY <2>1 DEF launcher
<1>2. ASSUME NEW p \in Procs, RunTaskStep(p)
      PROVE  UNCHANGED files
  <2>1. UNCHANGED launcher
    BY Zenon, <1>2 DEF RunTaskStep, TakeTask, ProcessFileLayoutServer, LayoutServerBuilt,
       RunSyncTask, LookUpLayouts, LockForHashing, AddFileBlockHashTask, HashingPrepared,
       LockForWriting, AddFileDeleteTask, WritingPrepared, ReadFileBlock, SendBlockRead
  <2> QED
    BY <2>1 DEF launcher
<1>3. ASSUME NEW t \in Threads, SharedStep(t)
      PROVE  UNCHANGED files
  <2>1. UNCHANGED launcher
    BY Zenon, <1>3 DEF SharedStep, FinishLayout, SucceedSynchronization, FailSynchronization,
       ClearPendingTasks, SendNextWriteRequests, LockForSending, RequestWriteFile,
       RequestFinishWriteFile, SendFileData, SkipFile, SendingDone, Visit
  <2> QED
    BY <2>1 DEF launcher
<1>4. Synchronize \/ UNCHANGED vars => UNCHANGED files
  BY DEF Synchronize, vars, launcher
<1>5. \/ UpdateStep \/ Synchronize \/ UNCHANGED vars
      \/ \E p \in Procs : RunTaskStep(p)
      \/ \E t \in Threads : SharedStep(t)
  BY Zenon DEF Next
<1> QED
  BY <1>1, <1>2, <1>3, <1>4, <1>5

\* Only the launcher adds an answer.
LEMMA AnswersRest ==
    ASSUME TypeOK, [Next]_vars, ~ Answer
    PROVE  Answers' \subseteq Answers
<1>0. queueReceived \in Seq(Range(queueReceived))
  BY DEF TypeOK, QueuesTypeOK
<1>1. CASE ReceiveMessage
  <2>1. /\ pc[Main] = "idle" /\ queueReceived # <<>> /\ queueReceived' = Tail(queueReceived)
        /\ UNCHANGED threads \/ arg' = [arg EXCEPT ![Main] = Head(queueReceived)]
    BY <1>1 DEF ReceiveMessage
  <2>2. Range(queueReceived') \subseteq Range(queueReceived)
    BY <1>0, <2>1, TailTyped
  <2>3. Head(queueReceived) \in Range(queueReceived)
    BY <1>0, <2>1 DEF Range
  <2>4. pc'[Main] = "apply" => arg'[Main] = Head(queueReceived)
    BY <2>1, WorkersFacts DEF threads, TypeOK, ArgsTypeOK
  <2> QED
    BY <2>2, <2>3, <2>4 DEF Answers
<1>2. CASE ~ ReceiveMessage
  <2>1. MainGoesOn
    BY <1>2, MainContinues
  <2>2. UNCHANGED queueReceived
    BY <1>2, TravelRests DEF SendQueuedMessages
  <2> QED
    BY <2>1, <2>2 DEF Answers, MainGoesOn
<1> QED
  BY <1>1, <1>2

SameLayouts ==
    \A s \in Syncs :
        /\ DOMAIN task'[s].layout = DOMAIN task[s].layout
        /\ \A p \in DOMAIN task[s].layout : task'[s].layout[p].data = task[s].layout[p].data

\* The layouts, the files to delete and the files to write are as before.
SameWork ==
    /\ SameLayouts /\ SameDomains
    /\ \A s \in Syncs : task'[s].deletes = task[s].deletes

LEMMA WorkOfField ==
    ASSUME TypeOK, NEW s, NEW v,
           \/ task' = task
           \/ task' = [task EXCEPT ![s].status = v]
           \/ task' = [task EXCEPT ![s].want = v]
           \/ \E p : task' = [task EXCEPT ![s].writes[p].status = v]
           \/ \E p : task' = [task EXCEPT ![s].writes[p].blocks = v]
           \/ \E p, i : task' = [task EXCEPT ![s].writes[p].blocks[i] = v]
    PROVE  SameWork
<1>1. /\ DOMAIN task = Syncs
      /\ \A x \in Syncs :
            DOMAIN task[x] = {"status", "want", "layout", "hashes", "deletes", "writes"}
  BY DEF TypeOK, TasksTypeOK, IsSyncTask, NewTask
<1>2. SameLayouts
  BY <1>1 DEF SameLayouts
<1>3. SameDomains
  BY <1>1 DEF SameDomains
<1>4. \A x \in Syncs : task'[x].deletes = task[x].deletes
  BY <1>1
<1> QED
  BY <1>2, <1>3, <1>4 DEF SameWork

LEMMA WorkOfHashing ==
    ASSUME TypeOK, NEW t \in Procs, AddFileBlockHashTask(t)
    PROVE  SameWork
<1>1. PICK path \in todo[t] :
         task' = [task EXCEPT
            ![arg[t].sync].layout[path].hashes = [i \in ServerBlocks(path) |-> Hole],
            ![sync[t]].hashes = @ \cup {path}]
  BY Zenon DEF AddFileBlockHashTask
<1>2. /\ DOMAIN task = Syncs
      /\ \A x \in Syncs :
            /\ DOMAIN task[x] = {"status", "want", "layout", "hashes", "deletes", "writes"}
            /\ \A q \in DOMAIN task[x].layout : DOMAIN task[x].layout[q] = {"data", "hashes"}
  BY DEF TypeOK, TasksTypeOK, IsSyncTask, IsMap, NewTask
<1>3. SameDomains /\ \A x \in Syncs : task'[x].deletes = task[x].deletes
  BY <1>1, <1>2 DEF SameDomains
<1>4. PICK a, s, v, w : task' = [[task EXCEPT ![a].layout[path].hashes = v] EXCEPT ![s].hashes = w]
  BY <1>1
<1>5. SameLayouts
  <2> DEFINE new == [task EXCEPT ![a].layout[path].hashes = v]
  <2>1. /\ DOMAIN new = Syncs
        /\ \A x \in Syncs : /\ DOMAIN new[x] = DOMAIN task[x]
                            /\ DOMAIN new[x].layout = DOMAIN task[x].layout
                            /\ \A q \in DOMAIN task[x].layout :
                                  new[x].layout[q].data = task[x].layout[q].data
    BY <1>2
  <2> HIDE DEF new
  <2>2. task' = [new EXCEPT ![s].hashes = w]
    BY <1>4 DEF new
  <2> QED
    BY <1>2, <2>1, <2>2 DEF SameLayouts
<1> QED
  BY <1>3, <1>5 DEF SameWork

LEMMA WorkOfHashes ==
    ASSUME TypeOK, ProcessResponseFileBlockHashes
    PROVE  SameWork
<1> DEFINE s == sync[Main]
           p == arg[Main].req.path
           hashes == arg[Main].body
           l == layoutClient
           erased == [task EXCEPT ![s].hashes = @ \ {p}]
<1>1. /\ DOMAIN task = Syncs
      /\ \A x \in Syncs :
            /\ DOMAIN task[x] = {"status", "want", "layout", "hashes", "deletes", "writes"}
            /\ \A q \in DOMAIN task[x].layout : DOMAIN task[x].layout[q] = {"data", "hashes"}
  BY DEF TypeOK, TasksTypeOK, IsSyncTask, IsMap, NewTask
<1>2. /\ DOMAIN erased = Syncs
      /\ \A x \in Syncs : /\ DOMAIN erased[x] = DOMAIN task[x]
                          /\ erased[x].layout = task[x].layout
                          /\ erased[x].writes = task[x].writes
                          /\ erased[x].deletes = task[x].deletes
  BY <1>1
<1>3. \/ task' = task
      \/ task' = erased
      \/ \E v : task' = [erased EXCEPT ![l].layout[p].hashes = v]
  <2>1. \/ task' = task
        \/ task' = erased
        \/ task' = [erased EXCEPT ![l].layout[p].hashes =
              [i \in DOMAIN @ |-> IF i \in DOMAIN hashes THEN hashes[i] ELSE @[i]]]
    BY Zenon DEF ProcessResponseFileBlockHashes
  <2> HIDE DEF erased, hashes
  <2> QED
    BY <2>1
<1> HIDE DEF erased, p, l
<1>4. SameLayouts
  BY <1>1, <1>2, <1>3 DEF SameLayouts
<1>5. SameDomains /\ \A x \in Syncs : task'[x].deletes = task[x].deletes
  BY <1>1, <1>2, <1>3 DEF SameDomains
<1> QED
  BY <1>4, <1>5 DEF SameWork


\* The steps that change the work to do.
LEMMA WorkRest ==
    ASSUME TypeOK, [Next]_vars,
           ~ ProcessResponseFileLayout, ~ ProcessResponseDeleteFile,
           ~ ProcessResponseFinishWriteFile,
           \A p \in Procs : ~ AddFileDeleteTask(p) /\ ~ WritingPrepared(p)
    PROVE  SameWork
<1>1. ASSUME \/ UNCHANGED task
             \/ \E s, v : \/ task' = [task EXCEPT ![s].status = v]
                          \/ task' = [task EXCEPT ![s].want = v]
             \/ \E s, v, p : task' = [task EXCEPT ![s].writes[p].status = v]
             \/ \E s, v, p : task' = [task EXCEPT ![s].writes[p].blocks = v]
             \/ \E s, v, p, i : task' = [task EXCEPT ![s].writes[p].blocks[i] = v]
      PROVE  SameWork
  BY <1>1, WorkOfField
<1>2. ASSUME UpdateStep
      PROVE  SameWork
  <2>1. CASE SendQueuedMessages \/ ReceiveMessage \/ CheckFinishedHashes \/ EnqueueSyncTask
             \/ CheckFinishedWrite
    <3>1. UNCHANGED task \/ \E s, v : task' = [task EXCEPT ![s].status = v]
      BY Zenon, <2>1 DEF SendQueuedMessages, ReceiveMessage, CheckFinishedHashes,
         EnqueueSyncTask, CheckFinishedWrite
    <3> QED
      BY Zenon, <1>1, <3>1
  <2>2. CASE ProcessResponseFileBlockHashes
    BY <2>2, WorkOfHashes
  <2>3. CASE ProcessResponseWriteFile
    <3>1. UNCHANGED task \/ \E s, v, p : task' = [task EXCEPT ![s].writes[p].status = v]
      BY Zenon, <2>3 DEF ProcessResponseWriteFile
    <3> QED
      BY Zenon, <1>1, <3>1
  <2>4. CASE ProcessFileDataReceived
    <3>1. UNCHANGED task \/ \E s, v, p : task' = [task EXCEPT ![s].writes[p].blocks = v]
      <4>1. \/ UNCHANGED task
            \/ task' = [task EXCEPT ![sync[Main]].writes[arg[Main].req.path].blocks =
                  Without(@, arg[Main].req.index)]
        BY Zenon, <2>4 DEF ProcessFileDataReceived
      <4> QED
        BY <4>1
    <3> QED
      BY Zenon, <1>1, <3>1
  <2> QED
    BY <1>2, <2>1, <2>2, <2>3, <2>4 DEF UpdateStep
<1>3. ASSUME NEW p \in Procs, RunTaskStep(p)
      PROVE  SameWork
  <2>1. CASE AddFileBlockHashTask(p)
    BY <2>1, WorkOfHashing
  <2>2. CASE ReadFileBlock(p)
    <3>1. \/ UNCHANGED task
          \/ \E v : task' = [task EXCEPT ![sync[p]].writes[arg[p].path].blocks[arg[p].index] = v]
      BY Zenon, <2>2 DEF ReadFileBlock
    <3> QED
      BY Zenon, <1>1, <3>1
  <2>3. CASE HashingPrepared(p)
    <3>1. \E s, v : task' = [task EXCEPT ![s].status = v]
      BY Zenon, <2>3 DEF HashingPrepared
    <3> QED
      BY Zenon, <1>1, <3>1
  <2>4. CASE ~ (AddFileBlockHashTask(p) \/ ReadFileBlock(p) \/ HashingPrepared(p))
    <3>1. UNCHANGED task
      BY Zenon, <1>3, <2>4 DEF RunTaskStep, TakeTask, ProcessFileLayoutServer, LayoutServerBuilt,
         RunSyncTask, LookUpLayouts, LockForHashing, LockForWriting, SendBlockRead
    <3> QED
      BY <1>1, <3>1
  <2> QED
    BY <2>1, <2>2, <2>3, <2>4
<1>4. ASSUME NEW t \in Threads, SharedStep(t)
      PROVE  SameWork
  <2>1. CASE FinishLayout(t)
    <3>1. \E s, v : task' = [task EXCEPT ![s].want = v]
      BY Zenon, <2>1 DEF FinishLayout
    <3> QED
      BY Zenon, <1>1, <3>1
  <2>2. CASE SucceedSynchronization(t) \/ FailSynchronization(t) \/ ClearPendingTasks(t)
             \/ LockForSending(t) \/ SendingDone(t)
    <3>1. UNCHANGED task \/ \E s, v : task' = [task EXCEPT ![s].status = v]
      BY Zenon, <2>2 DEF SucceedSynchronization, FailSynchronization, ClearPendingTasks,
         LockForSending, SendingDone
    <3> QED
      BY Zenon, <1>1, <3>1
  <2>3. ASSUME NEW p, \/ RequestWriteFile(t, p) \/ RequestFinishWriteFile(t, p)
                      \/ SkipFile(t, p)
        PROVE  SameWork
    <3>1. UNCHANGED task \/ \E s, v, q : task' = [task EXCEPT ![s].writes[q].status = v]
      BY Zenon, <2>3 DEF RequestWriteFile, RequestFinishWriteFile, SkipFile
    <3> QED
      BY Zenon, <1>1, <3>1
  <2>4. ASSUME NEW p, SendFileData(t, p)
        PROVE  SameWork
    <3>1. \E s, v, q : task' = [task EXCEPT ![s].writes[q].blocks = v]
      BY Zenon, <2>4 DEF SendFileData
    <3> QED
      BY Zenon, <1>1, <3>1
  <2> QED
    BY <1>4, <2>1, <2>2, <2>3, <2>4 DEF SharedStep, SendNextWriteRequests
<1>5. Synchronize \/ Answer \/ UNCHANGED vars => UNCHANGED task
  BY DEF Synchronize, Answer, vars
<1>6. \/ UpdateStep \/ Synchronize \/ Answer \/ UNCHANGED vars
      \/ \E p \in Procs : RunTaskStep(p)
      \/ \E t \in Threads : SharedStep(t)
  BY Zenon DEF Next
<1> QED
  BY <1>1, <1>2, <1>3, <1>4, <1>5, <1>6

\* The steps that change it, one by one.
LEMMA LayoutReceived ==
    ASSUME TypeOK, ProcessResponseFileLayout, NEW s, s = sync[Main], NEW dir, dir = arg[Main].body
    PROVE  /\ pc[Main] = "apply" /\ arg[Main].req.kind = "layout"
           /\ \/ /\ pc'[Main] = "idle" /\ UNCHANGED <<task, layoutClient>>
              \/ /\ "client" \in task[s].want /\ pc'[Main] = "layoutDone" /\ sync'[Main] = s
                 /\ layoutClient' = s
                 /\ DOMAIN task'[s].layout = DOMAIN dir
                 /\ \A p \in DOMAIN dir : task'[s].layout[p].data = dir[p]
           /\ SameDomains
           /\ \A x \in Syncs : /\ task'[x].deletes = task[x].deletes
                               /\ x # s => task'[x].layout = task[x].layout
<1>1. pc[Main] = "apply" /\ arg[Main].req.kind = "layout" /\ Main \in Threads /\ s \in Syncs
  BY WorkersFacts DEF ProcessResponseFileLayout, Applies
<1>2. /\ DOMAIN task = Syncs
      /\ \A x \in Syncs :
            DOMAIN task[x] = {"status", "want", "layout", "hashes", "deletes", "writes"}
  BY DEF TypeOK, TasksTypeOK, IsSyncTask, NewTask
<1>3. CASE "client" \notin task[s].want
  <2>1. Return(Main) /\ UNCHANGED <<task, layoutClient>>
    BY <1>3 DEF ProcessResponseFileLayout
  <2> QED
    BY <1>1, <2>1, ThreadMoves DEF SameDomains
<1>4. CASE "client" \in task[s].want
  <2> DEFINE v == [p \in DOMAIN dir |-> [data |-> dir[p], hashes |-> <<>>]]
  <2>1. /\ task' = [task EXCEPT ![s].layout = v]
        /\ layoutClient' = s /\ Continue(Main, "layoutDone")
    BY <1>4 DEF ProcessResponseFileLayout
  <2>2. DOMAIN v = DOMAIN dir /\ \A p \in DOMAIN dir : v[p].data = dir[p]
    OBVIOUS
  <2> HIDE DEF v
  <2>3. task'[s].layout = v
    BY <1>1, <1>2, <2>1
  <2>4. /\ SameDomains
        /\ \A x \in Syncs : /\ task'[x].deletes = task[x].deletes
                            /\ x # s => task'[x].layout = task[x].layout
    BY <1>2, <2>1 DEF SameDomains
  <2>5. pc'[Main] = "layoutDone" /\ sync'[Main] = s
    BY <1>1, <2>1, ThreadMoves
  <2> QED
    BY <1>1, <1>4, <2>1, <2>2, <2>3, <2>4, <2>5
<1> QED
  BY <1>3, <1>4

LEMMA DeleteAnswered ==
    ASSUME TypeOK, ProcessResponseDeleteFile, NEW s, s = sync[Main], NEW p, p = arg[Main].req.path
    PROVE  /\ pc[Main] = "apply" /\ arg[Main].req.kind = "delete" /\ s \in Syncs /\ Free(s)
           /\ \/ pc'[Main] = "idle" /\ UNCHANGED task
              \/ /\ task'[s].deletes = task[s].deletes \ {p}
                 /\ sync'[Main] = s
                 /\ pc'[Main] = IF arg[Main].ok THEN "checkWrite" ELSE "fail"
           /\ SameLayouts /\ SameDomains
           /\ \A x \in Syncs \ {s} : task'[x].deletes = task[x].deletes
<1>1. /\ pc[Main] = "apply" /\ arg[Main].req.kind = "delete" /\ Main \in Threads /\ s \in Syncs
      /\ Free(s)
  BY WorkersFacts DEF ProcessResponseDeleteFile, Applies
<1>2. /\ DOMAIN task = Syncs
      /\ \A x \in Syncs :
            DOMAIN task[x] = {"status", "want", "layout", "hashes", "deletes", "writes"}
  BY DEF TypeOK, TasksTypeOK, IsSyncTask, NewTask
<1>3. CASE p \notin task[s].deletes
  <2>1. Return(Main) /\ UNCHANGED task
    BY <1>3 DEF ProcessResponseDeleteFile
  <2> QED
    BY <1>1, <2>1, ThreadMoves DEF SameDomains, SameLayouts
<1>4. CASE p \in task[s].deletes
  <2>1. PICK v : v = task[s].deletes \ {p} /\ task' = [task EXCEPT ![s].deletes = v]
    BY <1>4 DEF ProcessResponseDeleteFile
  <2>2. Continue(Main, IF arg[Main].ok THEN "checkWrite" ELSE "fail")
    BY <1>4 DEF ProcessResponseDeleteFile
  <2>3. task'[s].deletes = v
    BY <1>1, <1>2, <2>1
  <2>4. SameLayouts /\ SameDomains /\ \A x \in Syncs \ {s} : task'[x].deletes = task[x].deletes
    BY <1>2, <2>1 DEF SameDomains, SameLayouts
  <2> QED
    BY <1>1, <2>1, <2>2, <2>3, <2>4, ThreadMoves
<1> QED
  BY <1>3, <1>4


LEMMA FinishAnswered ==
    ASSUME TypeOK, ProcessResponseFinishWriteFile, NEW s, s = sync[Main],
           NEW p, p = arg[Main].req.path
    PROVE  /\ pc[Main] = "apply" /\ arg[Main].req.kind = "finish" /\ s \in Syncs /\ Free(s)
           /\ \/ pc'[Main] = "idle" /\ UNCHANGED task
              \/ /\ DOMAIN task'[s].writes = DOMAIN task[s].writes \ {p}
                 /\ sync'[Main] = s
                 /\ pc'[Main] = IF arg[Main].ok THEN "checkWrite" ELSE "fail"
           /\ SameLayouts
           /\ \A x \in Syncs : /\ task'[x].deletes = task[x].deletes
                               /\ x # s => task'[x].writes = task[x].writes
<1>1. /\ pc[Main] = "apply" /\ arg[Main].req.kind = "finish" /\ Main \in Threads /\ s \in Syncs
      /\ Free(s)
  BY WorkersFacts DEF ProcessResponseFinishWriteFile, Applies
<1>2. /\ DOMAIN task = Syncs
      /\ \A x \in Syncs :
            DOMAIN task[x] = {"status", "want", "layout", "hashes", "deletes", "writes"}
  BY DEF TypeOK, TasksTypeOK, IsSyncTask, NewTask
<1>3. CASE ~ Writing(s, p, "finishing")
  <2>1. Return(Main) /\ UNCHANGED task
    BY <1>3 DEF ProcessResponseFinishWriteFile
  <2> QED
    BY <1>1, <2>1, ThreadMoves DEF SameLayouts
<1>4. CASE Writing(s, p, "finishing")
  <2>1. PICK v : v = Without(task[s].writes, p) /\ task' = [task EXCEPT ![s].writes = v]
    BY <1>4 DEF ProcessResponseFinishWriteFile
  <2>2. Continue(Main, IF arg[Main].ok THEN "checkWrite" ELSE "fail")
    BY <1>4 DEF ProcessResponseFinishWriteFile
  <2>3. DOMAIN v = DOMAIN task[s].writes \ {p}
    BY <2>1, WithoutProperties
  <2>4. task'[s].writes = v
    BY <1>1, <1>2, <2>1
  <2>5. /\ SameLayouts
        /\ \A x \in Syncs : /\ task'[x].deletes = task[x].deletes
                            /\ x # s => task'[x].writes = task[x].writes
    BY <1>2, <2>1 DEF SameLayouts
  <2> QED
    BY <1>1, <2>2, <2>3, <2>4, <2>5, ThreadMoves
<1> QED
  BY <1>3, <1>4

LEMMA DeleteAsked ==
    ASSUME TypeOK, NEW t \in Procs, AddFileDeleteTask(t), NEW s, s = sync[t]
    PROVE  /\ pc[t] = "delete" /\ s \in Syncs
           /\ \E path \in todo[t] :
                 /\ task'[s].deletes = task[s].deletes \cup {path}
                 /\ queueSend' = Append(queueSend, PathRequest("delete", s, path))
                 /\ todo' = [todo EXCEPT ![t] = todo[t] \ {path}]
                 /\ todo'[t] = todo[t] \ {path}
           /\ UNCHANGED <<pc, sync, arg>>
           /\ SameLayouts /\ SameDomains
           /\ \A x \in Syncs \ {s} : task'[x].deletes = task[x].deletes
<1>1. pc[t] = "delete" /\ t \in Threads /\ s \in Syncs /\ UNCHANGED <<pc, sync, arg>>
  BY WorkersFacts DEF AddFileDeleteTask
<1>2. /\ DOMAIN task = Syncs
      /\ \A x \in Syncs :
            DOMAIN task[x] = {"status", "want", "layout", "hashes", "deletes", "writes"}
  BY DEF TypeOK, TasksTypeOK, IsSyncTask, NewTask
<1>3. PICK path, v :
         /\ path \in todo[t]
         /\ v = task[s].deletes \cup {path} /\ task' = [task EXCEPT ![s].deletes = v]
         /\ queueSend' = Append(queueSend, PathRequest("delete", s, path))
         /\ todo' = [todo EXCEPT ![t] = todo[t] \ {path}]
  BY DEF AddFileDeleteTask
<1>4. task'[s].deletes = v
  BY <1>1, <1>2, <1>3
<1>5. todo'[t] = todo[t] \ {path}
  BY <1>1, <1>3 DEF TypeOK, ThreadsTypeOK
<1>6. SameLayouts /\ SameDomains /\ \A x \in Syncs \ {s} : task'[x].deletes = task[x].deletes
  BY <1>2, <1>3 DEF SameDomains, SameLayouts
<1> QED
  BY <1>1, <1>3, <1>4, <1>5, <1>6

LEMMA WorkPrepared ==
    ASSUME TypeOK, NEW t \in Procs, WritingPrepared(t), NEW s, s = sync[t],
           NEW layout, layout = FoundLayout(t)
    PROVE  /\ pc[t] = "delete" /\ todo[t] = {} /\ s \in Syncs
           /\ DOMAIN task'[s].writes = WritePaths(layout) \cup DOMAIN task[s].writes
           /\ SameLayouts
           /\ \A x \in Syncs : /\ task'[x].deletes = task[x].deletes
                               /\ x # s => task'[x].writes = task[x].writes
<1>1. pc[t] = "delete" /\ todo[t] = {} /\ t \in Threads /\ s \in Syncs
  BY WorkersFacts DEF WritingPrepared
<1>2. /\ DOMAIN task = Syncs
      /\ \A x \in Syncs :
            DOMAIN task[x] = {"status", "want", "layout", "hashes", "deletes", "writes"}
  BY DEF TypeOK, TasksTypeOK, IsSyncTask, NewTask
<1> DEFINE new == WritePaths(layout)
           v == [path \in new \cup DOMAIN task[s].writes |->
                    IF path \in new THEN WriteTask(layout, path) ELSE task[s].writes[path]]
<1>3. /\ task' = [task EXCEPT ![s].writes = v, ![s].status = "processWriting"]
      /\ DOMAIN v = WritePaths(layout) \cup DOMAIN task[s].writes
  BY DEF WritingPrepared
<1> HIDE DEF v, new
<1>4. task'[s].writes = v
  BY <1>1, <1>2, <1>3
<1>5. /\ SameLayouts
      /\ \A x \in Syncs : /\ task'[x].deletes = task[x].deletes
                          /\ x # s => task'[x].writes = task[x].writes
  BY <1>2, <1>3 DEF SameLayouts
<1> QED
  BY <1>1, <1>3, <1>4, <1>5

-------------------------------------------------------------------------------
(* The stages of the attempts *)

\* How the status of a sync task changes.
LEMMA StatusMoves ==
    ASSUME TypeOK, [Next]_vars, NEW x \in Syncs, task'[x].status # task[x].status
    PROVE  \/ TakesHashes /\ x = sync[Main] /\ task'[x].status = "prepareTasksWriting"
           \/ \E p \in Procs :
                 /\ pc[p] = "hash" /\ x = sync[p]
                 /\ task'[x].status \in {"prepareTasksWriting", "processHashing"}
           \/ /\ task'[x].status = "processWriting"
              /\ \E p \in Procs : WritingPrepared(p) /\ x = sync[p]
           \/ /\ task'[x].status = "success" /\ pc'[Main] = "succeed"
              /\ CheckFinishedWrite /\ x = sync[Main]
           \/ task'[x].status \in Over /\ x = taskSync /\ taskSync' = None
<1> DEFINE On == \/ TakesHashes /\ x = sync[Main] /\ task'[x].status = "prepareTasksWriting"
                 \/ \E p \in Procs :
                       /\ pc[p] = "hash" /\ x = sync[p]
                       /\ task'[x].status \in {"prepareTasksWriting", "processHashing"}
                 \/ /\ task'[x].status = "processWriting"
                    /\ \E p \in Procs : WritingPrepared(p) /\ x = sync[p]
                 \/ /\ task'[x].status = "success" /\ pc'[Main] = "succeed"
                    /\ CheckFinishedWrite /\ x = sync[Main]
                 \/ task'[x].status \in Over /\ x = taskSync /\ taskSync' = None
<1>0. Main \in Threads /\ \A p \in Procs : p \in Threads
  BY WorkersFacts
<1>1. ~ PhasesKept /\ ~ UNCHANGED task
  BY DEF PhasesKept
<1>2. ASSUME NEW s, NEW v, task' = [task EXCEPT ![s].status = v]
      PROVE  x = s /\ task'[x].status = v
  BY <1>2, TaskFieldSet
<1>3. ASSUME UpdateStep
      PROVE  On
  <2>1. CASE CheckFinishedHashes
    <3>1. pc[Main] = "checkHashes"
      BY <2>1 DEF CheckFinishedHashes
    <3>2. task' = [task EXCEPT ![sync[Main]].status = "prepareTasksWriting"]
      BY Zenon, <1>1, <2>1 DEF CheckFinishedHashes
    <3> QED
      BY <1>2, <3>1, <3>2 DEF TakesHashes
  <2>2. CASE CheckFinishedWrite
    <3>1. /\ task' = [task EXCEPT ![sync[Main]].status = "success"]
          /\ Continue(Main, "succeed")
      BY Zenon, <1>1, <2>2 DEF CheckFinishedWrite
    <3>2. pc'[Main] = "succeed"
      BY <1>0, <3>1, ThreadMoves
    <3> QED
      BY <1>2, <2>2, <3>1, <3>2
  <2>3. ~ EnqueueSyncTask
    BY <1>1 DEF EnqueueSyncTask
  <2> QED
    BY <1>1, <1>3, <2>1, <2>2, <2>3, UpdateStepsKeep DEF UpdateStep
<1>4. ASSUME NEW p \in Procs, RunTaskStep(p)
      PROVE  On
  <2>1. CASE HashingPrepared(p)
    <3>1. pc[p] = "hash"
      BY <2>1 DEF HashingPrepared
    <3>2. PICK v : /\ task' = [task EXCEPT ![sync[p]].status = v]
                   /\ v \in {"prepareTasksWriting", "processHashing"}
      BY <2>1 DEF HashingPrepared
    <3> QED
      BY <1>2, <3>1, <3>2
  <2>2. CASE WritingPrepared(p)
    BY <2>2, WritingPreparedSets
  <2>3. ~ TakeTask(p)
    BY <1>1 DEF TakeTask
  <2> QED
    BY <1>1, <1>4, <2>1, <2>2, <2>3, AddFileDeleteTaskKeeps, ProcessorStepsKeep DEF RunTaskStep
<1>5. ASSUME NEW t \in Threads, SharedStep(t)
      PROVE  On
  <2>1. CASE SucceedSynchronization(t)
    <3>1. task' = [task EXCEPT ![taskSync].status = "success"] /\ taskSync' = None
      BY Zenon, <1>1, <2>1 DEF SucceedSynchronization
    <3> QED
      BY <1>2, <3>1 DEF Over
  <2>2. CASE FailSynchronization(t)
    <3>1. task' = [task EXCEPT ![taskSync].status = "failure"] /\ taskSync' = None
      BY Zenon, <1>1, <2>2 DEF FailSynchronization
    <3> QED
      BY <1>2, <3>1 DEF Over
  <2>3. CASE FinishLayout(t)
    <3>1. PICK s, v : task' = [task EXCEPT ![s].want = v]
      BY Zenon, <2>3 DEF FinishLayout
    <3> QED
      BY <3>1, TaskFieldSet
  <2>4. ~ ClearPendingTasks(t)
    BY <1>1 DEF ClearPendingTasks
  <2>5. CASE SendNextWriteRequests(t)
    BY <1>1, <2>5, SendStepsKeep, SendFileDataKeeps DEF SendNextWriteRequests
  <2> QED
    BY <1>5, <2>1, <2>2, <2>3, <2>4, <2>5 DEF SharedStep
<1>6. ~ (Synchronize \/ Answer \/ UNCHANGED vars)
  BY <1>1 DEF Synchronize, Answer, vars
<1>7. \/ UpdateStep \/ Synchronize \/ Answer \/ UNCHANGED vars
      \/ \E p \in Procs : RunTaskStep(p)
      \/ \E t \in Threads : SharedStep(t)
  BY Zenon DEF Next
<1> HIDE DEF On
<1>8. On
  BY <1>3, <1>4, <1>5, <1>6, <1>7
<1> QED
  BY <1>8 DEF On


\* The stages an attempt goes through, with what has to be so.
LEMMA StagesMove ==
    ASSUME TypeOK, AttemptInv, [Next]_vars, NEW x \in Syncs
    PROVE  /\ task'[x].status = "pending" => task[x].status = "pending"
           /\ task'[x].status = "processHashing" =>
                 task[x].status \in {"pending", "processHashing"}
           /\ task'[x].status = "prepareTasksWriting" =>
                 \/ task[x].status = "prepareTasksWriting"
                 \/ task[x].status \in {"pending", "processHashing"} /\ task[x].want = {}
           /\ task'[x].status = "processWriting" =>
                 \/ task[x].status = "processWriting"
                 \/ /\ task[x].status = "prepareTasksWriting"
                    /\ \E p \in Procs : WritingPrepared(p) /\ x = sync[p]
           /\ task'[x].status = "failure" =>
                 task[x].status = "failure" \/ (x = taskSync /\ taskSync' = None)
           /\ task'[x].status = "success" =>
                 \/ task[x].status = "success"
                 \/ x = taskSync /\ taskSync' = None
                 \/ x = sync[Main] /\ pc'[Main] = "succeed" /\ CheckFinishedWrite
<1>1. CASE task'[x].status = task[x].status
  BY <1>1
<1>2. CASE TakesHashes /\ x = sync[Main] /\ task'[x].status = "prepareTasksWriting"
  <2>1. task[x].status = "processHashing" /\ task[x].want = {}
    BY <1>2 DEF AttemptInv, UpdateInTime, AttemptsOver
  <2> QED
    BY <1>2, <2>1
<1>3. ASSUME NEW p \in Procs, pc[p] = "hash", x = sync[p],
             task'[x].status \in {"prepareTasksWriting", "processHashing"}
      PROVE  task[x].status = "pending" /\ task[x].want = {}
  BY <1>3 DEF AttemptInv, PreparesAttempt, HashPlaces
<1>4. ASSUME NEW p \in Procs, WritingPrepared(p), x = sync[p]
      PROVE  task[x].status = "prepareTasksWriting"
  <2>1. pc[p] = "delete"
    BY <1>4, WritingPreparedSets
  <2> QED
    BY <1>4, <2>1 DEF AttemptInv, PreparesAttempt, WritePlaces
<1> QED
  BY <1>1, <1>2, <1>3, <1>4, StatusMoves DEF Over

-------------------------------------------------------------------------------
(* How the threads move *)

LEMMA UpdateRests ==
    ASSUME TypeOK, UpdateStep
    PROVE  OthersStay(Main) /\ \A u \in Threads \ {Main} : todo'[u] = todo[u]
<1>1. /\ OnlyOf(Main, pc, pc') /\ OnlyOf(Main, sync, sync')
      /\ OnlyOf(Main, arg, arg') /\ OnlyOf(Main, todo, todo')
  BY Zenon
     DEF UpdateStep, SendQueuedMessages, ReceiveMessage, ProcessResponseFileLayout,
         ProcessResponseFileBlockHashes, CheckFinishedHashes, EnqueueSyncTask,
         ProcessResponseDeleteFile, ProcessResponseWriteFile, ProcessFileDataReceived,
         ProcessResponseFinishWriteFile, CheckFinishedWrite, threads, OnlyOf, Return,
         Continue, Goto
<1> QED
  BY <1>1 DEF OnlyOf, OthersStay, TypeOK, ThreadsTypeOK, ArgsTypeOK

LEMMA TodosRest ==
    ASSUME TypeOK, NEW t \in Threads, (t \in Procs /\ RunTaskStep(t)) \/ SharedStep(t)
    PROVE  \A u \in Threads \ {t} : todo'[u] = todo[u]
<1>1. OnlyOf(t, todo, todo')
  <2>1. ASSUME \/ Return(t)
               \/ \E to : Continue(t, to)
               \/ UNCHANGED todo
               \/ \E v : todo' = [todo EXCEPT ![t] = v]
        PROVE  OnlyOf(t, todo, todo')
    BY Zenon, <2>1 DEF OnlyOf, Return, Continue
  <2>2. CASE \/ TakeTask(t) \/ ProcessFileLayoutServer(t) \/ LayoutServerBuilt(t)
             \/ RunSyncTask(t) \/ LookUpLayouts(t) \/ LockForHashing(t)
             \/ HashingPrepared(t) \/ LockForWriting(t)
    BY Zenon, <2>1, <2>2 DEF TakeTask, ProcessFileLayoutServer, LayoutServerBuilt,
       RunSyncTask, LookUpLayouts, LockForHashing, HashingPrepared, LockForWriting
  <2>3. CASE \/ AddFileBlockHashTask(t) \/ AddFileDeleteTask(t) \/ WritingPrepared(t)
             \/ ReadFileBlock(t) \/ SendBlockRead(t)
    BY Zenon, <2>1, <2>3 DEF AddFileBlockHashTask, AddFileDeleteTask, WritingPrepared,
       ReadFileBlock, SendBlockRead
  <2>4. CASE \/ FinishLayout(t) \/ SucceedSynchronization(t) \/ FailSynchronization(t)
             \/ ClearPendingTasks(t) \/ LockForSending(t) \/ SendingDone(t)
    BY Zenon, <2>1, <2>4 DEF FinishLayout, SucceedSynchronization, FailSynchronization,
       ClearPendingTasks, LockForSending, SendingDone
  <2>5. ASSUME NEW p, \/ RequestWriteFile(t, p) \/ RequestFinishWriteFile(t, p)
                      \/ SkipFile(t, p) \/ SendFileData(t, p)
        PROVE  OnlyOf(t, todo, todo')
    BY Zenon, <2>1, <2>5 DEF RequestWriteFile, RequestFinishWriteFile, SkipFile, SendFileData,
       Visit
  <2> QED
    BY <2>2, <2>3, <2>4, <2>5 DEF RunTaskStep, SharedStep, SendNextWriteRequests
<1> QED
  BY <1>1 DEF OnlyOf, TypeOK, ThreadsTypeOK

\* A processor rests while others take a step.
LEMMA ProcessorRests ==
    ASSUME TypeOK, [Next]_vars, NEW p \in Procs, ~ RunTaskStep(p), ~ SharedStep(p)
    PROVE  pc'[p] = pc[p] /\ sync'[p] = sync[p] /\ arg'[p] = arg[p] /\ todo'[p] = todo[p]
<1>1. p \in Threads /\ p # Main /\ Main \in Threads /\ \A q \in Procs : q \in Threads
  BY WorkersFacts
<1>2. CASE UpdateStep
  BY <1>1, <1>2, UpdateRests DEF OthersStay
<1>3. ASSUME NEW t \in Threads, (t \in Procs /\ RunTaskStep(t)) \/ SharedStep(t), t # p
      PROVE  pc'[p] = pc[p] /\ sync'[p] = sync[p] /\ arg'[p] = arg[p] /\ todo'[p] = todo[p]
  BY <1>1, <1>3, OthersRest, TodosRest DEF OthersStay
<1>4. Synchronize \/ Answer \/ UNCHANGED vars => UNCHANGED threads
  BY DEF Synchronize, Answer, vars
<1>5. \/ UpdateStep \/ Synchronize \/ Answer \/ UNCHANGED vars
      \/ \E q \in Procs : RunTaskStep(q)
      \/ \E t \in Threads : SharedStep(t)
  BY Zenon DEF Next
<1> QED
  BY <1>1, <1>2, <1>3, <1>4, <1>5 DEF threads

\* The places where a processor holds the launcher's layout.
HoldsLayout == {"hashLock", "hash", "deleteLock", "delete"}

\* How a processor comes to hold the launcher's layout, to delete and to send.
LEMMA ProcessorComes ==
    ASSUME TypeOK, [Next]_vars, NEW p \in Procs
    PROVE  /\ pc'[p] \in HoldsLayout =>
                 /\ sync'[p] = sync[p]
                 /\ \/ pc[p] \in HoldsLayout /\ arg'[p] = arg[p]
                    \/ /\ pc[p] \in HashPlaces \cup WritePlaces
                       /\ layoutClient # None /\ arg'[p] = LayoutOf(layoutClient)
           /\ pc'[p] = "delete" =>
                 \/ LockForWriting(p)
                 \/ AddFileDeleteTask(p)
                 \/ pc[p] = "delete" /\ sync'[p] = sync[p] /\ todo'[p] = todo[p]
           /\ pc'[p] \in {"sendLock", "send"} =>
                 \/ pc[p] \in {"sendLock", "send"} /\ sync'[p] = sync[p]
                 \/ WritingPrepared(p)
                 \/ taskSync # None /\ sync'[p] = taskSync /\ UNCHANGED task
<1> DEFINE On ==
       /\ pc'[p] \in HoldsLayout =>
             /\ sync'[p] = sync[p]
             /\ \/ pc[p] \in HoldsLayout /\ arg'[p] = arg[p]
                \/ /\ pc[p] \in HashPlaces \cup WritePlaces
                   /\ layoutClient # None /\ arg'[p] = LayoutOf(layoutClient)
       /\ pc'[p] = "delete" =>
             \/ LockForWriting(p)
             \/ AddFileDeleteTask(p)
             \/ pc[p] = "delete" /\ sync'[p] = sync[p] /\ todo'[p] = todo[p]
       /\ pc'[p] \in {"sendLock", "send"} =>
             \/ pc[p] \in {"sendLock", "send"} /\ sync'[p] = sync[p]
             \/ WritingPrepared(p)
             \/ taskSync # None /\ sync'[p] = taskSync /\ UNCHANGED task
<1> SUFFICES On
  OBVIOUS
<1>1. p \in Threads
  BY WorkersFacts
<1> DEFINE Other(to) == to \notin {"hashLock", "hash", "deleteLock", "delete", "sendLock", "send"}
<1>2. ASSUME Other(pc'[p])
      PROVE  On
  BY <1>2 DEF HoldsLayout
<1>3. ASSUME \/ Return(p)
             \/ \E to : Other(to) /\ Continue(p, to)
             \/ \E to : Other(to) /\ Goto(p, to)
      PROVE  On
  <2>1. Other(pc'[p])
    BY <1>1, <1>3 DEF TypeOK, ThreadsTypeOK, Return, Continue, Goto
  <2> QED
    BY <1>2, <2>1
<1>4. CASE ~ RunTaskStep(p) /\ ~ SharedStep(p)
  BY <1>4, ProcessorRests
<1> HIDE DEF On
<1>5. CASE RunTaskStep(p)
  <2>1. CASE TakeTask(p)
    <3>1. PICK i \in DOMAIN pending : Goto(p, pending[i].kind)
      BY Zenon, <2>1 DEF TakeTask
    <3>2. Other(pending[i].kind)
      BY PendingFacts
    <3> QED
      BY <1>3, <3>1, <3>2
  <2>2. CASE ProcessFileLayoutServer(p) \/ LayoutServerBuilt(p) \/ RunSyncTask(p)
    BY <1>3, <2>2 DEF ProcessFileLayoutServer, LayoutServerBuilt, RunSyncTask
  <2>3. CASE LookUpLayouts(p)
    <3>1. CASE Continue(p, "fail")
      BY <1>3, <3>1
    <3>2. CASE ~ Continue(p, "fail")
      <4>1. /\ pc[p] \in {"prepareHashing", "prepareWriting"} /\ layoutClient # None
            /\ Goto(p, IF pc[p] = "prepareHashing" THEN "hashLock" ELSE "deleteLock")
            /\ arg' = [arg EXCEPT ![p] = LayoutOf(layoutClient)] /\ UNCHANGED sync
        BY <2>3, <3>2 DEF LookUpLayouts
      <4>2. /\ pc'[p] \in {"hashLock", "deleteLock"} /\ arg'[p] = LayoutOf(layoutClient)
            /\ sync'[p] = sync[p]
        BY <1>1, <4>1 DEF TypeOK, ThreadsTypeOK, ArgsTypeOK, Goto
      <4> QED
        BY <4>1, <4>2 DEF On, HoldsLayout, HashPlaces, WritePlaces
    <3> QED
      BY <3>1, <3>2
  <2>4. CASE LockForHashing(p) \/ LockForWriting(p)
    <3>1. /\ pc[p] \in {"hashLock", "deleteLock"} /\ UNCHANGED <<sync, arg>>
          /\ pc[p] = "hashLock" => Goto(p, "hash")
          /\ pc[p] = "deleteLock" => LockForWriting(p) /\ Goto(p, "delete")
      BY <2>4 DEF LockForHashing, LockForWriting
    <3>2. /\ pc[p] = "hashLock" => pc'[p] = "hash"
          /\ pc[p] = "deleteLock" => pc'[p] = "delete"
      BY <1>1, <3>1, ThreadMoves
    <3> QED
      BY <3>1, <3>2 DEF On, HoldsLayout
  <2>5. CASE AddFileBlockHashTask(p)
    <3>1. pc[p] = "hash" /\ UNCHANGED <<pc, sync, arg>>
      BY <2>5 DEF AddFileBlockHashTask
    <3> QED
      BY <3>1 DEF On, HoldsLayout
  <2>6. CASE AddFileDeleteTask(p)
    <3>1. pc[p] = "delete" /\ UNCHANGED <<pc, sync, arg>>
      BY <2>6 DEF AddFileDeleteTask
    <3> QED
      BY <2>6, <3>1 DEF On, HoldsLayout
  <2>7. CASE HashingPrepared(p) \/ ReadFileBlock(p)
    BY <1>3, <2>7 DEF HashingPrepared, ReadFileBlock
  <2>8. CASE WritingPrepared(p)
    <3>1. pc'[p] \in {"succeed", "sendLock"}
      <4>1. \E to \in {"succeed", "sendLock"} : Continue(p, to)
        BY <2>8 DEF WritingPrepared
      <4> QED
        BY <1>1, <4>1, ThreadMoves
    <3> QED
      BY <2>8, <3>1 DEF On, HoldsLayout
  <2>9. CASE SendBlockRead(p)
    <3>1. CASE taskSync = None
      BY <1>3, <2>9, <3>1 DEF SendBlockRead
    <3>2. CASE taskSync # None
      <4>1. Goto(p, "sendLock") /\ sync' = [sync EXCEPT ![p] = taskSync] /\ UNCHANGED task
        BY <2>9, <3>2 DEF SendBlockRead
      <4>2. pc'[p] = "sendLock" /\ sync'[p] = taskSync
        BY <1>1, <4>1, ThreadMoves
      <4> QED
        BY <3>2, <4>1, <4>2 DEF On, HoldsLayout
    <3> QED
      BY <3>1, <3>2
  <2> QED
    BY <1>5, <2>1, <2>2, <2>3, <2>4, <2>5, <2>6, <2>7, <2>8, <2>9 DEF RunTaskStep
<1>6. CASE SharedStep(p)
  <2>1. CASE FinishLayout(p) \/ SucceedSynchronization(p) \/ ClearPendingTasks(p)
             \/ SendingDone(p)
    BY <1>3, <2>1 DEF FinishLayout, SucceedSynchronization, ClearPendingTasks, SendingDone
  <2>2. CASE FailSynchronization(p)
    BY <1>3, <2>2 DEF FailSynchronization
  <2>3. CASE LockForSending(p)
    <3>1. pc[p] = "sendLock" /\ Goto(p, "send") /\ UNCHANGED <<sync, arg>>
      BY <2>3 DEF LockForSending
    <3>2. pc'[p] = "send"
      BY <1>1, <3>1, ThreadMoves
    <3> QED
      BY <3>1, <3>2 DEF On, HoldsLayout
  <2>4. ASSUME NEW q, \/ RequestWriteFile(p, q) \/ RequestFinishWriteFile(p, q)
                      \/ SkipFile(p, q) \/ SendFileData(p, q)
        PROVE  On
    <3>1. pc[p] = "send" /\ UNCHANGED sync /\ (UNCHANGED pc \/ Goto(p, "fail"))
      BY Zenon, <2>4 DEF RequestWriteFile, RequestFinishWriteFile, SkipFile, SendFileData, Visit
    <3>2. CASE Goto(p, "fail")
      BY <1>3, <3>2
    <3>3. CASE UNCHANGED pc
      BY <3>1, <3>3 DEF On, HoldsLayout
    <3> QED
      BY <3>1, <3>2, <3>3
  <2> QED
    BY <1>6, <2>1, <2>2, <2>3, <2>4 DEF SharedStep, SendNextWriteRequests
<1> QED
  BY <1>4, <1>5, <1>6


\* How Update() comes to an attempt, to an end, and away from it.
LEMMA MainComes ==
    ASSUME TypeOK, [Next]_vars
    PROVE  /\ pc'[Main] # "idle" =>
                 \/ pc[Main] # "idle" /\ sync'[Main] = sync[Main]
                 \/ taskSync # None /\ sync'[Main] = taskSync /\ UNCHANGED task
           /\ pc'[Main] = "layoutDone" => pc[Main] = "layoutDone" \/ ProcessResponseFileLayout
           /\ pc'[Main] = "succeed" =>
                 \/ pc[Main] = "succeed"
                 \/ CheckFinishedWrite /\ NothingLeft(task[sync[Main]])
           /\ pc[Main] \in {"fail", "succeed"} => pc'[Main] = pc[Main] \/ taskSync' = None
<1> DEFINE On ==
       /\ pc'[Main] # "idle" =>
             \/ pc[Main] # "idle" /\ sync'[Main] = sync[Main]
             \/ taskSync # None /\ sync'[Main] = taskSync /\ UNCHANGED task
       /\ pc'[Main] = "layoutDone" => pc[Main] = "layoutDone" \/ ProcessResponseFileLayout
       /\ pc'[Main] = "succeed" =>
             \/ pc[Main] = "succeed"
             \/ CheckFinishedWrite /\ NothingLeft(task[sync[Main]])
       /\ pc[Main] \in {"fail", "succeed"} => pc'[Main] = pc[Main] \/ taskSync' = None
<1> SUFFICES On
  OBVIOUS
<1>1. Main \in Threads
  BY WorkersFacts
<1>2. ASSUME \/ pc'[Main] = pc[Main] /\ sync'[Main] = sync[Main]
             \/ UNCHANGED <<pc, sync>>
      PROVE  On
  BY <1>2
<1>3. ASSUME pc[Main] \notin {"fail", "succeed"} \/ taskSync' = None,
             \/ Return(Main)
             \/ /\ pc[Main] # "idle"
                /\ \E to : to \notin {"layoutDone", "succeed"} /\
                      (Continue(Main, to) \/ (Goto(Main, to) /\ UNCHANGED sync))
      PROVE  On
  BY <1>1, <1>3 DEF TypeOK, ThreadsTypeOK, Return, Continue, Goto
<1>4. CASE ~ UpdateStep /\ ~ SharedStep(Main)
  BY <1>2, <1>4, MainRests
<1>5. CASE ReceiveMessage
  <2>1. pc[Main] = "idle" /\ UNCHANGED task
    BY <1>5 DEF ReceiveMessage
  <2>2. \/ UNCHANGED threads
        \/ /\ taskSync # None /\ Goto(Main, "apply") /\ sync' = [sync EXCEPT ![Main] = taskSync]
    BY <1>5 DEF ReceiveMessage
  <2>3. CASE UNCHANGED threads
    BY <1>2, <2>3 DEF threads
  <2>4. CASE taskSync # None /\ Goto(Main, "apply") /\ sync' = [sync EXCEPT ![Main] = taskSync]
    <3>1. pc'[Main] = "apply" /\ sync'[Main] = taskSync
      BY <1>1, <2>4, ThreadMoves
    <3> QED
      BY <2>1, <2>4, <3>1
  <2> QED
    BY <2>2, <2>3, <2>4
<1>6. CASE ProcessResponseFileLayout
  <2>1. /\ pc[Main] = "apply"
        /\ pc'[Main] = "idle" \/ (pc'[Main] = "layoutDone" /\ sync'[Main] = sync[Main])
    BY Zenon, <1>6, LayoutReceived
  <2> QED
    BY <1>6, <2>1
<1>7. CASE CheckFinishedWrite
  <2>1. pc[Main] = "checkWrite"
    BY <1>7 DEF CheckFinishedWrite
  <2>2. CASE Continue(Main, "sendLock")
    BY <1>3, <2>1, <2>2
  <2>3. CASE ~ Continue(Main, "sendLock")
    <3>1. NothingLeft(task[sync[Main]]) /\ Continue(Main, "succeed")
      BY <1>7, <2>3 DEF CheckFinishedWrite
    <3>2. pc'[Main] = "succeed" /\ sync'[Main] = sync[Main]
      BY <1>1, <3>1, ThreadMoves
    <3> QED
      BY <1>7, <2>1, <3>1, <3>2
  <2> QED
    BY <2>2, <2>3
<1> HIDE DEF On
<1>8. CASE UpdateStep
  <2>1. CASE SendQueuedMessages
    BY <1>2, <2>1 DEF SendQueuedMessages, threads
  <2>2. CASE ProcessResponseFileBlockHashes
    BY <1>3, <2>2 DEF ProcessResponseFileBlockHashes, Applies
  <2>3. CASE CheckFinishedHashes \/ EnqueueSyncTask
    BY <1>3, <2>3 DEF CheckFinishedHashes, EnqueueSyncTask
  <2>4. CASE ProcessResponseDeleteFile \/ ProcessResponseWriteFile
    BY <1>3, <2>4 DEF ProcessResponseDeleteFile, ProcessResponseWriteFile, Applies
  <2>5. CASE ProcessFileDataReceived \/ ProcessResponseFinishWriteFile
    BY <1>3, <2>5 DEF ProcessFileDataReceived, ProcessResponseFinishWriteFile, Applies
  <2> QED
    BY <1>5, <1>6, <1>7, <1>8, <2>1, <2>2, <2>3, <2>4, <2>5 DEF UpdateStep
<1>9. CASE SharedStep(Main)
  <2>1. CASE FinishLayout(Main) \/ ClearPendingTasks(Main)
    BY <1>3, <2>1 DEF FinishLayout, ClearPendingTasks
  <2>2. CASE SucceedSynchronization(Main) \/ FailSynchronization(Main)
    <3>1. taskSync' = None
      BY <2>2 DEF SucceedSynchronization, FailSynchronization
    <3>2. Return(Main) \/ (pc[Main] # "idle" /\ Continue(Main, "clear"))
      BY Zenon, <2>2 DEF SucceedSynchronization, FailSynchronization
    <3> QED
      BY <1>3, <3>1, <3>2
  <2>3. CASE LockForSending(Main) \/ SendingDone(Main)
    BY <1>3, <2>3 DEF LockForSending, SendingDone
  <2>4. ASSUME NEW q, \/ RequestWriteFile(Main, q) \/ RequestFinishWriteFile(Main, q)
                      \/ SkipFile(Main, q) \/ SendFileData(Main, q)
        PROVE  On
    <3>1. pc[Main] = "send" /\ UNCHANGED sync /\ (UNCHANGED pc \/ Goto(Main, "fail"))
      BY Zenon, <2>4 DEF RequestWriteFile, RequestFinishWriteFile, SkipFile, SendFileData, Visit
    <3> QED
      BY <1>2, <1>3, <3>1
  <2> QED
    BY <1>9, <2>1, <2>2, <2>3, <2>4 DEF SharedStep, SendNextWriteRequests
<1> QED
  BY <1>4, <1>8, <1>9

-------------------------------------------------------------------------------
(* What is asked anew *)

LEMMA SendFileDataAsks ==
    ASSUME TypeOK, NEW t \in Threads, NEW p, SendFileData(t, p)
    PROVE  \A r \in Range(queueSend') :
              r \in Range(queueSend) \/ (r.kind = "data" /\ r.sync = sync[t] /\ r.path = p)
<1> DEFINE s == sync[t]
           blocks == task[s].writes[p].blocks
           reads(S) == IF ServerDir[p] = <<>> THEN {} ELSE S
           sends(S) ==
              {i \in {i \in DOMAIN blocks : \A j \in DOMAIN blocks \ S :
                        blocks[j] = "pending" => i < j} : blocks[i] = "dataReady"}
                \cup (S \ reads(S))
<1>1. pc[t] # "idle" /\ p \in DOMAIN task[s].writes
  BY Zenon DEF SendFileData, Visit, Writing
<1>2. s \in Syncs /\ IsSyncTask(task[s])
  BY <1>1, SyncOfBusyThread
<1>3. p \in DOMAIN ServerDir /\ DOMAIN blocks \subseteq ServerBlocks(p)
  BY <1>1, <1>2 DEF IsSyncTask, IsWriteTask, IsMap
<1>4. PICK S \in Started(blocks) : \E q \in Ascending(sends(S)) :
         queueSend' = queueSend \o [n \in DOMAIN q |-> DataRequest(s, p, q[n])]
  BY ZenonT(30) DEF SendFileData
<1>5. sends(S) \subseteq ServerBlocks(p)
  BY <1>3 DEF Started
<1>6. PICK D : D \subseteq ServerBlocks(p) /\ \E q \in Ascending(D) :
         queueSend' = queueSend \o [n \in DOMAIN q |-> DataRequest(s, p, q[n])]
  BY <1>4, <1>5
<1>7. PICK q \in Ascending(D) :
         queueSend' = queueSend \o [n \in DOMAIN q |-> DataRequest(s, p, q[n])]
  BY <1>6
<1> DEFINE u == [n \in DOMAIN q |-> DataRequest(s, p, q[n])]
<1>8. PICK N : N = {DataRequest(s, p, i) : i \in D}
  OBVIOUS
<1>9. u \in Seq(N)
  <2>1. /\ IsFiniteSet(D) /\ Cardinality(D) \in Nat
        /\ DOMAIN q = 1 .. Cardinality(D) /\ \A n \in DOMAIN q : q[n] \in D
    BY <1>3, <1>6, ServerDirProperties, FS_Subset, FS_CardinalityType, AscendingProperties
  <2>2. u \in [1 .. Cardinality(D) -> N]
    BY <1>8, <2>1
  <2> QED
    BY <2>1, <2>2, SeqDef
<1>10. \A r \in N : r.kind = "data" /\ r.sync = s /\ r.path = p
  BY <1>8 DEF DataRequest
<1> HIDE DEF u
<1>11. queueSend' = queueSend \o u /\ queueSend \in Seq(Range(queueSend))
  BY <1>7, SeqOfRange DEF u, TypeOK, QueuesTypeOK
<1>12. PICK A : A = Range(queueSend) \cup N
  OBVIOUS
<1>13. queueSend \in Seq(A) /\ u \in Seq(A)
  BY <1>9, <1>11, <1>12, SeqMonotonic
<1>14. Range(queueSend') = Range(queueSend) \cup Range(u)
  BY <1>11, <1>13, RangeConcatenation
<1>15. Range(u) \subseteq N
  <2>1. \A i \in DOMAIN u : u[i] \in N
    BY <1>9
  <2> QED
    BY <2>1 DEF Range
<1> QED
  BY <1>10, <1>14, <1>15

\* A request sent, taken or answered is none that was not there.
LEMMA RequestsTravel ==
    ASSUME TypeOK, SendQueuedMessages \/ ReceiveMessage \/ Answer
    PROVE  Outstanding' \subseteq Outstanding
<1>0. /\ queueReceived \in Seq(Range(queueReceived)) /\ Main \in Threads
      /\ \A r : r \in Outstanding <=>
            \/ r \in Range(queueSend) \/ r \in wire
            \/ r \in {m.req : m \in Range(queueReceived)}
            \/ pc[Main] = "apply" /\ r = arg[Main].req
  BY WorkersFacts DEF TypeOK, QueuesTypeOK, Outstanding
<1>1. CASE SendQueuedMessages
  <2>1. queueSend' = <<>> /\ wire' = wire \cup Range(queueSend)
        /\ UNCHANGED <<queueReceived, pc, arg>>
    BY <1>1 DEF SendQueuedMessages, threads
  <2>2. Range(queueSend') = {}
    BY <2>1 DEF Range
  <2> QED
    BY <2>1, <2>2 DEF Outstanding
<1>2. CASE ReceiveMessage
  <2>1. /\ pc[Main] = "idle" /\ queueReceived # <<>> /\ queueReceived' = Tail(queueReceived)
        /\ UNCHANGED <<queueSend, wire>>
        /\ UNCHANGED threads
           \/ (Goto(Main, "apply") /\ arg' = [arg EXCEPT ![Main] = Head(queueReceived)])
    BY <1>2 DEF ReceiveMessage, launcher
  <2>2. /\ Range(queueReceived') \subseteq Range(queueReceived)
        /\ Head(queueReceived) \in Range(queueReceived)
    BY <1>0, <2>1, TailTyped
  <2>3. pc'[Main] = "apply" => arg'[Main] = Head(queueReceived)
    BY <1>0, <2>1 DEF threads, TypeOK, ArgsTypeOK
  <2> QED
    BY <2>1, <2>2, <2>3 DEF Outstanding
<1>3. CASE Answer
  <2>1. PICK m, a :
           /\ m \in wire /\ wire' = wire \ {m} /\ a.req = m
           /\ queueReceived' = Append(queueReceived, a) /\ UNCHANGED <<queueSend, pc, arg>>
    BY <1>3 DEF Answer, threads
  <2>2. Range(queueReceived') = Range(queueReceived) \cup {a}
    BY <1>0, <2>1, AppendTyped
  <2> QED
    BY <2>1, <2>2 DEF Outstanding
<1> QED
  BY <1>1, <1>2, <1>3

\* Where a request comes from.
LEMMA NewRequests ==
    ASSUME TypeOK, [Next]_vars, NEW r \in Outstanding', r \notin Outstanding
    PROVE  \/ Synchronize /\ r = LayoutRequest(syncs + 1)
           \/ \E p \in Procs : /\ AddFileBlockHashTask(p) /\ pc[p] = "hash"
                               /\ r.kind = "hashes" /\ r.sync = sync[p]
           \/ \E p \in Procs : /\ AddFileDeleteTask(p) /\ pc[p] = "delete"
                               /\ r.kind = "delete" /\ r.sync = sync[p] /\ r.path \in todo[p]
           \/ \E t \in Threads : /\ SendNextWriteRequests(t) /\ pc[t] = "send"
                                 /\ r.kind \in WriteKinds /\ r.sync = sync[t]
                                 /\ r.path \in DOMAIN task[sync[t]].writes
<1> DEFINE On == \/ Synchronize /\ r = LayoutRequest(syncs + 1)
                 \/ \E p \in Procs : /\ AddFileBlockHashTask(p) /\ pc[p] = "hash"
                                     /\ r.kind = "hashes" /\ r.sync = sync[p]
                 \/ \E p \in Procs :
                       /\ AddFileDeleteTask(p) /\ pc[p] = "delete"
                       /\ r.kind = "delete" /\ r.sync = sync[p] /\ r.path \in todo[p]
                 \/ \E t \in Threads : /\ SendNextWriteRequests(t) /\ pc[t] = "send"
                                       /\ r.kind \in WriteKinds /\ r.sync = sync[t]
                                       /\ r.path \in DOMAIN task[sync[t]].writes
<1>1. ~ SendQueuedMessages /\ ~ ReceiveMessage /\ ~ Answer
  BY RequestsTravel
<1>2. r \in Range(queueSend') /\ r \notin Range(queueSend)
  BY <1>1, TravelRests, MainContinues DEF Outstanding, MainGoesOn
<1>3. queueSend \in Seq(Range(queueSend))
  BY SeqOfRange DEF TypeOK, QueuesTypeOK
<1>4. ~ UNCHANGED queueSend /\ \A e : queueSend' = Append(queueSend, e) => r = e
  <2>1. ~ UNCHANGED queueSend
    BY <1>2
  <2>2. ASSUME NEW e, queueSend' = Append(queueSend, e)
        PROVE  r = e
    <3>1. Range(queueSend') = Range(queueSend) \cup {e}
      BY <1>3, <2>2, AppendTyped
    <3> QED
      BY <1>2, <3>1
  <2> QED
    BY <2>1, <2>2
<1>5. CASE Synchronize
  BY <1>4, <1>5 DEF Synchronize
<1>6. ASSUME NEW p \in Procs, RunTaskStep(p)
      PROVE  On
  <2>1. CASE AddFileBlockHashTask(p)
    <3>1. PICK path : queueSend' = Append(queueSend, PathRequest("hashes", sync[p], path))
      BY <2>1 DEF AddFileBlockHashTask
    <3>2. pc[p] = "hash"
      BY <2>1 DEF AddFileBlockHashTask
    <3> QED
      BY <1>4, <2>1, <3>1, <3>2 DEF PathRequest
  <2>2. CASE AddFileDeleteTask(p)
    <3>1. PICK path \in todo[p] :
             queueSend' = Append(queueSend, PathRequest("delete", sync[p], path))
      BY <2>2 DEF AddFileDeleteTask
    <3>2. pc[p] = "delete"
      BY <2>2 DEF AddFileDeleteTask
    <3> QED
      BY <1>4, <2>2, <3>1, <3>2 DEF PathRequest
  <2>3. CASE ~ (AddFileBlockHashTask(p) \/ AddFileDeleteTask(p))
    <3>1. UNCHANGED queues
      BY Zenon, <1>6, <2>3 DEF RunTaskStep, TakeTask, ProcessFileLayoutServer, LayoutServerBuilt,
         RunSyncTask, LookUpLayouts, LockForHashing, HashingPrepared, LockForWriting,
         WritingPrepared, ReadFileBlock, SendBlockRead
    <3> QED
      BY <1>4, <3>1 DEF queues
  <2> QED
    BY <2>1, <2>2, <2>3
<1>7. ASSUME NEW t \in Threads, SharedStep(t)
      PROVE  On
  <2>1. SendNextWriteRequests(t)
    <3>1. ASSUME ~ SendNextWriteRequests(t)
          PROVE  UNCHANGED queues
      BY Zenon, <1>7, <3>1 DEF SharedStep, FinishLayout, SucceedSynchronization,
         FailSynchronization, ClearPendingTasks
    <3> QED
      BY <1>4, <3>1 DEF queues
  <2>2. ASSUME NEW p, \/ RequestWriteFile(t, p) \/ RequestFinishWriteFile(t, p)
        PROVE  On
    <3>1. pc[t] = "send" /\ p \in DOMAIN task[sync[t]].writes
      BY Zenon, <2>2 DEF RequestWriteFile, RequestFinishWriteFile, Visit, Writing
    <3>2. PICK k \in {"write", "finish"} :
             queueSend' = Append(queueSend, PathRequest(k, sync[t], p))
      BY <1>4, <2>2 DEF RequestWriteFile, RequestFinishWriteFile
    <3> QED
      BY <1>4, <2>1, <3>1, <3>2 DEF PathRequest, WriteKinds
  <2>3. ASSUME NEW p, SendFileData(t, p)
        PROVE  On
    <3>1. pc[t] = "send" /\ p \in DOMAIN task[sync[t]].writes
      BY Zenon, <2>3 DEF SendFileData, Visit, Writing
    <3>2. r.kind = "data" /\ r.sync = sync[t] /\ r.path = p
      BY <1>2, <2>3, SendFileDataAsks
    <3> QED
      BY <2>1, <3>1, <3>2 DEF WriteKinds
  <2>4. ~ LockForSending(t) /\ ~ SendingDone(t) /\ \A p : ~ SkipFile(t, p)
    BY <1>4 DEF LockForSending, SendingDone, SkipFile, queues
  <2> QED
    BY <2>1, <2>2, <2>3, <2>4 DEF SendNextWriteRequests
<1>8. CASE UpdateStep \/ UNCHANGED vars
  <2>1. UNCHANGED queueSend
    BY <1>1, <1>8 DEF UpdateStep, ProcessResponseFileLayout,
       ProcessResponseFileBlockHashes, CheckFinishedHashes, EnqueueSyncTask,
       ProcessResponseDeleteFile, ProcessResponseWriteFile, ProcessFileDataReceived,
       ProcessResponseFinishWriteFile, CheckFinishedWrite, queues, vars
  <2> QED
    BY <1>4, <2>1
<1> HIDE DEF On
<1>9. On
  BY <1>1, <1>5, <1>6, <1>7, <1>8 DEF Next, On
<1> QED
  BY <1>9 DEF On

-------------------------------------------------------------------------------
(* The attempt under way and its layout *)

LEMMA NextWantFirst ==
    ASSUME TypeOK, AttemptInv, WantFirst, [Next]_vars
    PROVE  WantFirst'
<1> SUFFICES ASSUME NEW x \in Syncs,
                    task'[x].status \in {"prepareTasksWriting", "processWriting"}
             PROVE  task'[x].want = {}
  BY DEF WantFirst
<1>1. CASE Synchronize
  BY <1>1 DEF Synchronize, WantFirst
<1>2. CASE ~ Synchronize
  <2>1. task'[x].want \subseteq task[x].want
    BY <1>2, AttemptsGoOn
  <2>2. task[x].want = {}
    BY StagesMove DEF WantFirst
  <2> QED
    BY <2>1, <2>2
<1> QED
  BY <1>1, <1>2

\* The attempt Synchronize() begins.
LEMMA AttemptBegun ==
    ASSUME TypeOK, AttemptInv, Synchronize
    PROVE  /\ syncs + 1 \in Syncs /\ taskSync' = syncs + 1 /\ syncs' = syncs + 1
           /\ task'[syncs + 1].status = "pending"
           /\ task'[syncs + 1].want = {"server", "client"}
           /\ UNCHANGED <<task, threads, queueReceived, files>>
           /\ pc'[Main] = "idle" /\ syncStatus' = "processing" /\ layoutClient' = None
<1>1. /\ syncs < MaxSyncs /\ taskSync' = syncs + 1 /\ syncs' = syncs + 1
      /\ UNCHANGED <<task, threads, queueReceived, launcher>> /\ pc[Main] = "idle"
      /\ syncStatus' = "processing" /\ layoutClient' = None
  BY DEF Synchronize
<1>2. syncs + 1 \in Syncs /\ syncs + 1 > syncs
  BY <1>1, LimitsAssumption DEF TypeOK, ClientTypeOK, Syncs
<1>3. task[syncs + 1].status = "pending" /\ task[syncs + 1].want = {"server", "client"}
  BY <1>2 DEF AttemptInv, AttemptsOver
<1> QED
  BY <1>1, <1>2, <1>3 DEF threads, launcher

LEMMA NextStillOpen ==
    ASSUME TypeOK, AttemptInv, StillOpen, [Next]_vars
    PROVE  StillOpen'
<1> SUFFICES ASSUME taskSync' # None
             PROVE  /\ task'[taskSync'].status # "failure"
                    /\ task'[taskSync'].status = "success" => pc'[Main] = "succeed"
  BY DEF StillOpen
<1>1. CASE Synchronize
  BY <1>1, AttemptBegun
<1>2. CASE ~ Synchronize
  <2>1. taskSync' = taskSync /\ taskSync \in Syncs
    BY <1>2, AttemptsGoOn, WorkersFacts
  <2>2. task[taskSync].status # "failure" /\ (task[taskSync].status = "success" => pc[Main] = "succeed")
    BY <2>1 DEF StillOpen
  <2>3. pc[Main] = "succeed" => pc'[Main] = "succeed"
    BY MainComes
  <2>4. PICK x \in Syncs : x = taskSync
    BY <2>1
  <2>5. /\ task'[x].status = "failure" => task[x].status = "failure"
        /\ task'[x].status = "success" => task[x].status = "success" \/ pc'[Main] = "succeed"
    BY <2>1, StagesMove
  <2> QED
    BY <2>1, <2>2, <2>3, <2>4, <2>5
<1> QED
  BY <1>1, <1>2

LEMMA LayoutClientRests ==
    ASSUME [Next]_vars, ~ Synchronize, ~ ProcessResponseFileLayout
    PROVE  UNCHANGED layoutClient
<1>1. ASSUME UpdateStep
      PROVE  UNCHANGED layoutClient
  <2>1. UNCHANGED client
    BY Zenon, <1>1 DEF UpdateStep, SendQueuedMessages, ReceiveMessage,
       ProcessResponseFileBlockHashes, CheckFinishedHashes, EnqueueSyncTask,
       ProcessResponseDeleteFile, ProcessResponseWriteFile, ProcessFileDataReceived,
       ProcessResponseFinishWriteFile, CheckFinishedWrite
  <2> QED
    BY <2>1 DEF client
<1>2. ASSUME NEW p \in Procs, RunTaskStep(p)
      PROVE  UNCHANGED layoutClient
  <2>1. UNCHANGED client \/ UNCHANGED layoutClient
    BY Zenon, <1>2 DEF RunTaskStep, TakeTask, ProcessFileLayoutServer, LayoutServerBuilt,
       RunSyncTask, LookUpLayouts, LockForHashing, AddFileBlockHashTask, HashingPrepared,
       LockForWriting, AddFileDeleteTask, WritingPrepared, ReadFileBlock, SendBlockRead
  <2> QED
    BY <2>1 DEF client
<1>3. ASSUME NEW t \in Threads, SharedStep(t)
      PROVE  UNCHANGED layoutClient
  <2>1. UNCHANGED client \/ UNCHANGED layoutClient
    BY Zenon, <1>3 DEF SharedStep, FinishLayout, SucceedSynchronization, FailSynchronization,
       ClearPendingTasks, SendNextWriteRequests, LockForSending, RequestWriteFile,
       RequestFinishWriteFile, SendFileData, SkipFile, SendingDone, Visit
  <2> QED
    BY <2>1 DEF client
<1>4. Answer \/ UNCHANGED vars => UNCHANGED layoutClient
  BY DEF Answer, vars, client
<1> QED
  BY Zenon, <1>1, <1>2, <1>3, <1>4 DEF Next

LEMMA NextClientOwn ==
    ASSUME TypeOK, AttemptInv, ClientOwn, [Next]_vars
    PROVE  ClientOwn'
<1>1. CASE Synchronize
  BY <1>1, AttemptBegun DEF ClientOwn
<1>2. CASE ProcessResponseFileLayout
  <2>1. pc[Main] = "apply" /\ layoutClient' \in {layoutClient, sync[Main]}
    BY Zenon, <1>2, LayoutReceived
  <2>2. UNCHANGED taskSync
    BY <1>2 DEF ProcessResponseFileLayout
  <2> QED
    BY <2>1, <2>2 DEF ClientOwn, AttemptInv, UpdateInTime
<1>3. CASE ~ Synchronize /\ ~ ProcessResponseFileLayout
  BY <1>3, LayoutClientRests, AttemptsGoOn DEF ClientOwn
<1> QED
  BY <1>1, <1>2, <1>3

LEMMA NextOwnLayout ==
    ASSUME TypeOK, AttemptInv, ClientOwn, OwnLayout, [Next]_vars
    PROVE  OwnLayout'
<1> SUFFICES ASSUME NEW p \in Procs, pc'[p] \in HoldsLayout
             PROVE  arg'[p] = LayoutOf(sync'[p])
  BY DEF OwnLayout, HoldsLayout
<1>1. sync'[p] = sync[p]
  BY ProcessorComes
<1>2. CASE pc[p] \in HoldsLayout /\ arg'[p] = arg[p]
  BY <1>1, <1>2 DEF OwnLayout, HoldsLayout
<1>3. CASE /\ pc[p] \in HashPlaces \cup WritePlaces
           /\ layoutClient # None /\ arg'[p] = LayoutOf(layoutClient)
  <2>1. taskSync = sync[p]
    BY <1>3 DEF AttemptInv, PreparesAttempt
  <2>2. sync[p] # None
    BY <1>3, WorkersFacts DEF HashPlaces, WritePlaces
  <2> QED
    BY <1>1, <1>3, <2>1, <2>2 DEF ClientOwn
<1> QED
  BY <1>2, <1>3, ProcessorComes

-------------------------------------------------------------------------------
(* What the launcher is asked to delete *)

LEMMA NextDeletesOthers ==
    ASSUME TypeOK, DeletesOthers, [Next]_vars
    PROVE  DeletesOthers'
<1>1. ASSUME NEW p \in Procs, pc'[p] = "delete"
      PROVE  todo'[p] \cap DOMAIN ServerDir = {}
  <2>1. CASE LockForWriting(p)
    <3>1. todo'[p] = DeletePaths(FoundLayout(p))
      BY <2>1, WorkersFacts DEF LockForWriting, TypeOK, ThreadsTypeOK
    <3> QED
      BY <3>1 DEF DeletePaths
  <2>2. CASE AddFileDeleteTask(p)
    <3>1. pc[p] = "delete" /\ \E path \in todo[p] : todo'[p] = todo[p] \ {path}
      BY <2>2, DeleteAsked
    <3> QED
      BY <3>1 DEF DeletesOthers
  <2>3. CASE pc[p] = "delete" /\ sync'[p] = sync[p] /\ todo'[p] = todo[p]
    BY <2>3 DEF DeletesOthers
  <2> QED
    BY <1>1, <2>1, <2>2, <2>3, ProcessorComes
<1>2. ASSUME NEW r \in Outstanding', r.kind = "delete"
      PROVE  r.path \notin DOMAIN ServerDir
  <2>1. CASE r \in Outstanding
    BY <1>2, <2>1 DEF DeletesOthers
  <2>2. CASE r \notin Outstanding
    <3>1. PICK p \in Procs : pc[p] = "delete" /\ r.path \in todo[p]
      BY <1>2, <2>2, NewRequests DEF LayoutRequest, WriteKinds
    <3> QED
      BY <3>1 DEF DeletesOthers
  <2> QED
    BY <2>1, <2>2
<1> QED
  BY <1>1, <1>2 DEF DeletesOthers

-------------------------------------------------------------------------------
(* The launcher answers *)

\* What is right stays right, and nothing else to delete appears.
FilesStay ==
    /\ \A p \in DOMAIN ServerDir : Right(p) => p \in DOMAIN files' /\ files'[p] = ServerDir[p]
    /\ DOMAIN files' \subseteq DOMAIN files \cup DOMAIN ServerDir

\* The answer is true of the files.
TrueAnswer(a) ==
    /\ a.req.kind = "layout" => a.body = files'
    /\ a.req.kind = "delete" /\ a.ok => a.req.path \notin DOMAIN files'
    /\ a.req.kind = "finish" /\ a.ok =>
          a.req.path \in DOMAIN files' /\ files'[a.req.path] = ServerDir[a.req.path]

\* A block written again is the block.
LEMMA RightIsWritten ==
    ASSUME NEW p \in DOMAIN ServerDir, Right(p), NEW i \in ServerBlocks(p)
    PROVE  Written(p, i) = ServerDir[p]
<1>1. PICK file : file = ServerDir[p]
  OBVIOUS
<1>2. file \in Seq(Blocks)
  BY <1>1, DirsAssumption DEF IsDir, IsMap
<1>3. CASE file = <<>>
  BY <1>1, <1>3 DEF Written, Right
<1>4. CASE file # <<>>
  <2>1. i \in 1 .. Len(file) /\ Len(file) \in Nat
    BY <1>1, <1>2, <1>4 DEF ServerBlocks, BlockCount
  <2>2. Written(p, i) = [j \in 1 .. Len(file) |-> CASE j = i -> file[i]
                                                    [] j # i /\ j <= Len(file) -> file[j]
                                                    [] OTHER -> Hole]
    BY <1>1, <1>4, <2>1 DEF Written, Right
  <2>3. Written(p, i) = [j \in 1 .. Len(file) |-> file[j]]
    BY <2>1, <2>2
  <2>4. file = [j \in 1 .. Len(file) |-> file[j]]
    BY <1>2
  <2> QED
    BY <1>1, <2>3, <2>4
<1> QED
  BY <1>3, <1>4

LEMMA AnswerGiven ==
    ASSUME TypeOK, DeletesOthers, Answer
    PROVE  /\ UNCHANGED <<client, task, threads>>
           /\ FilesStay
           /\ \E a : Answers' \subseteq Answers \cup {a} /\ TrueAnswer(a)
<1>1. UNCHANGED <<client, task, threads>>
  BY DEF Answer
<1>2. PICK q \in wire, ok \in BOOLEAN :
         /\ ok => ~ Refused(q)
         /\ files' = IF ok THEN FilesAfter(q) ELSE files
         /\ queueReceived' = Append(queueReceived,
               [req |-> q, ok |-> ok,
                body |-> CASE q.kind = "layout" -> files
                           [] q.kind = "hashes" /\ q.path \in DOMAIN files /\ ok ->
                                 files[q.path]
                           [] OTHER -> <<>>])
  BY Zenon DEF Answer
<1>3. PICK a : /\ queueReceived' = Append(queueReceived, a) /\ a.req = q /\ a.ok = ok
               /\ q.kind = "layout" => a.body = files
  BY <1>2
<1>4. Answers' \subseteq Answers \cup {a}
  <2>1. Range(queueReceived') = Range(queueReceived) \cup {a}
    BY <1>3, AppendTyped DEF TypeOK, QueuesTypeOK
  <2> QED
    BY <1>1, <2>1 DEF Answers, threads
<1>5. q \in Requests /\ (q.kind = "delete" => q.path \notin DOMAIN ServerDir)
  BY DEF DeletesOthers, Outstanding, TypeOK, QueuesTypeOK
<1>6. CASE ~ ok \/ q.kind \notin {"delete", "write", "data"}
  <2>1. files' = files
    BY <1>2, <1>6 DEF FilesAfter
  <2>2. ok /\ q.kind = "finish" => q.path \in DOMAIN files /\ files[q.path] = ServerDir[q.path]
    BY <1>2 DEF Refused
  <2>3. FilesStay
    BY <2>1 DEF FilesStay, Right
  <2>4. TrueAnswer(a)
    BY <1>3, <1>6, <2>1, <2>2 DEF TrueAnswer
  <2> QED
    BY <1>1, <1>4, <2>3, <2>4
<1>7. CASE ok /\ q.kind = "delete"
  <2>1. files' = Without(files, q.path)
    BY <1>2, <1>7 DEF FilesAfter
  <2>2. /\ DOMAIN files' = DOMAIN files \ {q.path}
        /\ \A p \in DOMAIN files \ {q.path} : files'[p] = files[p]
    BY <2>1, WithoutProperties
  <2>3. FilesStay
    BY <1>5, <1>7, <2>2 DEF FilesStay, Right
  <2>4. TrueAnswer(a)
    BY <1>3, <1>7, <2>2 DEF TrueAnswer
  <2> QED
    BY <1>1, <1>4, <2>3, <2>4
<1>8. CASE ok /\ q.kind = "write"
  <2>1. files' = [p \in DOMAIN files |->
           IF p = q.path /\ Len(files[p]) # Len(ServerDir[p]) THEN <<>> ELSE files[p]]
    BY <1>2, <1>8 DEF FilesAfter
  <2>2. FilesStay
    BY <2>1 DEF FilesStay, Right
  <2>3. TrueAnswer(a)
    BY <1>3, <1>8 DEF TrueAnswer
  <2> QED
    BY <1>1, <1>4, <2>2, <2>3
<1>9. CASE ok /\ q.kind = "data"
  <2>1. q.path \in DOMAIN ServerDir /\ q.index \in ServerBlocks(q.path)
    BY <1>5, <1>9 DEF Requests, AboutBlocks, LayoutRequest, PathRequest, DataRequest
  <2>2. PICK w : w = Written(q.path, q.index)
    OBVIOUS
  <2>3. Right(q.path) => w = ServerDir[q.path]
    BY <2>1, <2>2, RightIsWritten
  <2>4. files' = [p \in DOMAIN files \cup {q.path} |-> IF p = q.path THEN w ELSE files[p]]
    BY <1>2, <1>9, <2>2 DEF FilesAfter
  <2>5. FilesStay
    BY <2>1, <2>3, <2>4 DEF FilesStay, Right
  <2>6. TrueAnswer(a)
    BY <1>3, <1>9 DEF TrueAnswer
  <2> QED
    BY <1>1, <1>4, <2>5, <2>6
<1> QED
  BY <1>6, <1>7, <1>8, <1>9

LEMMA FilesOnlyImprove ==
    ASSUME TypeOK, DeletesOthers, [Next]_vars
    PROVE  FilesStay
<1>1. CASE Answer
  BY <1>1, AnswerGiven
<1>2. CASE ~ Answer
  BY <1>2, FilesRest DEF FilesStay, Right
<1> QED
  BY <1>1, <1>2

LEMMA NextAnswersTrue ==
    ASSUME TypeOK, DeletesOthers, AnswersTrue, [Next]_vars
    PROVE  AnswersTrue'
<1>1. FilesStay
  BY FilesOnlyImprove
<1> SUFFICES ASSUME NEW m \in Answers'
             PROVE  /\ m.req.kind = "layout" => Tells(m.body)'
                    /\ m.req.kind = "delete" /\ m.ok => m.req.path \notin DOMAIN files'
                    /\ m.req.kind = "finish" /\ m.ok /\ m.req.path \in DOMAIN ServerDir =>
                          Right(m.req.path)'
  BY DEF AnswersTrue, Tells, Right
<1>2. CASE m \in Answers
  <2>1. m.req.kind = "layout" => Tells(m.body)'
    BY <1>1, <1>2 DEF AnswersTrue, Tells, FilesStay, Right
  <2>2. m.req.kind = "delete" /\ m.ok => m.req.path \notin DOMAIN files'
    <3>1. m.req \in Outstanding
      BY <1>2 DEF Answers, Outstanding
    <3>2. m.req.kind = "delete" => m.req.path \notin DOMAIN ServerDir
      BY <3>1 DEF DeletesOthers
    <3> QED
      BY <1>1, <1>2, <3>2 DEF AnswersTrue, FilesStay
  <2>3. m.req.kind = "finish" /\ m.ok /\ m.req.path \in DOMAIN ServerDir => Right(m.req.path)'
    BY <1>1, <1>2 DEF AnswersTrue, FilesStay, Right
  <2> QED
    BY <2>1, <2>2, <2>3
<1>3. CASE m \notin Answers
  <2>1. Answer
    BY <1>3, AnswersRest
  <2>2. TrueAnswer(m)
    BY <1>3, <2>1, AnswerGiven
  <2> QED
    BY <2>2 DEF TrueAnswer, Tells, Right
<1> QED
  BY <1>2, <1>3

-------------------------------------------------------------------------------
(* The launcher's layout and its files *)

\* What no step but the ones named changes.
LEMMA PartsOfWorkRest ==
    ASSUME TypeOK, [Next]_vars
    PROVE  /\ ~ ProcessResponseFileLayout => SameLayouts
           /\ ~ ProcessResponseDeleteFile /\ (\A p \in Procs : ~ AddFileDeleteTask(p)) =>
                 \A s \in Syncs : task'[s].deletes = task[s].deletes
           /\ (\A p \in Procs : ~ WritingPrepared(p)) => Shrinks
<1>1. CASE ProcessResponseFileLayout
  <2>1. SameDomains /\ \A s \in Syncs : task'[s].deletes = task[s].deletes
    BY Zenon, <1>1, LayoutReceived
  <2> QED
    BY <1>1, <2>1 DEF SameDomains, Shrinks
<1>2. CASE ProcessResponseDeleteFile
  <2>1. SameLayouts /\ SameDomains
    BY Zenon, <1>2, DeleteAnswered
  <2> QED
    BY <1>2, <2>1 DEF SameDomains, Shrinks
<1>3. CASE ProcessResponseFinishWriteFile
  <2>1. PICK s, p : s = sync[Main] /\ p = arg[Main].req.path
    OBVIOUS
  <2>2. /\ SameLayouts
        /\ \A x \in Syncs : /\ task'[x].deletes = task[x].deletes
                            /\ x # s => task'[x].writes = task[x].writes
        /\ task' = task \/ DOMAIN task'[s].writes = DOMAIN task[s].writes \ {p}
    BY <1>3, <2>1, FinishAnswered
  <2> QED
    BY <2>2 DEF Shrinks
<1>4. ASSUME NEW p \in Procs, AddFileDeleteTask(p)
      PROVE  SameLayouts /\ SameDomains
  BY Zenon, <1>4, DeleteAsked
<1>5. ASSUME NEW p \in Procs, WritingPrepared(p)
      PROVE  SameLayouts /\ \A s \in Syncs : task'[s].deletes = task[s].deletes
  BY Zenon, <1>5, WorkPrepared
<1>6. CASE ~ (\/ ProcessResponseFileLayout \/ ProcessResponseDeleteFile
              \/ ProcessResponseFinishWriteFile
              \/ \E p \in Procs : AddFileDeleteTask(p) \/ WritingPrepared(p))
  <2>1. SameWork
    BY <1>6, WorkRest
  <2> QED
    BY <2>1 DEF SameWork, SameDomains, Shrinks
<1> QED
  BY <1>1, <1>2, <1>3, <1>4, <1>5, <1>6 DEF SameDomains, Shrinks

LEMMA NextLayoutFits ==
    ASSUME TypeOK, AttemptInv, DeletesOthers, AnswersTrue, LayoutFits, [Next]_vars
    PROVE  LayoutFits'
<1>1. FilesStay
  BY FilesOnlyImprove
<1>2. ASSUME NEW v, NEW w, Fits(v), DOMAIN w = DOMAIN v,
             \A p \in DOMAIN v : w[p].data = v[p].data
      PROVE  Fits(w)'
  BY <1>1, <1>2 DEF Fits, FilesStay, Right
<1>3. ASSUME NEW x \in Syncs, "client" \notin task'[x].want
      PROVE  Fits(task[x].layout)'
  <2>1. Fits(task[x].layout)
    <3>1. CASE "client" \notin task[x].want
      BY <3>1 DEF LayoutFits
    <3>2. CASE "client" \in task[x].want
      <4>1. FinishLayout(Main)
        <5>1. Synchronize => UNCHANGED task
          BY DEF Synchronize
        <5> QED
          BY <1>3, <3>2, <5>1, ClientWantKept
      <4>2. PICK s : s = sync[Main]
        OBVIOUS
      <4>3. PICK v : v = task[s].want \ {"client"}
        OBVIOUS
      <4>4. pc[Main] = "layoutDone" /\ task' = [task EXCEPT ![s].want = v] /\ s \in Syncs
        BY <4>1, <4>2, <4>3, WorkersFacts DEF FinishLayout
      <4>5. x = s
        BY <1>3, <3>2, <4>4, OneWantSet
      <4> QED
        BY <4>2, <4>4, <4>5 DEF LayoutFits
    <3> QED
      BY <3>1, <3>2
  <2>2. /\ DOMAIN task'[x].layout = DOMAIN task[x].layout
        /\ \A p \in DOMAIN task[x].layout : task'[x].layout[p].data = task[x].layout[p].data
    <3>1. CASE ProcessResponseFileLayout
      <4>1. PICK s, dir : s = sync[Main] /\ dir = arg[Main].body
        OBVIOUS
      <4>2. /\ pc[Main] = "apply"
            /\ UNCHANGED task \/ "client" \in task[s].want
            /\ x # s => task'[x].layout = task[x].layout
        BY <3>1, <4>1, LayoutReceived
      <4>3. "client" \notin task[x].want
        BY <1>3, <3>1, <4>2, ClientWantKept DEF Synchronize, FinishLayout
      <4> QED
        BY <4>2, <4>3
    <3>2. CASE ~ ProcessResponseFileLayout
      BY <3>2, PartsOfWorkRest DEF SameLayouts
    <3> QED
      BY <3>1, <3>2
  <2>3. PICK v, w : v = task[x].layout /\ w = task'[x].layout
    OBVIOUS
  <2>4. Fits(w)'
    BY <1>2, <2>1, <2>2, <2>3
  <2> QED
    BY <2>3, <2>4 DEF Fits, Right
<1>4. ASSUME pc'[Main] = "layoutDone"
      PROVE  Fits(task[sync[Main]].layout)'
  <2>1. PICK s, dir, w : s = sync[Main] /\ dir = arg[Main].body /\ w = task'[s].layout
    OBVIOUS
  <2>2. CASE pc[Main] = "layoutDone"
    <3>1. sync'[Main] = s /\ s \in Syncs /\ Fits(task[s].layout)
      <4>1. taskSync # None => taskSync = s
        BY <2>1, <2>2 DEF AttemptInv, UpdateInTime
      <4>2. sync'[Main] = s
        BY <1>4, <2>1, <4>1, MainComes
      <4> QED
        BY <2>1, <2>2, <4>2, WorkersFacts DEF LayoutFits
    <3>2. SameLayouts
      BY <2>2, PartsOfWorkRest DEF ProcessResponseFileLayout, Applies
    <3>3. Fits(w)'
      BY <1>2, <2>1, <3>1, <3>2 DEF SameLayouts
    <3> QED
      BY <2>1, <3>1, <3>3 DEF Fits, Right
  <2>3. CASE ProcessResponseFileLayout
    <3>1. /\ pc[Main] = "apply" /\ arg[Main].req.kind = "layout" /\ sync'[Main] = s
          /\ DOMAIN w = DOMAIN dir /\ \A p \in DOMAIN dir : w[p].data = dir[p]
      BY <1>4, <2>1, <2>3, LayoutReceived
    <3>2. arg[Main] \in Answers
      BY <3>1 DEF Answers
    <3>3. Tells(dir)
      BY <2>1, <3>1, <3>2 DEF AnswersTrue
    <3>4. Fits(w)'
      BY <1>1, <3>1, <3>3 DEF Tells, Fits, FilesStay, Right
    <3> QED
      BY <2>1, <3>1, <3>4 DEF Fits, Right
  <2> QED
    BY <1>4, <2>2, <2>3, MainComes
<1> QED
  BY <1>3, <1>4 DEF LayoutFits

LEMMA NextDeletesComplete ==
    ASSUME TypeOK, AttemptInv, DeletesOthers, WantFirst, OwnLayout, LayoutFits,
           DeletesComplete, [Next]_vars, \A p, q \in Procs : p = q
    PROVE  DeletesComplete'
<1> SUFFICES ASSUME NEW p \in Procs, pc'[p] = "delete"
             PROVE  DOMAIN files' \ DOMAIN ServerDir
                       \subseteq todo'[p] \cup task'[sync'[p]].deletes
  BY DEF DeletesComplete
<1>0. DOMAIN files' \ DOMAIN ServerDir \subseteq DOMAIN files \ DOMAIN ServerDir
  BY FilesOnlyImprove DEF FilesStay
<1>1. PICK s : s = sync[p] /\ s = sync'[p]
  BY ProcessorComes DEF HoldsLayout
<1>2. pc[p] # "idle" /\ s \in Syncs
  <2>1. pc[p] # "idle"
    BY ProcessorComes DEF HoldsLayout, HashPlaces, WritePlaces
  <2> QED
    BY <1>1, <2>1, WorkersFacts
<1>3. CASE LockForWriting(p)
  <2>1. /\ pc[p] = "deleteLock" /\ UNCHANGED task
        /\ todo'[p] = DeletePaths(FoundLayout(p))
    BY <1>3, WorkersFacts DEF LockForWriting, TypeOK, ThreadsTypeOK
  <2>2. arg[p].sync = s
    <3>1. arg[p] = LayoutOf(s)
      BY <1>1, <2>1 DEF OwnLayout
    <3> QED
      BY <3>1 DEF LayoutOf
  <2>3. Fits(task[s].layout)
    <3>1. task[s].status = "prepareTasksWriting"
      BY <1>1, <1>2, <2>1 DEF AttemptInv, PreparesAttempt, WritePlaces
    <3>2. task[s].want = {}
      BY <1>2, <3>1 DEF WantFirst
    <3> QED
      BY <1>2, <3>2 DEF LayoutFits
  <2> QED
    BY <1>0, <2>1, <2>2, <2>3 DEF FoundLayout, DeletePaths, Fits
<1>4. CASE AddFileDeleteTask(p)
  <2>1. PICK path \in todo[p] :
           /\ task'[s].deletes = task[s].deletes \cup {path}
           /\ todo'[p] = todo[p] \ {path}
    BY <1>1, <1>4, DeleteAsked
  <2>2. pc[p] = "delete"
    BY Zenon, <1>4, DeleteAsked
  <2> QED
    BY <1>0, <1>1, <2>1, <2>2 DEF DeletesComplete
<1>5. CASE pc[p] = "delete" /\ todo'[p] = todo[p] /\ ~ AddFileDeleteTask(p)
  <2>1. task'[s].deletes = task[s].deletes
    <3>1. CASE ProcessResponseDeleteFile
      <4>1. PICK x, path : x = sync[Main] /\ path = arg[Main].req.path
        OBVIOUS
      <4>2. Free(x) /\ \A y \in Syncs \ {x} : task'[y].deletes = task[y].deletes
        BY <3>1, <4>1, DeleteAnswered
      <4>3. s # x
        BY <1>1, <1>5, <4>2, WorkersFacts DEF Free
      <4> QED
        BY <1>2, <4>2, <4>3
    <3>2. CASE ~ ProcessResponseDeleteFile
      BY <1>2, <1>5, <3>2, PartsOfWorkRest
    <3> QED
      BY <3>1, <3>2
  <2> QED
    BY <1>0, <1>1, <1>5, <2>1 DEF DeletesComplete
<1> QED
  BY <1>3, <1>4, <1>5, ProcessorComes

-------------------------------------------------------------------------------
(* What is left to do for the launcher's files *)

\* When writing is prepared the tasks are all there is to do.
LEMMA WorkIsComplete ==
    ASSUME TypeOK, AttemptInv, OwnLayout, WantFirst, LayoutFits, DeletesComplete,
           NEW p \in Procs, WritingPrepared(p), NEW x \in Syncs, x = sync[p]
    PROVE  Remaining(task'[x])
<1>1. PICK layout : layout = FoundLayout(p)
  OBVIOUS
<1>2. /\ pc[p] = "delete" /\ todo[p] = {}
      /\ DOMAIN task'[x].writes = WritePaths(layout) \cup DOMAIN task[x].writes
      /\ task'[x].deletes = task[x].deletes
  BY <1>1, WorkPrepared
<1>3. layout = task[x].layout
  <2>1. arg[p] = LayoutOf(x)
    BY <1>2 DEF OwnLayout
  <2> QED
    BY <1>1, <2>1 DEF FoundLayout, LayoutOf
<1>4. Fits(layout)
  <2>1. task[x].status = "prepareTasksWriting"
    BY <1>2 DEF AttemptInv, PreparesAttempt, WritePlaces
  <2> QED
    BY <1>3, <2>1 DEF LayoutFits, WantFirst
<1>5. DOMAIN files \ DOMAIN ServerDir \subseteq task[x].deletes
  BY <1>2 DEF DeletesComplete
<1>6. \A q \in DOMAIN ServerDir :
         \/ q \in DOMAIN layout /\ layout[q].data = ServerDir[q]
         \/ q \in DOMAIN task'[x].writes
  BY <1>2 DEF WritePaths
<1> QED
  BY <1>2, <1>4, <1>5, <1>6 DEF Remaining, Fits

LEMMA NextFilesLeft ==
    ASSUME TypeOK, AttemptInv, DeletesOthers, AnswersTrue, LayoutFits, OwnLayout, WantFirst,
           DeletesComplete, FilesLeft, [Next]_vars
    PROVE  FilesLeft'
<1> SUFFICES ASSUME Stage({"processWriting"})', pc'[Main] # "fail"
             PROVE  Remaining(task[taskSync])'
  BY DEF FilesLeft
<1>1. CASE Synchronize
  BY <1>1, AttemptBegun DEF Stage
<1>2. CASE ~ Synchronize
  <2>1. /\ taskSync' = taskSync /\ taskSync # None /\ taskSync \in Syncs
    BY <1>2, AttemptsGoOn, WorkersFacts DEF Stage
  <2>2. PICK x \in Syncs : x = taskSync
    BY <2>1
  <2>3. task'[x].status = "processWriting"
    BY <2>1, <2>2 DEF Stage
  <2>4. FilesStay
    BY FilesOnlyImprove
  <2> SUFFICES /\ \A p \in DOMAIN ServerDir : p \in DOMAIN task'[x].writes \/ Right(p)
               /\ DOMAIN files \ DOMAIN ServerDir \subseteq task'[x].deletes
    BY <2>1, <2>2, <2>4 DEF Remaining, FilesStay, Right
  <2>5. ASSUME NEW p \in Procs, WritingPrepared(p), x = sync[p]
        PROVE  Remaining(task'[x])
    BY <2>5, WorkIsComplete
  <2>6. CASE task[x].status = "processWriting"
    <3>1. pc[Main] # "fail"
      BY <2>1, MainComes
    <3>2. Remaining(task[x])
      BY <2>1, <2>2, <2>6, <3>1 DEF FilesLeft, Stage
    <3>3. pc[Main] # "idle" => sync[Main] = x
      BY <2>1, <2>2 DEF AttemptInv, UpdateInTime
    <3>4. CASE ProcessResponseDeleteFile
      <4>1. PICK p : p = arg[Main].req.path
        OBVIOUS
      <4>2. /\ pc[Main] = "apply" /\ arg[Main].req.kind = "delete"
            /\ \/ UNCHANGED task
               \/ /\ task'[x].deletes = task[x].deletes \ {p}
                  /\ pc'[Main] = IF arg[Main].ok THEN "checkWrite" ELSE "fail"
            /\ SameDomains
        BY <3>3, <3>4, <4>1, DeleteAnswered
      <4>3. arg[Main] \in Answers
        BY <4>2 DEF Answers
      <4>4. UNCHANGED task \/ p \notin DOMAIN files
        BY <4>1, <4>2, <4>3 DEF AnswersTrue
      <4> QED
        BY <3>2, <4>2, <4>4 DEF Remaining, SameDomains
    <3>5. CASE ProcessResponseFinishWriteFile
      <4>1. PICK p : p = arg[Main].req.path
        OBVIOUS
      <4>2. /\ pc[Main] = "apply" /\ arg[Main].req.kind = "finish"
            /\ \/ UNCHANGED task
               \/ /\ DOMAIN task'[x].writes = DOMAIN task[x].writes \ {p}
                  /\ pc'[Main] = IF arg[Main].ok THEN "checkWrite" ELSE "fail"
            /\ task'[x].deletes = task[x].deletes
        BY <3>3, <3>5, <4>1, FinishAnswered
      <4>3. arg[Main] \in Answers
        BY <4>2 DEF Answers
      <4>4. UNCHANGED task \/ (p \in DOMAIN ServerDir => Right(p))
        BY <4>1, <4>2, <4>3 DEF AnswersTrue
      <4> QED
        BY <3>2, <4>2, <4>4 DEF Remaining
    <3>6. CASE ProcessResponseFileLayout
      <4>1. PICK s, dir : s = sync[Main] /\ dir = arg[Main].body
        OBVIOUS
      <4>2. SameDomains /\ task'[x].deletes = task[x].deletes
        BY <3>6, <4>1, LayoutReceived
      <4> QED
        BY <3>2, <4>2 DEF Remaining, SameDomains
    <3>7. ASSUME NEW p \in Procs
          PROVE  ~ AddFileDeleteTask(p) /\ ~ WritingPrepared(p)
      <4>1. pc[p] # "delete"
        BY <2>2, <2>6 DEF AttemptInv, PreparesAttempt, WritePlaces
      <4> QED
        BY <4>1 DEF AddFileDeleteTask, WritingPrepared
    <3>8. CASE ~ (\/ ProcessResponseFileLayout \/ ProcessResponseDeleteFile
                  \/ ProcessResponseFinishWriteFile)
      <4>1. SameWork
        BY <3>7, <3>8, WorkRest
      <4> QED
        BY <3>2, <4>1 DEF Remaining, SameWork, SameDomains
    <3> QED
      BY <3>4, <3>5, <3>6, <3>8
  <2>7. task[x].status = "processWriting" \/ \E p \in Procs : WritingPrepared(p) /\ x = sync[p]
    BY <2>3, StagesMove
  <2> QED
    BY <2>5, <2>6, <2>7 DEF Remaining
<1> QED
  BY <1>1, <1>2

-------------------------------------------------------------------------------
(* The end of an attempt *)

\* What sets the status.
LEMMA StatusComes ==
    ASSUME [Next]_vars, ~ Synchronize, ~ \E p \in Procs : LookUpLayouts(p),
           ~ \E t \in Threads : SucceedSynchronization(t) \/ FailSynchronization(t)
    PROVE  UNCHANGED syncStatus
<1>1. CASE UpdateStep \/ Answer \/ UNCHANGED vars
  BY <1>1, Zenon DEF UpdateStep, Answer, vars, client, SendQueuedMessages, ReceiveMessage,
     ProcessResponseFileLayout, ProcessResponseFileBlockHashes, CheckFinishedHashes,
     EnqueueSyncTask, ProcessResponseDeleteFile, ProcessResponseWriteFile,
     ProcessFileDataReceived, ProcessResponseFinishWriteFile, CheckFinishedWrite
<1>2. ASSUME NEW p \in Procs, RunTaskStep(p)
      PROVE  UNCHANGED syncStatus
  BY <1>2, Zenon DEF RunTaskStep, client, TakeTask, ProcessFileLayoutServer, LayoutServerBuilt,
     RunSyncTask, LockForHashing, AddFileBlockHashTask, HashingPrepared, LockForWriting,
     AddFileDeleteTask, WritingPrepared, ReadFileBlock, SendBlockRead
<1>3. ASSUME NEW t \in Threads, SharedStep(t)
      PROVE  UNCHANGED syncStatus
  BY <1>3, Zenon DEF SharedStep, client, FinishLayout, SendNextWriteRequests, LockForSending,
     Visit, RequestWriteFile, RequestFinishWriteFile, SendFileData, SkipFile, SendingDone,
     ClearPendingTasks
<1> QED
  BY <1>1, <1>2, <1>3 DEF Next

\* Only the end of an attempt says "ready".
LEMMA ReadyComes ==
    ASSUME [Next]_vars, syncStatus' = "ready", syncStatus # "ready"
    PROVE  \E t \in Threads :
              SucceedSynchronization(t) /\ pc[t] = "succeed" /\ taskSync # None /\ taskSync' = None
<1>1. ASSUME NEW t \in Threads, SucceedSynchronization(t)
      PROVE  pc[t] = "succeed" /\ taskSync # None /\ taskSync' = None
  BY <1>1 DEF SucceedSynchronization
<1>2. CASE Synchronize
  BY <1>2 DEF Synchronize
<1>3. ASSUME NEW p \in Procs, LookUpLayouts(p)
      PROVE  FALSE
  BY <1>3 DEF LookUpLayouts
<1>4. ASSUME NEW t \in Threads, FailSynchronization(t)
      PROVE  FALSE
  BY <1>4 DEF FailSynchronization
<1> QED
  BY <1>1, <1>2, <1>3, <1>4, StatusComes

\* How an attempt comes to its end: a processor finds nothing to write, or Update()
\* nothing left.
LEMMA FinishedComes ==
    ASSUME TypeOK, [Next]_vars, Finished', ~ Finished
    PROVE  /\ taskSync # None
           /\ \/ \E p \in Procs : pc[p] = "succeed"
              \/ CheckFinishedWrite /\ NothingLeft(task[sync[Main]])
<1>1. CASE syncStatus' = "ready"
  BY <1>1, ReadyComes DEF Finished, Threads
<1>2. CASE pc'[Main] = "succeed" /\ taskSync' # None
  <2>1. ~ Synchronize
    <3>1. Synchronize => pc'[Main] = pc[Main] /\ pc[Main] = "idle"
      BY DEF Synchronize, threads
    <3> QED
      BY <1>2, <3>1
  <2>2. taskSync # None
    BY <1>2, <2>1, AttemptsGoOn
  <2>3. pc[Main] # "succeed"
    BY <2>2 DEF Finished
  <2> QED
    BY <1>2, <2>2, <2>3, MainComes
<1> QED
  BY <1>1, <1>2 DEF Finished

\* Nothing left to do means that the files are there.
LEMMA NothingLeftIsDone ==
    ASSUME TypeOK, FilesLeft, Stage({"processWriting"}), pc[Main] # "fail",
           NothingLeft(task[taskSync])
    PROVE  files = ServerDir
<1>1. PICK x \in Syncs : x = taskSync /\ taskSync # None
  BY WorkersFacts DEF Stage
<1>2. task[x].deletes = {} /\ DOMAIN task[x].writes = {}
  BY <1>1 DEF NothingLeft
<1>3. /\ \A p \in DOMAIN ServerDir : p \in DOMAIN files /\ files[p] = ServerDir[p]
      /\ DOMAIN files \subseteq DOMAIN ServerDir
  BY <1>1, <1>2 DEF FilesLeft, Remaining, Right
<1>4. /\ files = [p \in DOMAIN files |-> files[p]]
      /\ ServerDir = [p \in DOMAIN ServerDir |-> ServerDir[p]]
  BY DirsAssumption DEF TypeOK, IsDir, IsMap
<1>5. DOMAIN files = DOMAIN ServerDir
  BY <1>3
<1> QED
  BY <1>3, <1>4, <1>5

\* Files that are the server's stay so.
LEMMA DoneStays ==
    ASSUME TypeOK, DeletesOthers, [Next]_vars, files = ServerDir
    PROVE  files' = ServerDir
<1>1. FilesStay
  BY FilesOnlyImprove
<1>2. /\ \A p \in DOMAIN ServerDir : p \in DOMAIN files' /\ files'[p] = ServerDir[p]
      /\ DOMAIN files' \subseteq DOMAIN ServerDir
  BY <1>1 DEF FilesStay, Right
<1>3. /\ files' = [p \in DOMAIN files' |-> files'[p]]
      /\ ServerDir = [p \in DOMAIN ServerDir |-> ServerDir[p]]
  BY DirsAssumption, NextTypeOK DEF TypeOK, IsDir, IsMap
<1>4. DOMAIN files' = DOMAIN ServerDir
  BY <1>2
<1> QED
  BY <1>2, <1>3, <1>4

LEMMA NextReadyDone ==
    ASSUME TypeOK, AttemptInv, SucceedsItself, DeletesOthers, StillOpen, FilesLeft, ReadyDone,
           [Next]_vars
    PROVE  ReadyDone'
<1> SUFFICES ASSUME Finished'
             PROVE  files = ServerDir
  BY DoneStays DEF ReadyDone
<1>1. CASE Finished
  BY <1>1 DEF ReadyDone
<1>2. ASSUME ~ Finished, taskSync # None, NEW p \in Procs, pc[p] = "succeed"
      PROVE  files = ServerDir
  <2>1. taskSync = sync[p] /\ pc[Main] # "fail"
    BY <1>2 DEF SucceedsItself
  <2>2. task[taskSync].status = "processWriting" /\ NothingLeft(task[taskSync])
    BY <1>2, <2>1 DEF SucceedsItself
  <2> QED
    BY <1>2, <2>1, <2>2, NothingLeftIsDone DEF Stage
<1>3. CASE taskSync # None /\ CheckFinishedWrite /\ NothingLeft(task[sync[Main]])
  <2>1. PICK x \in Syncs : x = taskSync
    BY <1>3, WorkersFacts
  <2>2. pc[Main] = "checkWrite" /\ x = sync[Main]
    BY <1>3, <2>1 DEF CheckFinishedWrite, AttemptInv, UpdateInTime
  <2>3. task[x].status = "processWriting"
    <3>1. task[x].status \in TaskStatus
      BY DEF TypeOK, TasksTypeOK, IsSyncTask
    <3>2. ~ Stage({"pending", "prepareTasksWriting"}) /\ ~ Stage({"processHashing"})
      BY <2>2 DEF AttemptInv, UpdateInTime, Harmless, TakesHashes
    <3> QED
      BY <1>3, <2>1, <2>2, <3>1, <3>2 DEF Stage, StillOpen, TaskStatus
  <2> QED
    BY <1>3, <2>1, <2>2, <2>3, NothingLeftIsDone DEF Stage
<1> QED
  BY <1>1, <1>2, <1>3, FinishedComes

-------------------------------------------------------------------------------
(* "Ready" is the truth *)

LEMMA NextFiles ==
    ASSUME TypeOK, AttemptInv, SucceedsItself, FilesInv, [Next]_vars, \A p, q \in Procs : p = q
    PROVE  FilesInv'
<1>1. /\ DeletesOthers /\ AnswersTrue /\ LayoutFits /\ ClientOwn /\ OwnLayout /\ WantFirst
      /\ StillOpen /\ DeletesComplete /\ FilesLeft /\ ReadyDone
  BY DEF FilesInv
<1>2. DeletesOthers' /\ AnswersTrue' /\ LayoutFits'
  BY <1>1, NextDeletesOthers, NextAnswersTrue, NextLayoutFits
<1>3. ClientOwn' /\ OwnLayout' /\ WantFirst' /\ StillOpen'
  BY <1>1, NextClientOwn, NextOwnLayout, NextWantFirst, NextStillOpen
<1>4. DeletesComplete' /\ FilesLeft' /\ ReadyDone'
  BY <1>1, NextDeletesComplete, NextFilesLeft, NextReadyDone
<1> QED
  BY <1>2, <1>3, <1>4 DEF FilesInv

LEMMA InitFiles == Init => FilesInv
<1> SUFFICES ASSUME Init PROVE FilesInv
  OBVIOUS
<1>1. /\ queueSend = <<>> /\ queueReceived = <<>> /\ wire = {} /\ taskSync = None
      /\ syncStatus = "pending"
      /\ \A t \in Threads : pc[t] = "idle"
      /\ Main \in Threads /\ \A p \in Procs : p \in Threads
      /\ \A s \in Syncs : task[s].status = "pending" /\ task[s].want = {"server", "client"}
  BY DEF Init, Threads, NewTask
<1>2. Outstanding = {} /\ Answers = {}
  BY <1>1 DEF Range, Outstanding, Answers
<1>3. DeletesOthers /\ AnswersTrue /\ LayoutFits /\ ClientOwn /\ OwnLayout
  BY <1>1, <1>2 DEF DeletesOthers, AnswersTrue, LayoutFits, ClientOwn, OwnLayout
<1>4. WantFirst /\ StillOpen /\ DeletesComplete /\ FilesLeft /\ ReadyDone
  BY <1>1 DEF WantFirst, StillOpen, DeletesComplete, FilesLeft, ReadyDone, Finished, Stage
<1> QED
  BY <1>3, <1>4 DEF FilesInv

(* With one processor - what StartTaskProcessors() starts - "ready" is said only
   when the launcher's files are exactly the server's: whatever the launcher had,
   whatever is refused or cannot be read, in whatever order the answers come and
   however many attempts failed before, whose late answers are taken for those of
   the attempt under way. *)
THEOREM ReadyIsTrue ==
    ASSUME \A p, q \in Procs : p = q
    PROVE  Spec => []ReadyMeansEqual
<1> DEFINE Inv == TypeOK /\ CountsInv /\ StagesKept /\ AttemptInv /\ SucceedsItself /\ FilesInv
<1>1. Init => Inv
  BY InitTypeOK, InitCounts, InitAttempt, InitMoves, InitFiles DEF MoveInv
<1>2. Inv /\ [Next]_vars => Inv'
  <2> SUFFICES ASSUME Inv, [Next]_vars
               PROVE  Inv'
    OBVIOUS
  <2>1. TypeOK' /\ CountsInv' /\ StagesKept'
    BY NextTypeOK, NextCounts
  <2>2. AttemptInv' /\ SucceedsItself'
    BY NextAttempt, NextSucceeds
  <2>3. FilesInv'
    BY NextFiles
  <2> QED
    BY <2>1, <2>2, <2>3
<1>3. Inv => ReadyMeansEqual
  BY DEF FilesInv, ReadyDone, Finished, ReadyMeansEqual
<1> HIDE DEF Inv
<1> QED
  BY <1>1, <1>2, <1>3, PTL DEF Spec

-------------------------------------------------------------------------------
(* What a synchronisation promises *)

Promised == INSTANCE SyncLifecycle WITH status <- syncStatus

WritesOwn == \A r \in Outstanding : r.kind = "write" => r.path \in DOMAIN ServerDir

\* Before the first attempt nothing is under way.
BeforeFirst ==
    syncStatus = "pending" =>
        /\ pending = <<>> /\ queueSend = <<>> /\ queueReceived = <<>> /\ wire = {}
        /\ \A t \in Threads : pc[t] = "idle"

LEMMA NextWritesOwn ==
    ASSUME TypeOK, WritesOwn, [Next]_vars
    PROVE  WritesOwn'
<1> SUFFICES ASSUME NEW r \in Outstanding', r.kind = "write"
             PROVE  r.path \in DOMAIN ServerDir
  BY DEF WritesOwn
<1>1. CASE r \in Outstanding
  BY <1>1 DEF WritesOwn
<1>2. CASE r \notin Outstanding
  <2>1. PICK t \in Threads : pc[t] = "send" /\ r.path \in DOMAIN task[sync[t]].writes
    BY <1>2, NewRequests DEF LayoutRequest
  <2>2. sync[t] \in Syncs
    BY <2>1, WorkersFacts
  <2> QED
    BY <2>1, <2>2 DEF TypeOK, TasksTypeOK, IsSyncTask
<1> QED
  BY <1>1, <1>2

\* Nothing moves before the application begins.
LEMMA OnlyBegins ==
    ASSUME BeforeFirst, syncStatus = "pending", [Next]_vars, ~ Synchronize
    PROVE  UNCHANGED vars
<1>1. /\ pending = <<>> /\ queueSend = <<>> /\ queueReceived = <<>> /\ wire = {}
      /\ Main \in Threads /\ \A t \in Threads : pc[t] = "idle"
      /\ \A p \in Procs : p \in Threads
  BY DEF BeforeFirst, Threads
<1>2. ~ Answer
  BY <1>1 DEF Answer
<1>3. ~ UpdateStep
  BY <1>1 DEF UpdateStep, SendQueuedMessages, ReceiveMessage, ProcessResponseFileLayout,
     ProcessResponseFileBlockHashes, CheckFinishedHashes, EnqueueSyncTask,
     ProcessResponseDeleteFile, ProcessResponseWriteFile, ProcessFileDataReceived,
     ProcessResponseFinishWriteFile, CheckFinishedWrite, Applies
<1>4. ASSUME NEW p \in Procs
      PROVE  ~ RunTaskStep(p)
  <2>1. pc[p] = "idle"
    BY <1>1
  <2>2. ~ TakeTask(p)
    BY <1>1 DEF TakeTask
  <2> QED
    BY <2>1, <2>2 DEF RunTaskStep, ProcessFileLayoutServer, LayoutServerBuilt, RunSyncTask,
       LookUpLayouts, LockForHashing, AddFileBlockHashTask, HashingPrepared, LockForWriting,
       AddFileDeleteTask, WritingPrepared, ReadFileBlock, SendBlockRead
<1>5. ASSUME NEW t \in Threads
      PROVE  ~ SharedStep(t)
  <2>1. pc[t] = "idle"
    BY <1>1
  <2> QED
    BY <2>1 DEF SharedStep, FinishLayout, SendNextWriteRequests, LockForSending,
       RequestWriteFile, RequestFinishWriteFile, SendFileData, SkipFile, Visit, SendingDone,
       SucceedSynchronization, FailSynchronization, ClearPendingTasks
<1> QED
  BY <1>2, <1>3, <1>4, <1>5 DEF Next

LEMMA NextBeforeFirst ==
    ASSUME BeforeFirst, [Next]_vars
    PROVE  BeforeFirst'
<1> SUFFICES ASSUME syncStatus' = "pending"
             PROVE  BeforeFirst'
  BY DEF BeforeFirst
<1>1. ~ Synchronize
  BY DEF Synchronize
<1>2. syncStatus = "pending"
  <2>1. \A p \in Procs : ~ LookUpLayouts(p)
    BY DEF LookUpLayouts
  <2>2. \A t \in Threads : ~ FailSynchronization(t) \/ UNCHANGED syncStatus
    BY DEF FailSynchronization
  <2>3. \A t \in Threads : ~ SucceedSynchronization(t) \/ UNCHANGED syncStatus
    BY DEF SucceedSynchronization
  <2> QED
    BY <1>1, <2>1, <2>2, <2>3, StatusComes
<1>3. UNCHANGED vars
  BY <1>1, <1>2, OnlyBegins
<1> QED
  BY <1>2, <1>3 DEF BeforeFirst, vars, launcher, queues, threads

\* Requests on their way only bring the files nearer to the server's.
LEMMA AnswerReplaces ==
    ASSUME TypeOK, DeletesOthers, WritesOwn, Answer
    PROVE  Promised!Replaces(files, files')
<1>1. PICK q \in wire, ok \in BOOLEAN : files' = IF ok THEN FilesAfter(q) ELSE files
  BY Zenon DEF Answer
<1>2. /\ q \in Requests
      /\ q.kind = "delete" => q.path \notin DOMAIN ServerDir
      /\ q.kind = "write" => q.path \in DOMAIN ServerDir
  BY DEF DeletesOthers, WritesOwn, Outstanding, TypeOK, QueuesTypeOK
<1>3. CASE ~ ok \/ q.kind \notin {"delete", "write", "data"}
  BY <1>1, <1>3 DEF FilesAfter, Promised!Replaces
<1>4. CASE ok /\ q.kind = "delete"
  <2>1. files' = Without(files, q.path)
    BY <1>1, <1>4 DEF FilesAfter
  <2>2. /\ DOMAIN files' = DOMAIN files \ {q.path}
        /\ \A p \in DOMAIN files \ {q.path} : files'[p] = files[p]
    BY <2>1, WithoutProperties
  <2> QED
    BY <1>2, <1>4, <2>2 DEF Promised!Replaces
<1>5. CASE ok /\ q.kind = "write"
  <2>1. files' = [p \in DOMAIN files |->
           IF p = q.path /\ Len(files[p]) # Len(ServerDir[p]) THEN <<>> ELSE files[p]]
    BY <1>1, <1>5 DEF FilesAfter
  <2> QED
    BY <1>2, <1>5, <2>1 DEF Promised!Replaces
<1>6. CASE ok /\ q.kind = "data"
  <2>1. q.path \in DOMAIN ServerDir
    BY <1>2, <1>6 DEF Requests, AboutBlocks, LayoutRequest, PathRequest, DataRequest
  <2>2. PICK w : w = Written(q.path, q.index)
    OBVIOUS
  <2>3. files' = [p \in DOMAIN files \cup {q.path} |-> IF p = q.path THEN w ELSE files[p]]
    BY <1>1, <1>6, <2>2 DEF FilesAfter
  <2> QED
    BY <2>1, <2>3 DEF Promised!Replaces
<1> QED
  BY <1>3, <1>4, <1>5, <1>6

\* Every step is one the promise allows, or does not show.
LEMMA StepAsPromised ==
    ASSUME TypeOK, AttemptInv, StatusMatchesTask, FilesInv, ReadyDone', WritesOwn, BeforeFirst,
           [Next]_vars
    PROVE  [Promised!Next]_(Promised!vars)
<1> DEFINE Shown == Promised!Next \/ UNCHANGED Promised!vars
<1> SUFFICES Shown
  OBVIOUS
<1>1. CASE Synchronize
  <2>1. taskSync = None
    BY <1>1 DEF Synchronize, FilesInv, StillOpen
  <2>2. syncStatus # "processing"
    BY <2>1 DEF StatusMatchesTask
  <2>3. syncStatus' = "processing" /\ UNCHANGED files
    BY <1>1 DEF Synchronize, launcher
  <2> QED
    BY <2>2, <2>3 DEF Promised!Next, Promised!Begin
<1>2. CASE Answer
  <2>1. UNCHANGED syncStatus
    BY <1>2 DEF Answer, client
  <2>2. CASE syncStatus \in {"processing", "failed"}
    BY <1>2, <2>1, <2>2, AnswerReplaces DEF FilesInv, Promised!Next, Promised!Work
  <2>3. CASE syncStatus = "ready"
    <3>1. files = ServerDir
      BY <2>3 DEF FilesInv, ReadyDone, Finished
    <3>2. files' = ServerDir
      BY <2>1, <2>3 DEF ReadyDone, Finished
    <3> QED
      BY <2>1, <3>1, <3>2 DEF Promised!vars
  <2>4. syncStatus # "pending"
    BY <1>2 DEF BeforeFirst, Answer
  <2> QED
    BY <2>2, <2>3, <2>4 DEF TypeOK, ClientTypeOK
<1>3. ASSUME NEW p \in Procs, LookUpLayouts(p)
      PROVE  Shown
  <2>1. /\ pc[p] \in HashPlaces \cup WritePlaces
        /\ syncStatus' = "processing" /\ UNCHANGED files
    BY <1>3 DEF LookUpLayouts, HashPlaces, WritePlaces, launcher
  <2>2. taskSync = sync[p] /\ sync[p] # None
    BY <2>1, WorkersFacts DEF AttemptInv, PreparesAttempt, HashPlaces, WritePlaces
  <2> QED
    BY <2>1, <2>2 DEF StatusMatchesTask, Promised!vars
<1>4. ASSUME NEW t \in Threads, SucceedSynchronization(t)
      PROVE  Shown
  <2>1. UNCHANGED files
    BY <1>4 DEF SucceedSynchronization, launcher
  <2>2. CASE taskSync = None
    BY <1>4, <2>1, <2>2 DEF SucceedSynchronization, Promised!vars
  <2>3. CASE taskSync # None
    <3>1. syncStatus' = "ready" /\ syncStatus = "processing"
      BY <1>4, <2>3 DEF SucceedSynchronization, StatusMatchesTask
    <3>2. files = ServerDir
      BY <2>1, <3>1 DEF ReadyDone, Finished
    <3> QED
      BY <2>1, <3>1, <3>2 DEF Promised!Next, Promised!Succeed
  <2> QED
    BY <2>2, <2>3
<1>5. ASSUME NEW t \in Threads, FailSynchronization(t)
      PROVE  Shown
  <2>1. UNCHANGED files
    BY <1>5 DEF FailSynchronization, launcher
  <2>2. CASE taskSync = None
    BY <1>5, <2>1, <2>2 DEF FailSynchronization, Promised!vars
  <2>3. CASE taskSync # None
    <3>1. syncStatus' = "failed" /\ syncStatus = "processing"
      BY <1>5, <2>3 DEF FailSynchronization, StatusMatchesTask
    <3> QED
      BY <2>1, <3>1 DEF Promised!Next, Promised!Fail
  <2> QED
    BY <2>2, <2>3
<1>6. ASSUME ~ Synchronize, ~ Answer, \A p \in Procs : ~ LookUpLayouts(p),
             \A t \in Threads : ~ SucceedSynchronization(t) /\ ~ FailSynchronization(t)
      PROVE  Shown
  BY <1>6, FilesRest, StatusComes DEF Promised!vars
<1> QED
  BY <1>1, <1>2, <1>3, <1>4, <1>5, <1>6

LEMMA InitAsPromised == Init => Promised!Init /\ WritesOwn /\ BeforeFirst
<1> SUFFICES ASSUME Init PROVE Promised!Init /\ WritesOwn /\ BeforeFirst
  OBVIOUS
<1>1. /\ queueSend = <<>> /\ queueReceived = <<>> /\ wire = {} /\ pending = <<>>
      /\ syncStatus = "pending" /\ files \in ClientDirs
      /\ Main \in Threads /\ \A t \in Threads : pc[t] = "idle"
  BY DEF Init, Threads
<1>2. Outstanding = {}
  BY <1>1 DEF Range, Outstanding
<1> QED
  BY <1>1, <1>2 DEF Promised!Init, WritesOwn, BeforeFirst

(* With one processor the server does what a synchronisation promises to the
   application, see SyncLifecycle: the status goes through its states in order,
   "ready" is said of equal directories only, files change only between the
   beginning of an attempt and the next success, and requests on their way - those
   of a failed attempt too - only take away files the server has not, or bring
   those it has. *)
THEOREM DoesAsPromised ==
    ASSUME \A p, q \in Procs : p = q
    PROVE  Spec => Promised!Spec
<1> DEFINE Inv == /\ TypeOK /\ CountsInv /\ StagesKept /\ AttemptInv /\ StatusMatchesTask
                  /\ SucceedsItself /\ FilesInv /\ WritesOwn /\ BeforeFirst
<1>1. Init => Inv /\ Promised!Init
  BY InitTypeOK, InitCounts, InitAttempt, InitMoves, InitFiles, InitAsPromised DEF MoveInv
<1>2. Inv /\ [Next]_vars => Inv'
  <2> SUFFICES ASSUME Inv, [Next]_vars
               PROVE  Inv'
    OBVIOUS
  <2>1. TypeOK' /\ CountsInv' /\ StagesKept'
    BY NextTypeOK, NextCounts
  <2>2. AttemptInv' /\ StatusMatchesTask' /\ SucceedsItself'
    BY NextAttempt, NextStatus, NextSucceeds
  <2>3. FilesInv' /\ WritesOwn' /\ BeforeFirst'
    BY NextFiles, NextWritesOwn, NextBeforeFirst
  <2> QED
    BY <2>1, <2>2, <2>3
<1>3. Inv /\ Inv' /\ [Next]_vars => [Promised!Next]_(Promised!vars)
  <2> SUFFICES ASSUME Inv, Inv', [Next]_vars
               PROVE  [Promised!Next]_(Promised!vars)
    OBVIOUS
  <2>1. ReadyDone'
    BY DEF FilesInv
  <2> QED
    BY <2>1, StepAsPromised
<1> HIDE DEF Inv
<1> QED
  BY <1>1, <1>2, <1>3, PTL DEF Spec, Promised!Spec
===============================================================================
