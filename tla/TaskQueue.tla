------------------------------- MODULE TaskQueue -------------------------------
(***************************************************************************)
(* The pending task queue shared by the thread calling Update() and the    *)
(* task processor threads: derlRemoteClient (server side) and              *)
(* derlLauncherClient (launcher side) hold the same queue, mutex and       *)
(* condition variable, and their processors the same wait loop.  The       *)
(* module is about the threads: who sleeps, who is woken, who exits.  What *)
(* a task does is the business of the modules about synchronisation.       *)
(*                                                                         *)
(* A member of Tasks is one push of a task object on the queue: an object  *)
(* pushed twice is two members.  The sections under pMutexPendingTasks are *)
(* one step each, so the mutex itself needs no variable.                   *)
(***************************************************************************)
EXTENDS Naturals, Sequences, Functions

CONSTANTS
    Procs,      \* the task processor threads
    Owner,      \* the thread calling Update(), Start- and StopTaskProcessors()
    Tasks,      \* the pushes that can happen
    NoTask,     \* what a processor runs when it runs nothing
    MaxStarts   \* bound: how often the processors are started

ASSUME ThreadsAssumption == Owner \notin Procs
ASSUME TasksAssumption == NoTask \notin Tasks

Threads == Procs \cup {Owner}

VARIABLES
    pc,         \* where every thread is
    exit,       \* pExit of every processor
    tasks,      \* pPendingTasks
    eligible,   \* queued or future tasks NextPendingTask() would accept now
    running,    \* the task every processor runs
    dropped,    \* tasks removed by clearing the queue
    finished,   \* tasks a processor ran to the end
    starts      \* calls of StartTaskProcessors() so far

vars == <<pc, exit, tasks, eligible, running, dropped, finished, starts>>

OwnerPC == {"down", "up", "notify", "exitNotify", "join"}
ProcPC == {"none", "check", "lock", "wait", "woken", "run", "notify", "done"}

TypeOK ==
    /\ pc \in [Threads -> OwnerPC \cup ProcPC]
    /\ pc[Owner] \in OwnerPC
    /\ \A p \in Procs : pc[p] \in ProcPC
    /\ exit \in [Procs -> BOOLEAN]
    /\ tasks \in Seq(Tasks)
    /\ eligible \subseteq Tasks
    /\ running \in [Procs -> Tasks \cup {NoTask}]
    /\ dropped \subseteq Tasks
    /\ finished \subseteq Tasks
    /\ starts \in Nat

Added == Range(tasks) \cup {running[p] : p \in Procs} \cup dropped \cup finished

Init ==
    /\ pc = [t \in Threads |-> IF t = Owner THEN "down" ELSE "none"]
    /\ exit = [p \in Procs |-> FALSE]
    /\ tasks = <<>>
    /\ eligible \in SUBSET Tasks
    /\ running = [p \in Procs |-> NoTask]
    /\ dropped = {}
    /\ finished = {}
    /\ starts = 0

-------------------------------------------------------------------------------
(* The owner starts and stops the processors. *)

\* New processor objects, each run by a thread of its own.
StartTaskProcessors ==
    /\ pc[Owner] = "down"
    /\ starts < MaxStarts
    /\ pc' = [t \in Threads |-> IF t = Owner THEN "up" ELSE "check"]
    /\ exit' = [p \in Procs |-> FALSE]
    /\ starts' = starts + 1
    /\ UNCHANGED <<tasks, eligible, running, dropped, finished>>

\* StopTaskProcessors() first raises every exit flag, without a lock ...
RequestExit ==
    /\ pc[Owner] = "up"
    /\ pc' = [pc EXCEPT ![Owner] = "exitNotify"]
    /\ exit' = [p \in Procs |-> TRUE]
    /\ UNCHANGED <<tasks, eligible, running, dropped, finished, starts>>

\* Variant: the sleepers are not notified.
AwakeNobody(f) == f

\* notify_all() wakes the threads asleep at this moment and nobody later.
Awake(f) == [t \in Threads |-> IF f[t] = "wait" THEN "woken" ELSE f[t]]

\* ... then wakes the sleepers ...
NotifyExit ==
    /\ pc[Owner] = "exitNotify"
    /\ pc' = [Awake(pc) EXCEPT ![Owner] = "join"]
    /\ UNCHANGED <<exit, tasks, eligible, running, dropped, finished, starts>>

\* ... and joins all threads.
JoinAll ==
    /\ pc[Owner] = "join"
    /\ \A p \in Procs : pc[p] = "done"
    /\ pc' = [t \in Threads |-> IF t = Owner THEN "down" ELSE "none"]
    /\ UNCHANGED <<exit, tasks, eligible, running, dropped, finished, starts>>

-------------------------------------------------------------------------------
(* Threads that use the queue: the owner any time it is not stopping the
   processors, a processor while it runs a task. *)

Active(t) == pc[t] = IF t = Owner THEN "up" ELSE "run"

\* AddPendingTaskSync() pushes under the mutex ...
PushTask(t) ==
    /\ Active(t)
    /\ \E task \in Tasks \ Added : tasks' = Append(tasks, task)
    /\ pc' = [pc EXCEPT ![t] = "notify"]
    /\ UNCHANGED <<exit, eligible, running, dropped, finished, starts>>

\* ... and notifies after releasing it.
NotifyPendingTaskAdded(t) ==
    /\ pc[t] = "notify"
    /\ pc' = [Awake(pc) EXCEPT ![t] = IF t = Owner THEN "up" ELSE "run"]
    /\ UNCHANGED <<exit, tasks, eligible, running, dropped, finished, starts>>

\* FailSynchronization() drops everything that is queued.
ClearTasks(t) ==
    /\ Active(t)
    /\ tasks # <<>>
    /\ tasks' = <<>>
    /\ dropped' = dropped \cup Range(tasks)
    /\ UNCHANGED <<pc, exit, eligible, running, finished, starts>>

\* The sync task's status, or on the launcher the presence of a file layout,
\* decides which queued tasks are accepted; other threads change both.
ChangeEligible(t) ==
    /\ Active(t)
    /\ \E task \in Tasks :
          eligible' = IF task \in eligible THEN eligible \ {task}
                                           ELSE eligible \cup {task}
    /\ UNCHANGED <<pc, exit, tasks, running, dropped, finished, starts>>

-------------------------------------------------------------------------------
(* A processor thread: Run() calls RunTask() until pExit is set. *)

\* The test of pExit at the head of Run() and of NextPendingTask().
CheckExit(p) ==
    /\ pc[p] = "check"
    /\ pc' = [pc EXCEPT ![p] = IF exit[p] THEN "done" ELSE "lock"]
    /\ UNCHANGED <<exit, tasks, eligible, running, dropped, finished, starts>>

\* Variant: the task taken stays in the queue.
KeptInQueue(i) == tasks

\* Variant: the task behind the one taken is erased, too.
ErasedWithNext(i) == SubSeq(tasks, 1, i - 1) \o SubSeq(tasks, i + 2, Len(tasks))

\* The queue without its i-th task.
Erased(i) == SubSeq(tasks, 1, i - 1) \o SubSeq(tasks, i + 1, Len(tasks))

\* The first queued task that is eligible is taken; none: NextPendingTask()
\* returns false and RunTask() is called again.
TakeOrReturn(p) ==
    LET found == {i \in DOMAIN tasks : tasks[i] \in eligible}
    IN  IF found = {}
        THEN /\ pc' = [pc EXCEPT ![p] = "check"]
             /\ UNCHANGED <<tasks, running>>
        ELSE \E i \in found :
             /\ \A j \in found : i <= j
             /\ running' = [running EXCEPT ![p] = tasks[i]]
             /\ tasks' = Erased(i)
             /\ pc' = [pc EXCEPT ![p] = "run"]

\* With the mutex held: wait on an empty queue, else scan it.
LockAndScan(p) ==
    /\ pc[p] = "lock"
    /\ IF tasks = <<>>
       THEN /\ pc' = [pc EXCEPT ![p] = "wait"]
            /\ UNCHANGED <<tasks, running>>
       ELSE TakeOrReturn(p)
    /\ UNCHANGED <<exit, eligible, dropped, finished, starts>>

\* The condition variable may wake a thread for no reason.
SpuriousWakeup(p) ==
    /\ pc[p] = "wait"
    /\ pc' = [pc EXCEPT ![p] = "woken"]
    /\ UNCHANGED <<exit, tasks, eligible, running, dropped, finished, starts>>

\* wait() returns with the mutex held.
WakeAndScan(p) ==
    /\ pc[p] = "woken"
    /\ IF tasks = <<>> \/ exit[p]
       THEN /\ pc' = [pc EXCEPT ![p] = "check"]
            /\ UNCHANGED <<tasks, running>>
       ELSE TakeOrReturn(p)
    /\ UNCHANGED <<exit, eligible, dropped, finished, starts>>

\* Variant: finishes what was never begun.
FinishTaskAnytime(p) ==
    /\ finished' = finished \cup {running[p]}
    /\ running' = [running EXCEPT ![p] = NoTask]
    /\ pc' = [pc EXCEPT ![p] = "check"]
    /\ UNCHANGED <<exit, tasks, eligible, dropped, starts>>

FinishTask(p) ==
    /\ pc[p] = "run"
    /\ finished' = finished \cup {running[p]}
    /\ running' = [running EXCEPT ![p] = NoTask]
    /\ pc' = [pc EXCEPT ![p] = "check"]
    /\ UNCHANGED <<exit, tasks, eligible, dropped, starts>>

-------------------------------------------------------------------------------
OwnerNext == StartTaskProcessors \/ RequestExit \/ NotifyExit \/ JoinAll

QueueUse(t) ==
    PushTask(t) \/ NotifyPendingTaskAdded(t) \/ ClearTasks(t) \/ ChangeEligible(t)

ProcStep(p) == CheckExit(p) \/ LockAndScan(p) \/ WakeAndScan(p) \/ FinishTask(p)

Next ==
    \/ OwnerNext
    \/ \E t \in Threads : QueueUse(t)
    \/ \E p \in Procs : ProcStep(p) \/ SpuriousWakeup(p)

(* A running thread gets the processor again and again; a call begun by the
   owner is completed.  When to push, clear, start or stop is up to the
   program around, a spurious wakeup up to the platform. *)
Fairness ==
    /\ WF_vars(NotifyExit \/ JoinAll)
    /\ \A t \in Threads : WF_vars(NotifyPendingTaskAdded(t))
    /\ \A p \in Procs : WF_vars(ProcStep(p))

Spec == Init /\ [][Next]_vars

FairSpec == Spec /\ Fairness

-------------------------------------------------------------------------------
(* Every task pushed is in exactly one place: queued once, run by one
   processor, dropped with the queue, or finished.  Two processors never run the
   same push. *)
EachTaskOnce ==
    /\ \A i, j \in DOMAIN tasks : tasks[i] = tasks[j] => i = j
    /\ Range(tasks) \cap (dropped \cup finished) = {}
    /\ dropped \cap finished = {}
    /\ \A p \in Procs : running[p] # NoTask =>
          /\ running[p] \notin Range(tasks) \cup dropped \cup finished
          /\ \A q \in Procs : running[q] = running[p] => p = q

(* No push gets lost on its way through the queue, and a processor never takes a
   task while it has another one. *)
NothingLost == [][Added \ {NoTask} \subseteq Added']_vars

(* A processor asleep while tasks are queued is about to be woken: some
   thread has pushed and not yet notified.  This is what pushing under the
   mutex buys although notify_all() is called outside of it. *)
NoLostWakeup ==
    (\E p \in Procs : pc[p] = "wait") /\ tasks # <<>> =>
        \E t \in Threads : pc[t] = "notify"

(* A queued task that stays eligible is eventually taken or dropped, unless
   the processors are being stopped. *)
TaskTaken ==
    \A task \in Tasks :
        task \in Range(tasks) ~> \/ task \notin Range(tasks)
                               \/ task \notin eligible
                               \/ pc[Owner] \notin {"up", "notify"}

(* StopTaskProcessors() returns: the loop over join() ends, whatever the
   processors were doing when it was called. *)
StopReturns == pc[Owner] = "exitNotify" ~> pc[Owner] = "down"
===============================================================================
