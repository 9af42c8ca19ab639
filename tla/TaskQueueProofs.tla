---------------------------- MODULE TaskQueueProofs ----------------------------
(***************************************************************************)
(* Theorems about TaskQueue, for every set of processors and of tasks and  *)
(* any number of starts.  The inductive invariant is TypeOK with what the  *)
(* program counters say about the tasks being run; the other invariants    *)
(* are inductive relative to it.                                           *)
(***************************************************************************)
EXTENDS TaskQueue, SequenceTheorems, TLAPS

(* A processor has a task exactly while it runs one, and there is no processor
   while the owner has none started. *)
RunsItsTask ==
    /\ \A p \in Procs : running[p] # NoTask <=> pc[p] \in {"run", "notify"}
    /\ pc[Owner] = "down" => \A p \in Procs : pc[p] = "none"

Inv == TypeOK /\ RunsItsTask

-------------------------------------------------------------------------------
(* What taking a task leaves in the queue *)

LEMMA EraseFromSequence ==
    ASSUME NEW S, NEW s \in Seq(S), NEW i \in 1 .. Len(s)
    PROVE  LET e == SubSeq(s, 1, i - 1) \o SubSeq(s, i + 1, Len(s))
           IN  /\ e \in Seq(S)
               /\ Len(e) = Len(s) - 1
               /\ \A j \in 1 .. (Len(s) - 1) : e[j] = s[IF j < i THEN j ELSE j + 1]
<1> DEFINE before == SubSeq(s, 1, i - 1)
           after == SubSeq(s, i + 1, Len(s))
<1>1. /\ Len(s) \in Nat
      /\ \A k \in 1 .. Len(s) : s[k] \in S
  BY LenProperties, ElementOfSeq
<1>2. /\ before \in Seq(S)
      /\ Len(before) = i - 1
      /\ \A k \in 1 .. (i - 1) : before[k] = s[k]
  BY <1>1, SubSeqProperties
<1>3. /\ after \in Seq(S)
      /\ Len(after) = Len(s) - i
      /\ \A k \in 1 .. (Len(s) - i) : after[k] = s[k + i]
  BY <1>1, SubSeqProperties
<1> HIDE DEF before, after
<1>4. /\ before \o after \in Seq(S)
      /\ Len(before \o after) = Len(s) - 1
      /\ \A j \in 1 .. (Len(s) - 1) :
            (before \o after)[j] = IF j < i THEN before[j] ELSE after[j - (i - 1)]
  <2>1. /\ before \o after \in Seq(S)
        /\ Len(before \o after) = Len(before) + Len(after)
        /\ \A j \in 1 .. Len(before) + Len(after) :
              (before \o after)[j] =
                 IF j <= Len(before) THEN before[j] ELSE after[j - Len(before)]
    BY <1>2, <1>3, ConcatProperties
  <2> QED
    BY <1>1, <1>2, <1>3, <2>1
<1>5. \A j \in 1 .. (Len(s) - 1) :
         (before \o after)[j] = s[IF j < i THEN j ELSE j + 1]
  BY <1>1, <1>2, <1>3, <1>4
<1> QED
  BY <1>4, <1>5 DEF before, after

LEMMA ErasedProperties ==
    ASSUME tasks \in Seq(Tasks), NEW i \in DOMAIN tasks
    PROVE  /\ Erased(i) \in Seq(Tasks)
           /\ DOMAIN tasks = 1 .. Len(tasks) /\ Len(tasks) \in Nat
           /\ DOMAIN Erased(i) = 1 .. (Len(tasks) - 1)
           /\ \A j \in 1 .. (Len(tasks) - 1) :
                 Erased(i)[j] = tasks[IF j < i THEN j ELSE j + 1]
<1>1. DOMAIN tasks = 1 .. Len(tasks) /\ Len(tasks) \in Nat
  BY LenProperties
<1>2. /\ Erased(i) \in Seq(Tasks)
      /\ Len(Erased(i)) = Len(tasks) - 1
      /\ \A j \in 1 .. (Len(tasks) - 1) :
            Erased(i)[j] = tasks[IF j < i THEN j ELSE j + 1]
  BY <1>1, EraseFromSequence DEF Erased
<1>3. DOMAIN Erased(i) = 1 .. Len(Erased(i))
  BY <1>2, LenProperties
<1> QED
  BY <1>1, <1>2, <1>3

(* The queue after a task was taken holds every other push once. *)
LEMMA ErasedOnce ==
    ASSUME tasks \in Seq(Tasks), NEW i \in DOMAIN tasks,
           \A j, k \in DOMAIN tasks : tasks[j] = tasks[k] => j = k
    PROVE  /\ \A j, k \in DOMAIN Erased(i) : Erased(i)[j] = Erased(i)[k] => j = k
           /\ Range(Erased(i)) = Range(tasks) \ {tasks[i]}
<1> DEFINE n == Len(tasks)
           old(j) == IF j < i THEN j ELSE j + 1
<1>1. /\ n \in Nat /\ DOMAIN tasks = 1 .. n /\ i \in 1 .. n
      /\ DOMAIN Erased(i) = 1 .. (n - 1)
      /\ \A j \in 1 .. (n - 1) : Erased(i)[j] = tasks[old(j)]
  BY ErasedProperties
<1> HIDE DEF n
<1>2. \A j, k \in 1 .. (n - 1) : old(j) \in 1 .. n /\ (old(j) = old(k) => j = k)
  BY <1>1
<1>3. \A j, k \in DOMAIN Erased(i) : Erased(i)[j] = Erased(i)[k] => j = k
  BY <1>1, <1>2
<1>4. ASSUME NEW x \in Range(Erased(i))
      PROVE  x \in Range(tasks) \ {tasks[i]}
  <2>1. PICK j \in 1 .. (n - 1) : x = tasks[old(j)]
    BY <1>1 DEF Range
  <2>2. old(j) \in 1 .. n /\ old(j) # i
    BY <1>1
  <2> QED
    BY <1>1, <2>1, <2>2 DEF Range
<1>5. ASSUME NEW x \in Range(tasks) \ {tasks[i]}
      PROVE  x \in Range(Erased(i))
  <2>1. PICK k \in 1 .. n : x = tasks[k] /\ k # i
    BY <1>1 DEF Range
  <2> DEFINE j == IF k < i THEN k ELSE k - 1
  <2>2. j \in 1 .. (n - 1) /\ old(j) = k
    BY <1>1, <2>1
  <2>3. Erased(i)[j] = x
    BY <1>1, <2>1, <2>2
  <2> QED
    BY <1>1, <2>2, <2>3 DEF Range
<1> QED
  BY <1>3, <1>4, <1>5

-------------------------------------------------------------------------------
(* Type correctness *)

LEMMA InitInv == Init => Inv
<1> SUFFICES ASSUME Init PROVE Inv
  OBVIOUS
<1>1. TypeOK
  BY ThreadsAssumption, EmptySeq DEF Init, TypeOK, Threads, OwnerPC, ProcPC
<1>2. RunsItsTask
  BY ThreadsAssumption DEF Init, RunsItsTask, Threads
<1> QED
  BY <1>1, <1>2 DEF Inv

(* Waking the sleepers moves processors only, and from one place only. *)
LEMMA AwakeProperties ==
    ASSUME TypeOK
    PROVE  /\ Awake(pc) \in [Threads -> OwnerPC \cup ProcPC]
           /\ Awake(pc)[Owner] = pc[Owner]
           /\ \A t \in Threads : Awake(pc)[t] = IF pc[t] = "wait" THEN "woken" ELSE pc[t]
           /\ \A p \in Procs : Awake(pc)[p] \in ProcPC
BY ThreadsAssumption DEF TypeOK, Awake, Threads, OwnerPC, ProcPC

LEMMA NextInv == Inv /\ [Next]_vars => Inv'
<1> SUFFICES ASSUME Inv, [Next]_vars PROVE Inv'
  OBVIOUS
<1> USE ThreadsAssumption, TasksAssumption
<1>1. CASE StartTaskProcessors
  BY <1>1 DEF Inv, TypeOK, RunsItsTask, StartTaskProcessors, Threads, OwnerPC, ProcPC
<1>2. CASE RequestExit
  BY <1>2 DEF Inv, TypeOK, RunsItsTask, RequestExit, Threads, OwnerPC, ProcPC
<1>3. CASE NotifyExit
  BY <1>3, AwakeProperties
     DEF Inv, TypeOK, RunsItsTask, NotifyExit, Threads, OwnerPC, ProcPC
<1>4. CASE JoinAll
  BY <1>4 DEF Inv, TypeOK, RunsItsTask, JoinAll, Threads, OwnerPC, ProcPC
<1>5. ASSUME NEW t \in Threads, PushTask(t)
      PROVE  Inv'
  <2>1. PICK task \in Tasks : tasks' = Append(tasks, task)
    BY <1>5 DEF PushTask
  <2>2. tasks' \in Seq(Tasks)
    BY <2>1, AppendProperties DEF Inv, TypeOK
  <2> QED
    BY <1>5, <2>2
       DEF Inv, TypeOK, RunsItsTask, PushTask, Active, Threads, OwnerPC, ProcPC
<1>6. ASSUME NEW t \in Threads, NotifyPendingTaskAdded(t)
      PROVE  Inv'
  BY <1>6, AwakeProperties
     DEF Inv, TypeOK, RunsItsTask, NotifyPendingTaskAdded, Threads, OwnerPC, ProcPC
<1>7. ASSUME NEW t \in Threads, ClearTasks(t)
      PROVE  Inv'
  <2>1. Range(tasks) \subseteq Tasks
    BY RangeOfSeq DEF Inv, TypeOK
  <2> QED
    BY <1>7, <2>1, EmptySeq DEF Inv, TypeOK, RunsItsTask, ClearTasks
<1>8. ASSUME NEW t \in Threads, ChangeEligible(t)
      PROVE  Inv'
  BY <1>8 DEF Inv, TypeOK, RunsItsTask, ChangeEligible
<1>9. ASSUME NEW p \in Procs, CheckExit(p)
      PROVE  Inv'
  BY <1>9 DEF Inv, TypeOK, RunsItsTask, CheckExit, Threads, OwnerPC, ProcPC
<1>10. ASSUME NEW p \in Procs, pc[p] \in {"lock", "woken"}, TakeOrReturn(p),
              UNCHANGED <<exit, eligible, dropped, finished, starts>>
       PROVE  Inv'
  <2> DEFINE found == {i \in DOMAIN tasks : tasks[i] \in eligible}
  <2>1. CASE found = {}
    BY <1>10, <2>1
       DEF Inv, TypeOK, RunsItsTask, TakeOrReturn, Threads, OwnerPC, ProcPC
  <2>2. CASE found # {}
    <3>1. PICK i \in found :
             /\ running' = [running EXCEPT ![p] = tasks[i]]
             /\ tasks' = Erased(i)
             /\ pc' = [pc EXCEPT ![p] = "run"]
      BY <1>10, <2>2 DEF TakeOrReturn
    <3>2. tasks' \in Seq(Tasks) /\ tasks[i] \in Tasks
      BY <3>1, ErasedProperties, ElementOfSeq DEF Inv, TypeOK
    <3> QED
      BY <1>10, <3>1, <3>2 DEF Inv, TypeOK, RunsItsTask, Threads, OwnerPC, ProcPC
  <2> QED
    BY <2>1, <2>2
<1>11. ASSUME NEW p \in Procs, LockAndScan(p)
       PROVE  Inv'
  BY <1>10, <1>11
     DEF Inv, TypeOK, RunsItsTask, LockAndScan, Threads, OwnerPC, ProcPC
<1>12. ASSUME NEW p \in Procs, SpuriousWakeup(p)
       PROVE  Inv'
  BY <1>12 DEF Inv, TypeOK, RunsItsTask, SpuriousWakeup, Threads, OwnerPC, ProcPC
<1>13. ASSUME NEW p \in Procs, WakeAndScan(p)
       PROVE  Inv'
  BY <1>10, <1>13
     DEF Inv, TypeOK, RunsItsTask, WakeAndScan, Threads, OwnerPC, ProcPC
<1>14. ASSUME NEW p \in Procs, FinishTask(p)
       PROVE  Inv'
  BY <1>14 DEF Inv, TypeOK, RunsItsTask, FinishTask, Threads, OwnerPC, ProcPC
<1>15. CASE UNCHANGED vars
  BY <1>15 DEF Inv, TypeOK, RunsItsTask, vars
<1> QED
  BY <1>1, <1>2, <1>3, <1>4, <1>5, <1>6, <1>7, <1>8, <1>9, <1>11, <1>12, <1>13,
     <1>14, <1>15 DEF Next, OwnerNext, QueueUse, ProcStep

THEOREM InvHolds == Spec => []Inv
<1> QED
  BY InitInv, NextInv, PTL DEF Spec

(* Every variable keeps its type: TypeOK of the threads and the queue. *)
THEOREM TypeCorrect == Spec => []TypeOK
<1>1. Inv => TypeOK
  BY DEF Inv
<1> QED
  BY <1>1, InvHolds, PTL

-------------------------------------------------------------------------------
(* Every push is in one place *)

\* A processor with the mutex takes the i-th task, or nothing changes.
LEMMA TakenOrNothing ==
    ASSUME Inv, NEW p \in Procs, LockAndScan(p) \/ WakeAndScan(p)
    PROVE  /\ pc[p] \in {"lock", "woken"}
           /\ UNCHANGED <<dropped, finished>>
           /\ \/ UNCHANGED <<tasks, running>> /\ pc'[p] \in {"check", "wait"}
              \/ \E i \in DOMAIN tasks :
                    /\ running' = [running EXCEPT ![p] = tasks[i]]
                    /\ tasks' = Erased(i)
<1>1. CASE LockAndScan(p)
  BY <1>1 DEF Inv, TypeOK, LockAndScan, TakeOrReturn, Threads
<1>2. CASE WakeAndScan(p)
  BY <1>2 DEF Inv, TypeOK, WakeAndScan, TakeOrReturn, Threads
<1> QED
  BY <1>1, <1>2

LEMMA NextEachTaskOnce == Inv /\ EachTaskOnce /\ [Next]_vars => EachTaskOnce'
<1> SUFFICES ASSUME Inv, EachTaskOnce, [Next]_vars PROVE EachTaskOnce'
  OBVIOUS
<1> USE ThreadsAssumption, TasksAssumption
<1>1. CASE UNCHANGED <<tasks, running, dropped, finished>>
  BY <1>1 DEF EachTaskOnce, Range
<1>2. ASSUME NEW t \in Threads, PushTask(t)
      PROVE  EachTaskOnce'
  <2>1. PICK task \in Tasks \ Added : tasks' = Append(tasks, task)
    BY <1>2 DEF PushTask
  <2>2. UNCHANGED <<running, dropped, finished>>
    BY <1>2 DEF PushTask
  <2> DEFINE n == Len(tasks)
  <2>3. /\ n \in Nat /\ DOMAIN tasks = 1 .. n /\ DOMAIN tasks' = 1 .. (n + 1)
        /\ \A j \in 1 .. n : tasks'[j] = tasks[j]
        /\ tasks'[n + 1] = task
    BY <2>1, AppendProperties, LenProperties DEF Inv, TypeOK
  <2> HIDE DEF n
  <2>4. Range(tasks') = Range(tasks) \cup {task}
    BY <2>3 DEF Range
  <2>5. /\ task \notin Range(tasks) /\ task \notin dropped /\ task \notin finished
        /\ \A p \in Procs : running[p] # task
    BY <2>1 DEF Added
  <2>6. \A j, k \in DOMAIN tasks' : tasks'[j] = tasks'[k] => j = k
    BY <2>3, <2>5 DEF EachTaskOnce, Range
  <2> QED
    BY <2>2, <2>4, <2>5, <2>6 DEF EachTaskOnce
<1>3. ASSUME NEW t \in Threads, ClearTasks(t)
      PROVE  EachTaskOnce'
  <2>1. /\ tasks' = <<>> /\ dropped' = dropped \cup Range(tasks)
        /\ UNCHANGED <<running, finished>>
    BY <1>3 DEF ClearTasks
  <2>2. DOMAIN tasks' = {} /\ Range(tasks') = {}
    BY <2>1 DEF Range
  <2> QED
    BY <2>1, <2>2 DEF EachTaskOnce
<1>4. ASSUME NEW p \in Procs, LockAndScan(p) \/ WakeAndScan(p)
      PROVE  EachTaskOnce'
  <2>1. CASE UNCHANGED <<tasks, running>>
    BY <1>1, <1>4, <2>1, TakenOrNothing
  <2>2. ASSUME NEW i \in DOMAIN tasks,
               running' = [running EXCEPT ![p] = tasks[i]], tasks' = Erased(i)
        PROVE  EachTaskOnce'
    <3>1. /\ \A j, k \in DOMAIN tasks' : tasks'[j] = tasks'[k] => j = k
          /\ Range(tasks') = Range(tasks) \ {tasks[i]}
      BY <2>2, ErasedOnce DEF Inv, TypeOK, EachTaskOnce
    <3>2. tasks[i] \in Range(tasks)
      BY DEF Range
    <3>3. running \in [Procs -> Tasks \cup {NoTask}]
      BY DEF Inv, TypeOK
    <3>4. UNCHANGED <<dropped, finished>>
      BY <1>4, TakenOrNothing
    <3> QED
      BY <2>2, <3>1, <3>2, <3>3, <3>4 DEF EachTaskOnce
  <2> QED
    BY <1>4, <2>1, <2>2, TakenOrNothing
<1>5. ASSUME NEW p \in Procs, FinishTask(p)
      PROVE  EachTaskOnce'
  <2>1. running \in [Procs -> Tasks \cup {NoTask}] /\ running[p] # NoTask
    BY <1>5 DEF Inv, TypeOK, RunsItsTask, FinishTask
  <2> QED
    BY <1>5, <2>1 DEF EachTaskOnce, FinishTask
<1> QED
  BY <1>1, <1>2, <1>3, <1>4, <1>5
     DEF Next, OwnerNext, QueueUse, ProcStep, vars, StartTaskProcessors, RequestExit,
         NotifyExit, JoinAll, NotifyPendingTaskAdded, ChangeEligible, CheckExit,
         SpuriousWakeup

(* EachTaskOnce for any number of processors and pushes: no task runs twice. *)
THEOREM TasksRunOnce == Spec => []EachTaskOnce
<1>1. Init => EachTaskOnce
  BY DEF Init, EachTaskOnce, Range
<1> QED
  BY <1>1, NextEachTaskOnce, InvHolds, PTL DEF Spec

LEMMA NextNothingLost ==
    ASSUME Inv, Inv', EachTaskOnce, Next
    PROVE  Added \ {NoTask} \subseteq Added'
<1> USE ThreadsAssumption, TasksAssumption
<1>1. CASE UNCHANGED <<tasks, running, dropped, finished>>
  BY <1>1 DEF Added, Range
<1>2. ASSUME NEW t \in Threads, PushTask(t)
      PROVE  Added \subseteq Added'
  <2>1. PICK task \in Tasks \ Added : tasks' = Append(tasks, task)
    BY <1>2 DEF PushTask
  <2>2. UNCHANGED <<running, dropped, finished>>
    BY <1>2 DEF PushTask
  <2>3. /\ DOMAIN tasks \subseteq DOMAIN tasks'
        /\ \A j \in DOMAIN tasks : tasks'[j] = tasks[j]
    BY <2>1, AppendProperties, LenProperties DEF Inv, TypeOK
  <2>4. Range(tasks) \subseteq Range(tasks')
    BY <2>3 DEF Range
  <2> QED
    BY <2>2, <2>4 DEF Added
<1>3. ASSUME NEW t \in Threads, ClearTasks(t)
      PROVE  Added \subseteq Added'
  BY <1>3 DEF Added, ClearTasks
<1>4. ASSUME NEW p \in Procs, LockAndScan(p) \/ WakeAndScan(p)
      PROVE  Added \ {NoTask} \subseteq Added'
  <2>1. CASE UNCHANGED <<tasks, running>>
    BY <1>1, <1>4, <2>1, TakenOrNothing
  <2>2. ASSUME NEW i \in DOMAIN tasks,
               running' = [running EXCEPT ![p] = tasks[i]], tasks' = Erased(i)
        PROVE  Added \ {NoTask} \subseteq Added'
    <3>1. Range(tasks') = Range(tasks) \ {tasks[i]}
      BY <2>2, ErasedOnce DEF Inv, TypeOK, EachTaskOnce
    <3>2. running \in [Procs -> Tasks \cup {NoTask}]
      BY DEF Inv, TypeOK
    <3>3. running[p] = NoTask
      BY <1>4, TakenOrNothing DEF Inv, RunsItsTask
    <3>4. running'[p] = tasks[i] /\ \A q \in Procs : q # p => running'[q] = running[q]
      BY <2>2, <3>2
    <3>5. UNCHANGED <<dropped, finished>>
      BY <1>4, TakenOrNothing
    <3>6. \A x \in {running[q] : q \in Procs} \ {NoTask} :
             x \in {running'[q] : q \in Procs}
      BY <3>3, <3>4
    <3>7. Range(tasks) \subseteq Range(tasks') \cup {running'[q] : q \in Procs}
      BY <3>1, <3>4
    <3> QED
      BY <3>5, <3>6, <3>7 DEF Added
  <2> QED
    BY <1>4, <2>1, <2>2, TakenOrNothing
<1>5. ASSUME NEW p \in Procs, FinishTask(p)
      PROVE  Added \subseteq Added'
  <2>1. running \in [Procs -> Tasks \cup {NoTask}]
    BY DEF Inv, TypeOK
  <2>2. \A q \in Procs : q # p => running'[q] = running[q]
    BY <1>5, <2>1 DEF FinishTask
  <2>3. UNCHANGED <<tasks, dropped>> /\ finished' = finished \cup {running[p]}
    BY <1>5 DEF FinishTask
  <2>4. {running[q] : q \in Procs} \subseteq {running'[q] : q \in Procs} \cup finished'
    BY <2>2, <2>3
  <2> QED
    BY <2>3, <2>4 DEF Added, Range
<1> QED
  BY <1>1, <1>2, <1>3, <1>4, <1>5
     DEF Next, OwnerNext, QueueUse, ProcStep, StartTaskProcessors, RequestExit,
         NotifyExit, JoinAll, NotifyPendingTaskAdded, ChangeEligible, CheckExit,
         SpuriousWakeup

(* NothingLost: what was pushed stays queued, run, dropped or finished. *)
THEOREM NoTaskLost == Spec => NothingLost
<1>1. Inv /\ Inv' /\ EachTaskOnce /\ [Next]_vars
         => [Added \ {NoTask} \subseteq Added']_vars
  BY NextNothingLost
<1> QED
  BY <1>1, InvHolds, TasksRunOnce, PTL DEF Spec, NothingLost

-------------------------------------------------------------------------------
(* No processor sleeps through a push *)

LEMMA NextNoLostWakeup == Inv /\ NoLostWakeup /\ [Next]_vars => NoLostWakeup'
<1> SUFFICES ASSUME Inv, NoLostWakeup, [Next]_vars PROVE NoLostWakeup'
  OBVIOUS
<1> USE ThreadsAssumption
<1>1. pc \in [Threads -> OwnerPC \cup ProcPC]
  BY DEF Inv, TypeOK
<1>2. ASSUME Awake(pc)[Owner] = pc[Owner],
             NEW t \in Threads, NEW to, to # "wait", pc' = [Awake(pc) EXCEPT ![t] = to]
      PROVE  \A p \in Procs : pc'[p] # "wait"
  BY <1>1, <1>2 DEF Awake, Threads
<1>3. CASE NotifyExit
  BY <1>2, <1>3, AwakeProperties DEF NotifyExit, NoLostWakeup, Inv, Threads
<1>4. ASSUME NEW t \in Threads, NotifyPendingTaskAdded(t)
      PROVE  NoLostWakeup'
  BY <1>2, <1>4, AwakeProperties DEF NotifyPendingTaskAdded, NoLostWakeup, Inv
<1>5. CASE StartTaskProcessors
  BY <1>5 DEF StartTaskProcessors, NoLostWakeup, Threads
<1>6. CASE JoinAll
  BY <1>6 DEF JoinAll, NoLostWakeup, Threads
<1>7. CASE RequestExit
  BY <1>1, <1>7 DEF RequestExit, NoLostWakeup, Threads
<1>8. ASSUME NEW t \in Threads, PushTask(t)
      PROVE  NoLostWakeup'
  BY <1>1, <1>8 DEF PushTask, NoLostWakeup, Threads
<1>9. ASSUME NEW t \in Threads, ClearTasks(t)
      PROVE  NoLostWakeup'
  BY <1>9 DEF ClearTasks, NoLostWakeup
<1>10. ASSUME NEW t \in Threads, ChangeEligible(t)
       PROVE  NoLostWakeup'
  BY <1>10 DEF ChangeEligible, NoLostWakeup
<1>11. ASSUME NEW p \in Procs, NEW to, to # "wait", pc[p] # "notify",
              pc' = [pc EXCEPT ![p] = to], tasks' # <<>> => tasks # <<>>
       PROVE  NoLostWakeup'
  BY <1>1, <1>11 DEF NoLostWakeup, Threads
<1>12. ASSUME NEW p \in Procs, CheckExit(p) \/ SpuriousWakeup(p) \/ FinishTask(p)
       PROVE  NoLostWakeup'
  BY <1>11, <1>12 DEF CheckExit, SpuriousWakeup, FinishTask
<1>13. ASSUME NEW p \in Procs, pc[p] # "notify", tasks # <<>>, TakeOrReturn(p)
       PROVE  NoLostWakeup'
  BY <1>11, <1>13 DEF TakeOrReturn
<1>14. ASSUME NEW p \in Procs, LockAndScan(p)
       PROVE  NoLostWakeup'
  BY <1>13, <1>14 DEF LockAndScan, NoLostWakeup
<1>15. ASSUME NEW p \in Procs, WakeAndScan(p)
       PROVE  NoLostWakeup'
  BY <1>11, <1>13, <1>15 DEF WakeAndScan
<1>16. CASE UNCHANGED vars
  BY <1>16 DEF NoLostWakeup, vars
<1> QED
  BY <1>3, <1>4, <1>5, <1>6, <1>7, <1>8, <1>9, <1>10, <1>12, <1>14, <1>15, <1>16
     DEF Next, OwnerNext, QueueUse, ProcStep

(* NoLostWakeup for any number of threads: pushing under the mutex and notifying
   after it is enough. *)
THEOREM NoSleeperForgotten == Spec => []NoLostWakeup
<1>1. Init => NoLostWakeup
  BY DEF Init, NoLostWakeup
<1> QED
  BY <1>1, NextNoLostWakeup, InvHolds, PTL DEF Spec
===============================================================================
