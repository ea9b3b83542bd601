--------------------------- MODULE AsyncTaskProofs ---------------------------
(***************************************************************************)
(* Proofs about AsyncTask, for any tasks, threads, pools and limits: its   *)
(* types, the executor of a task, the thread limit, requests and the       *)
(* threads that serve them, the order of the queue.                        *)
(***************************************************************************)
EXTENDS AsyncTask, SequenceTheorems, FiniteSetTheorems, TLAPS

----------------------------------------------------------------------------
(* The operations of the queue's vector *)

\* vector::insert yields a sequence of tasks, one longer.
LEMMA InsertType ==
  ASSUME NEW s \in Seq(Task), NEW t \in Task, NEW k \in 1..(Len(s) + 1)
  PROVE  /\ InsertTask(s, k, t) \in Seq(Task)
         /\ Len(InsertTask(s, k, t)) = Len(s) + 1
         /\ \A i \in 1..(Len(s) + 1) :
              InsertTask(s, k, t)[i] =
                IF i < k THEN s[i] ELSE IF i = k THEN t ELSE s[i - 1]
<1> DEFINE n == Len(s) + 1
           r == InsertTask(s, k, t)
<1>1. n \in Nat /\ Len(s) \in Nat
  OBVIOUS
<1>2. r \in [1..n -> Task]
  BY <1>1 DEF InsertTask
<1>3. r \in Seq(Task)
  BY <1>1, <1>2, SeqDef
<1>4. DOMAIN r = 1..n
  BY <1>2
<1>5. Len(r) = n
  BY <1>1, <1>3, <1>4, LenProperties
<1> QED
  BY <1>3, <1>5 DEF InsertTask

\* vector::erase yields a sequence of tasks, one shorter.
LEMMA EraseType ==
  ASSUME NEW s \in Seq(Task), NEW k \in 1..Len(s)
  PROVE  /\ EraseTask(s, k) \in Seq(Task)
         /\ Len(EraseTask(s, k)) = Len(s) - 1
         /\ \A i \in 1..(Len(s) - 1) :
              EraseTask(s, k)[i] = IF i < k THEN s[i] ELSE s[i + 1]
<1> DEFINE n == Len(s) - 1
           r == EraseTask(s, k)
<1>1. n \in Nat /\ Len(s) \in Nat
  OBVIOUS
<1>2. r \in [1..n -> Task]
  BY <1>1 DEF EraseTask
<1>3. r \in Seq(Task)
  BY <1>1, <1>2, SeqDef
<1>4. DOMAIN r = 1..n
  BY <1>2
<1>5. Len(r) = n
  BY <1>1, <1>3, <1>4, LenProperties
<1> QED
  BY <1>3, <1>5 DEF EraseTask

\* remove_task keeps the queue a sequence of tasks.
LEMMA RemoveType ==
  ASSUME NEW t, tasks \in Seq(Task), remove_task(t)
  PROVE  tasks' \in Seq(Task)
BY EraseType DEF remove_task

----------------------------------------------------------------------------
(* Type correctness *)

LEMMA InitType == Init => TypeOK
BY ConstantsAssumption DEF Init, TypeOK, TaskState, ThreadPc

LEMMA NotifyType ==
  ASSUME TypeOK, NEW t \in Task, Notify(t)
  PROVE  observer_notified' \in [Task -> BOOLEAN] /\ notices' \in [Task -> 0..2]
<1>1. notices[t] \in 0..2
  BY DEF TypeOK
<1>2. (IF notices[t] < 2 THEN notices[t] + 1 ELSE notices[t]) \in 0..2
  BY <1>1
<1> QED
  BY <1>2 DEF TypeOK, Notify

LEMMA TaskType ==
  ASSUME TypeOK, NEW t \in Task,
         Construct(t) \/ Start(t) \/ AddTask(t) \/ Elapse(t) \/ Destroy(t) \/ CancelOne(t)
  PROVE  TypeOK'
<1> USE DEF TypeOK, TaskState, ThreadPc, vars, tvars, pvars, qvars
<1>1. CASE Construct(t)
  BY <1>1 DEF Construct
<1>2. CASE Start(t)
  BY <1>2 DEF Start
<1>3. CASE AddTask(t)
  BY <1>3, InsertType DEF AddTask
<1>4. CASE Elapse(t)
  BY <1>4 DEF Elapse
<1>5. CASE Destroy(t)
  <2>1. observer_notified' \in [Task -> BOOLEAN] /\ notices' \in [Task -> 0..2]
    BY <1>5, NotifyType DEF Destroy
  <2> QED
    BY <1>5, <2>1 DEF Destroy
<1>6. CASE CancelOne(t)
  BY <1>6, RemoveType DEF CancelOne
<1> QED
  BY <1>1, <1>2, <1>3, <1>4, <1>5, <1>6

LEMMA CancelFindType ==
  ASSUME TypeOK, NEW S \in SUBSET Cancelable, CancelFind(S)
  PROVE  TypeOK'
BY ConstantsAssumption DEF TypeOK, CancelFind, tvars, pvars, qvars

LEMMA QueueThreadType ==
  ASSUME TypeOK, QueueThread
  PROVE  TypeOK'
<1> USE DEF TypeOK, tvars, pvars, qvars
<1>1. CASE IterateBegin
  BY <1>1 DEF IterateBegin
<1>2. CASE IterateSkip
  BY <1>2 DEF IterateSkip
<1>3. CASE IterateRequest
  <2>1. tasks[qi] \in Task /\ PoolOf[tasks[qi]] \in Pool
    <3>1. tasks \in Seq(Task) /\ qi \in 1..Len(tasks)
      BY <1>3 DEF IterateRequest
    <3>2. tasks[qi] \in Task
      BY <3>1
    <3> QED
      BY <3>2, ConstantsAssumption
  <2>2. Cardinality(requests[PoolOf[tasks[qi]]]) \in Nat
    <3>1. requests[PoolOf[tasks[qi]]] \in SUBSET Task
      BY <2>1
    <3> QED
      BY <3>1, FS_Subset, FS_CardinalityType, ConstantsAssumption
  <2>3. CASE tasks[qi] \in requests[PoolOf[tasks[qi]]]
    BY <1>3, <2>3 DEF IterateRequest
  <2>4. CASE tasks[qi] \notin requests[PoolOf[tasks[qi]]]
    <3>1. /\ requested' = [requested EXCEPT ![tasks[qi]] = TRUE]
          /\ requests' = [requests EXCEPT ![PoolOf[tasks[qi]]] = @ \union {tasks[qi]}]
          /\ req_count' = Cardinality(requests[PoolOf[tasks[qi]]]) + 1
          /\ qpc' = "spawn" /\ qi' = qi
          /\ UNCHANGED <<state, due, observer_notified, notices, starting, tasks,
                         pvars, terminated, found, main>>
      BY <1>3, <2>4 DEF IterateRequest
    <3>2. req_count' \in Nat
      BY <2>2, <3>1
    <3>3. requests' \in [Pool -> SUBSET Task]
      BY <2>1, <3>1
    <3>4. requested' \in [Task -> BOOLEAN]
      BY <2>1, <3>1
    <3>5. qi > 0
      BY <1>3 DEF IterateRequest
    <3> QED
      BY <3>1, <3>2, <3>3, <3>4, <3>5
  <2> QED
    BY <2>3, <2>4
<1>4. ASSUME NEW th \in Thread, IterateSpawn(th) PROVE TypeOK'
  BY <1>4 DEF IterateSpawn, ThreadPc
<1>5. CASE IterateNoSpawn
  BY <1>5 DEF IterateNoSpawn
<1>6. CASE IterateEnd
  BY <1>6 DEF IterateEnd
<1> QED
  BY <1>1, <1>2, <1>3, <1>4, <1>5, <1>6 DEF QueueThread

LEMMA PoolThreadType ==
  ASSUME TypeOK, NEW th \in Thread, PoolThread(th) \/ KeepAliveElapse(th)
  PROVE  TypeOK'
<1> USE ConstantsAssumption
    DEF TypeOK, TaskState, ThreadPc, Goto, tvars, pvars, qvars
<1>1. CASE Pick(th)
  <2>1. PICK k \in 1..Len(tasks) :
          /\ state' = [state EXCEPT ![tasks[k]] = "PICKED"]
          /\ job' = [job EXCEPT ![th] = tasks[k]]
    BY <1>1 DEF Pick
  <2>2. tasks[k] \in Task
    OBVIOUS
  <2>3. state' \in [Task -> TaskState] /\ job' \in [Thread -> Task \union {None}]
    BY <2>1, <2>2
  <2> QED
    BY <1>1, <2>3 DEF Pick
<1>2. CASE PickNothing(th)
  BY <1>2 DEF PickNothing
<1>3. CASE ExecuteEntry(th)
  <2>1. state' \in [Task -> TaskState]
    <3>1. \/ UNCHANGED state
          \/ state' = [state EXCEPT ![job[th]] = "EXECUTING"]
          \/ state' = [state EXCEPT ![job[th]] = "TIMEOUT"]
      BY <1>3 DEF ExecuteEntry
    <3> QED
      BY <3>1
  <2>2. pc' \in [Thread -> ThreadPc]
    BY <1>3 DEF ExecuteEntry
  <2> QED
    BY <1>3, <2>1, <2>2 DEF ExecuteEntry
<1>4. CASE ExecuteDone(th)
  <2>1. state' \in [Task -> TaskState] /\ due' \in [Task -> BOOLEAN]
    <3>1. \/ UNCHANGED state
          \/ \E s \in {"WAITING", "SUCCESS", "FAILURE"} : state' = [state EXCEPT ![job[th]] = s]
      BY <1>4 DEF ExecuteDone
    <3>2. UNCHANGED due \/ \E b \in BOOLEAN : due' = [due EXCEPT ![job[th]] = b]
      BY <1>4 DEF ExecuteDone
    <3>3. state' \in [Task -> TaskState]
      BY <3>1
    <3>4. due' \in [Task -> BOOLEAN]
      BY <3>2
    <3> QED
      BY <3>3, <3>4
  <2>2. pc' \in [Thread -> ThreadPc]
    BY <1>4 DEF ExecuteDone
  <2> QED
    BY <1>4, <2>1, <2>2 DEF ExecuteDone
<1>5. CASE FinishedCheck(th)
  BY <1>5 DEF FinishedCheck
<1>6. CASE FinishedNotify(th)
  <2>1. observer_notified' \in [Task -> BOOLEAN] /\ notices' \in [Task -> 0..2]
    <3>1. CASE job[th] \in Task
      BY <1>6, <3>1, NotifyType DEF FinishedNotify
    <3>2. CASE job[th] = None
      BY <1>6, <3>2 DEF FinishedNotify, Notify
    <3> QED
      BY <3>1, <3>2
  <2> QED
    BY <1>6, <2>1 DEF FinishedNotify
<1>7. CASE PostFinished(th)
  BY <1>7, RemoveType DEF PostFinished
<1>8. CASE PostAgain(th)
  BY <1>8 DEF PostAgain
<1>9. CASE ResetRequest(th)
  BY <1>9 DEF ResetRequest
<1>10. CASE Unrequest(th)
  BY <1>10 DEF Unrequest
<1>11. CASE Decide(th)
  BY <1>11 DEF Decide
<1>12. CASE on_thread_finish(th)
  BY <1>12 DEF on_thread_finish
<1>13. CASE KeepAliveElapse(th)
  BY <1>13 DEF KeepAliveElapse
<1> QED
  BY <1>1, <1>2, <1>3, <1>4, <1>5, <1>6, <1>7, <1>8, <1>9, <1>10, <1>11,
     <1>12, <1>13 DEF PoolThread

LEMMA DeleterType ==
  ASSUME TypeOK, Shutdown \/ Deleter \/ Done
  PROVE  TypeOK'
<1> USE DEF TypeOK, TaskState, vars, tvars, pvars, qvars
<1>1. CASE Shutdown
  BY <1>1 DEF Shutdown
<1>2. CASE QueueThreadStopped
  BY <1>2 DEF QueueThreadStopped
<1>3. ASSUME NEW p \in Pool, Terminate(p) PROVE TypeOK'
  BY <1>3 DEF Terminate
<1>4. CASE CancelAll
  BY <1>4, EmptySeq DEF CancelAll
<1>5. CASE Done
  BY <1>5 DEF Done
<1> QED
  BY <1>1, <1>2, <1>3, <1>4, <1>5 DEF Deleter

\* Every step keeps the types.
LEMMA NextType == TypeOK /\ [Next]_vars => TypeOK'
<1> SUFFICES ASSUME TypeOK, [Next]_vars PROVE TypeOK'
  OBVIOUS
<1>1. CASE UNCHANGED vars
  BY <1>1 DEF TypeOK, vars, tvars, pvars, qvars
<1> QED
  BY <1>1, TaskType, CancelFindType, QueueThreadType, PoolThreadType, DeleterType
  DEF Next

\* The variables of the task engine keep their types.
THEOREM TypeCorrect == Spec => []TypeOK
BY InitType, NextType, PTL DEF Spec

----------------------------------------------------------------------------
(* One executor at a time.  OneExecutor alone is not inductive: pick() may  *)
(* hand out a task that waits only because no thread executes one that      *)
(* waits, and that follows from the states a thread may see.                *)

\* The steps at which a thread has a task.
Holds == {"entry", "body", "finished", "notify", "post", "reset", "unrequest"}

ExecutorInv ==
  /\ \A th \in Thread : pc[th] = "entry" => state[job[th]] \in {"PICKED", "CANCELED"}
  /\ \A th \in Thread : pc[th] = "body" => state[job[th]] \in {"EXECUTING", "CANCELED"}
  /\ \A th \in Thread : pc[th] \in Holds => job[th] \in Task
  /\ \A th \in Thread : job[th] \in Task => state[job[th]] \notin {"FREE", "INIT"}
  /\ OneExecutor

LEMMA InitExecutor == Init => ExecutorInv
BY ConstantsAssumption DEF Init, ExecutorInv, OneExecutor, Executes, Holds

LEMMA TaskExecutor ==
  ASSUME TypeOK, ExecutorInv, NEW t \in Task,
         Construct(t) \/ Start(t) \/ AddTask(t) \/ Elapse(t) \/ Destroy(t) \/ CancelOne(t)
  PROVE  ExecutorInv'
<1> USE DEF TypeOK, ExecutorInv, OneExecutor, Executes, Holds, pvars
<1>1. CASE Construct(t)
  BY <1>1 DEF Construct
<1>2. CASE Start(t)
  BY <1>2 DEF Start
<1>3. CASE AddTask(t)
  BY <1>3 DEF AddTask
<1>4. CASE Elapse(t)
  BY <1>4 DEF Elapse
<1>5. CASE Destroy(t)
  BY <1>5 DEF Destroy
<1>6. CASE CancelOne(t)
  BY <1>6 DEF CancelOne
<1> QED
  BY <1>1, <1>2, <1>3, <1>4, <1>5, <1>6

\* A step that moves thread th to `to' and gives its task t the state s keeps
\* the invariant when no other thread executes t.
LEMMA ExecutorStep ==
  ASSUME TypeOK, ExecutorInv, NEW th \in Thread, NEW t \in Task,
         NEW to, NEW s, s \notin {"FREE", "INIT"},
         state' = [state EXCEPT ![t] = s],
         pc' = [pc EXCEPT ![th] = to],
         job' = [job EXCEPT ![th] = t],
         to = "entry" => s \in {"PICKED", "CANCELED"},
         to = "body" => s \in {"EXECUTING", "CANCELED"},
         \A x \in Thread : x # th /\ Executes(x) => job[x] # t
  PROVE  ExecutorInv'
<1>1. /\ pc'[th] = to /\ job'[th] = t /\ state'[t] = s
      /\ \A x \in Thread : x # th => pc'[x] = pc[x] /\ job'[x] = job[x]
      /\ \A u \in Task : u # t => state'[u] = state[u]
  BY DEF TypeOK
<1>2. \A x \in Thread : Executes(x) => job[x] \in Task
  BY DEF ExecutorInv, Executes, Holds
<1>3. \A x \in Thread : pc'[x] = "entry" => state'[job'[x]] \in {"PICKED", "CANCELED"}
  BY <1>1, <1>2 DEF ExecutorInv, Executes
<1>4. \A x \in Thread : pc'[x] = "body" => state'[job'[x]] \in {"EXECUTING", "CANCELED"}
  BY <1>1, <1>2 DEF ExecutorInv, Executes
<1>5. \A x \in Thread : pc'[x] \in Holds => job'[x] \in Task
  BY <1>1 DEF ExecutorInv
<1>6. \A x \in Thread : job'[x] \in Task => state'[job'[x]] \notin {"FREE", "INIT"}
  BY <1>1 DEF ExecutorInv
<1>7. OneExecutor'
  BY <1>1 DEF ExecutorInv, OneExecutor, Executes
<1> QED
  BY <1>3, <1>4, <1>5, <1>6, <1>7 DEF ExecutorInv

LEMMA PickExecutor ==
  ASSUME TypeOK, ExecutorInv, NEW th \in Thread, Pick(th)
  PROVE  ExecutorInv'
<1>1. PICK k \in 1..Len(tasks) :
        /\ Pickable(tasks[k], Home[th])
        /\ state' = [state EXCEPT ![tasks[k]] = "PICKED"]
        /\ job' = [job EXCEPT ![th] = tasks[k]]
  BY DEF Pick
<1>2. tasks[k] \in Task /\ state[tasks[k]] = "WAITING"
  BY <1>1 DEF Pickable, TypeOK
<1>3. \A x \in Thread : Executes(x) => job[x] # tasks[k]
  BY <1>2 DEF ExecutorInv, Executes
<1>4. pc' = [pc EXCEPT ![th] = "entry"]
  BY DEF Pick, Goto
<1> DEFINE t == tasks[k]
           s == "PICKED"
<1>5. /\ t \in Task /\ state' = [state EXCEPT ![t] = s]
      /\ job' = [job EXCEPT ![th] = t]
      /\ s \notin {"FREE", "INIT"} /\ s \in {"PICKED", "CANCELED"}
      /\ \A x \in Thread : x # th /\ Executes(x) => job[x] # t
  BY <1>1, <1>2, <1>3
<1> HIDE DEF t, s
<1> QED
  BY <1>4, <1>5, ExecutorStep

LEMMA ExecuteEntryExecutor ==
  ASSUME TypeOK, ExecutorInv, NEW th \in Thread, ExecuteEntry(th)
  PROVE  ExecutorInv'
<1> DEFINE t == job[th]
<1>1. pc[th] = "entry" /\ t \in Task /\ state[t] \in {"PICKED", "CANCELED"}
  BY DEF ExecuteEntry, ExecutorInv, Holds
<1>2. \A x \in Thread : x # th /\ Executes(x) => job[x] # t
  BY <1>1 DEF ExecutorInv, OneExecutor, Executes
<1>3. job' = [job EXCEPT ![th] = t]
  BY DEF ExecuteEntry, TypeOK
<1>4. \/ /\ state' = [state EXCEPT ![t] = "EXECUTING"]
         /\ pc' = [pc EXCEPT ![th] = "body"]
      \/ /\ state' = [state EXCEPT ![t] = "TIMEOUT"]
         /\ pc' = [pc EXCEPT ![th] = "finished"]
      \/ /\ state' = [state EXCEPT ![t] = "CANCELED"]
         /\ pc' = [pc EXCEPT ![th] = "finished"]
  BY <1>1 DEF ExecuteEntry, Goto, TypeOK
<1>5. PICK to \in {"body", "finished"}, s \in {"EXECUTING", "TIMEOUT", "CANCELED"} :
        /\ to = "body" => s = "EXECUTING"
        /\ state' = [state EXCEPT ![t] = s]
        /\ pc' = [pc EXCEPT ![th] = to]
  BY <1>4
<1>6. /\ s \notin {"FREE", "INIT"} /\ to # "entry"
      /\ to = "body" => s \in {"EXECUTING", "CANCELED"}
  BY <1>5
<1> HIDE DEF t
<1> QED
  BY <1>1, <1>2, <1>3, <1>5, <1>6, ExecutorStep

LEMMA ExecuteDoneExecutor ==
  ASSUME TypeOK, ExecutorInv, NEW th \in Thread, ExecuteDone(th)
  PROVE  ExecutorInv'
<1> DEFINE t == job[th]
<1>1. pc[th] = "body" /\ t \in Task
  BY DEF ExecuteDone, Goto, ExecutorInv, Holds
<1>2. \A x \in Thread : x # th /\ Executes(x) => job[x] # t
  BY <1>1 DEF ExecutorInv, OneExecutor, Executes
<1>3. job' = [job EXCEPT ![th] = t] /\ pc' = [pc EXCEPT ![th] = "finished"]
  BY DEF ExecuteDone, Goto, TypeOK
<1>4. \E s \in {"CANCELED", "WAITING", "SUCCESS", "FAILURE"} :
         state' = [state EXCEPT ![t] = s]
  BY <1>1 DEF ExecuteDone, TypeOK
<1> HIDE DEF t
<1>5. PICK s \in {"CANCELED", "WAITING", "SUCCESS", "FAILURE"} :
        state' = [state EXCEPT ![t] = s]
  BY <1>4
<1>6. s \notin {"FREE", "INIT"} /\ "finished" \notin {"entry", "body"}
  OBVIOUS
<1> QED
  BY <1>1, <1>2, <1>3, <1>5, <1>6, ExecutorStep

LEMMA PoolThreadExecutor ==
  ASSUME TypeOK, ExecutorInv, NEW th \in Thread, PoolThread(th) \/ KeepAliveElapse(th)
  PROVE  ExecutorInv'
<1> USE ConstantsAssumption
    DEF TypeOK, ExecutorInv, OneExecutor, Executes, Holds, Goto, tvars, pvars
<1>1. CASE Pick(th)
  BY <1>1, PickExecutor
<1>2. CASE PickNothing(th)
  BY <1>2 DEF PickNothing
<1>3. CASE ExecuteEntry(th)
  BY <1>3, ExecuteEntryExecutor
<1>4. CASE ExecuteDone(th)
  BY <1>4, ExecuteDoneExecutor
<1>5. CASE FinishedCheck(th)
  BY <1>5 DEF FinishedCheck
<1>6. CASE FinishedNotify(th)
  BY <1>6 DEF FinishedNotify
<1>7. CASE PostFinished(th)
  BY <1>7 DEF PostFinished
<1>8. CASE PostAgain(th)
  BY <1>8 DEF PostAgain
<1>9. CASE ResetRequest(th)
  BY <1>9 DEF ResetRequest
<1>10. CASE Unrequest(th)
  BY <1>10 DEF Unrequest
<1>11. CASE Decide(th)
  BY <1>11 DEF Decide
<1>12. CASE on_thread_finish(th)
  BY <1>12 DEF on_thread_finish
<1>13. CASE KeepAliveElapse(th)
  BY <1>13 DEF KeepAliveElapse
<1> QED
  BY <1>1, <1>2, <1>3, <1>4, <1>5, <1>6, <1>7, <1>8, <1>9, <1>10, <1>11,
     <1>12, <1>13 DEF PoolThread

LEMMA NextExecutor == TypeOK /\ ExecutorInv /\ [Next]_vars => ExecutorInv'
<1> SUFFICES ASSUME TypeOK, ExecutorInv, [Next]_vars PROVE ExecutorInv'
  OBVIOUS
<1> USE DEF TypeOK, ExecutorInv, OneExecutor, Executes, Holds, tvars, pvars
<1>1. CASE \E t \in Task :
         Construct(t) \/ Start(t) \/ AddTask(t) \/ Elapse(t) \/ Destroy(t) \/ CancelOne(t)
  BY <1>1, TaskExecutor
<1>2. CASE \E th \in Thread : PoolThread(th) \/ KeepAliveElapse(th)
  BY <1>2, PoolThreadExecutor
<1>3. CASE \E S \in SUBSET Cancelable : CancelFind(S)
  BY <1>3 DEF CancelFind
<1>4. CASE \E th \in Thread : IterateSpawn(th)
  BY <1>4 DEF IterateSpawn
<1>5. CASE IterateBegin \/ IterateSkip \/ IterateRequest \/ IterateNoSpawn \/ IterateEnd
  BY <1>5 DEF IterateBegin, IterateSkip, IterateRequest, IterateNoSpawn, IterateEnd
<1>6. CASE Shutdown \/ QueueThreadStopped \/ \E p \in Pool : Terminate(p)
  BY <1>6 DEF Shutdown, QueueThreadStopped, Terminate
<1>7. CASE CancelAll
  BY <1>7 DEF CancelAll
<1>8. CASE Done \/ UNCHANGED vars
  BY <1>8 DEF Done, vars
<1> QED
  BY <1>1, <1>2, <1>3, <1>4, <1>5, <1>6, <1>7, <1>8 DEF Next, QueueThread, Deleter

\* The invariant that makes OneExecutor inductive.
THEOREM ExecutorCorrect == Spec => []ExecutorInv
BY InitExecutor, NextExecutor, TypeCorrect, PTL DEF Spec

\* No task is ever executed by two threads at once, whatever the pools'
\* limits and however often it is executed again, cancelled and reused.
THEOREM OneExecutorHolds == Spec => []OneExecutor
<1>1. ExecutorInv => OneExecutor
  BY DEF ExecutorInv
<1> QED
  BY <1>1, ExecutorCorrect, PTL

----------------------------------------------------------------------------
(* The threads of a pool *)

\* A pool has finitely many threads.
LEMMA ThreadsFinite ==
  ASSUME NEW p \in Pool
  PROVE  IsFiniteSet(threads(p)) /\ Cardinality(threads(p)) \in Nat
<1>1. threads(p) \subseteq Thread
  BY DEF threads
<1> QED
  BY <1>1, ConstantsAssumption, FS_Subset, FS_CardinalityType

\* A step that leaves every thread where it is, or moves one that runs to
\* another place in its loop, changes no pool's threads.
LEMMA ThreadsSame ==
  ASSUME TypeOK,
         \/ UNCHANGED pc
         \/ \E th \in Thread, to \in ThreadPc \ {"none"} :
              pc[th] # "none" /\ pc' = [pc EXCEPT ![th] = to]
  PROVE  \A p \in Pool : threads(p)' = threads(p)
<1>1. \A th \in Thread : pc'[th] # "none" <=> pc[th] # "none"
  BY DEF TypeOK, ThreadPc
<1> QED
  BY <1>1 DEF threads

\* Only the queue's thread starts threads, and on_thread_finish ends them.
LEMMA ThreadsStep ==
  ASSUME TypeOK, [Next]_vars
  PROVE  \/ \A p \in Pool : threads(p)' = threads(p)
         \/ \E th \in Thread : IterateSpawn(th) \/ on_thread_finish(th)
<1> USE DEF tvars, pvars, qvars
<1>1. CASE \E t \in Task :
         Construct(t) \/ Start(t) \/ AddTask(t) \/ Elapse(t) \/ Destroy(t) \/ CancelOne(t)
  <2>1. UNCHANGED pc
    BY <1>1 DEF Construct, Start, AddTask, Elapse, Destroy, CancelOne
  <2> QED
    BY <2>1, ThreadsSame
<1>2. CASE \E S \in SUBSET Cancelable : CancelFind(S)
  <2>1. UNCHANGED pc
    BY <1>2 DEF CancelFind
  <2> QED
    BY <2>1, ThreadsSame
<1>3. CASE IterateBegin \/ IterateSkip \/ IterateRequest \/ IterateNoSpawn \/ IterateEnd
  <2>1. UNCHANGED pc
    BY <1>3 DEF IterateBegin, IterateSkip, IterateRequest, IterateNoSpawn, IterateEnd
  <2> QED
    BY <2>1, ThreadsSame
<1>4. ASSUME NEW th \in Thread, PoolThread(th) \/ KeepAliveElapse(th), ~on_thread_finish(th)
      PROVE  \A p \in Pool : threads(p)' = threads(p)
  <2>1. \/ UNCHANGED pc
        \/ \E to \in ThreadPc \ {"none"} : pc[th] # "none" /\ pc' = [pc EXCEPT ![th] = to]
    BY <1>4 DEF PoolThread, Pick, PickNothing, ExecuteEntry, ExecuteDone, FinishedCheck,
         FinishedNotify, PostFinished, PostAgain, ResetRequest, Unrequest, Decide,
         KeepAliveElapse, Goto, ThreadPc
  <2> QED
    BY <2>1, ThreadsSame
<1>5. CASE Shutdown \/ Deleter \/ Done \/ UNCHANGED vars
  <2>1. UNCHANGED pc
    BY <1>5 DEF Shutdown, Deleter, QueueThreadStopped, Terminate, CancelAll, Done, vars
  <2> QED
    BY <2>1, ThreadsSame
<1> QED
  BY <1>1, <1>2, <1>3, <1>4, <1>5 DEF Next, QueueThread

\* A thread that starts joins the threads of its pool.
LEMMA SpawnThreads ==
  ASSUME TypeOK, NEW th \in Thread, IterateSpawn(th)
  PROVE  /\ Home[th] \in Pool /\ th \notin threads(Home[th])
         /\ \A p \in Pool :
              threads(p)' = IF p = Home[th] THEN threads(p) \union {th} ELSE threads(p)
<1>1. /\ pc[th] = "none" /\ pc'[th] = "pick"
      /\ \A x \in Thread : x # th => pc'[x] = pc[x]
  BY DEF IterateSpawn, TypeOK
<1> QED
  BY <1>1, ConstantsAssumption DEF threads

\* A thread that ends leaves the threads of its pool.
LEMMA FinishThreads ==
  ASSUME TypeOK, NEW th \in Thread, on_thread_finish(th)
  PROVE  /\ Home[th] \in Pool /\ th \in threads(Home[th])
         /\ \A p \in Pool :
              threads(p)' = IF p = Home[th] THEN threads(p) \ {th} ELSE threads(p)
<1>1. /\ pc[th] = "exit" /\ pc'[th] = "none"
      /\ \A x \in Thread : x # th => pc'[x] = pc[x]
  BY DEF on_thread_finish, Goto, TypeOK
<1> QED
  BY <1>1, ConstantsAssumption DEF threads

----------------------------------------------------------------------------
(* The thread limit *)

LEMMA NextThreadLimit == TypeOK /\ ThreadLimit /\ [Next]_vars => ThreadLimit'
<1> SUFFICES ASSUME TypeOK, ThreadLimit, [Next]_vars, NEW p \in Pool
             PROVE  Cardinality(threads(p)') <= Limit[p]
  BY DEF ThreadLimit
<1>1. CASE threads(p)' = threads(p)
  BY <1>1 DEF ThreadLimit
<1>2. ASSUME NEW th \in Thread, IterateSpawn(th)
      PROVE  Cardinality(threads(p)') <= Limit[p]
  <2>1. CASE p # Home[th]
    BY <1>2, <2>1, <1>1, SpawnThreads
  <2>2. CASE p = Home[th]
    <3>1. Cardinality(threads(p)) < Limit[p]
      BY <1>2, <2>2 DEF IterateSpawn, NeedsThread
    <3>2. Cardinality(threads(p) \union {th}) = Cardinality(threads(p)) + 1
      BY <1>2, <2>2, SpawnThreads, ThreadsFinite, FS_AddElement
    <3>3. threads(p)' = threads(p) \union {th}
      BY <1>2, <2>2, SpawnThreads
    <3>4. Cardinality(threads(p)) \in Nat /\ Limit[p] \in Nat
      BY ThreadsFinite, ConstantsAssumption
    <3> QED
      BY <3>1, <3>2, <3>3, <3>4
  <2> QED
    BY <2>1, <2>2
<1>3. ASSUME NEW th \in Thread, on_thread_finish(th)
      PROVE  Cardinality(threads(p)') <= Limit[p]
  <2>1. CASE p # Home[th]
    BY <1>3, <2>1, <1>1, FinishThreads
  <2>2. CASE p = Home[th]
    <3>1. /\ Cardinality(threads(p) \ {th}) = Cardinality(threads(p)) - 1
          /\ threads(p)' = threads(p) \ {th}
      BY <1>3, <2>2, FinishThreads, ThreadsFinite, FS_RemoveElement
    <3> QED
      BY <3>1, ThreadsFinite, ConstantsAssumption DEF ThreadLimit
  <2> QED
    BY <2>1, <2>2
<1> QED
  BY <1>1, <1>2, <1>3, ThreadsStep

\* No pool ever runs more threads than its thread_count_limit().
THEOREM ThreadLimitHolds == Spec => []ThreadLimit
<1>1. Init => ThreadLimit
  <2> SUFFICES ASSUME Init, NEW p \in Pool PROVE Cardinality(threads(p)) <= Limit[p]
    BY DEF ThreadLimit
  <2>1. threads(p) = {}
    BY DEF Init, threads
  <2> QED
    BY <2>1, FS_EmptySet, ConstantsAssumption
<1> QED
  BY <1>1, NextThreadLimit, TypeCorrect, PTL DEF Spec

----------------------------------------------------------------------------
(* Requests and threads.  The queue cannot change while its thread scans   *)
(* it, so the task a thread is about to be started for stays where it is.  *)

LockInv ==
  /\ found # {} => qpc \notin {"scan", "spawn"}
  /\ main \in {"pools", "done"} => qpc = "stopped"
  /\ qpc = "spawn" => req_count > 0 /\ qi <= Len(tasks)

LEMMA InitLock == Init => LockInv /\ RequestsHaveThreads
BY DEF Init, LockInv, RequestsHaveThreads

\* The queue changes only while nobody scans it.
LEMMA ScanKeepsQueue ==
  ASSUME TypeOK, LockInv, [Next]_vars, qpc \in {"scan", "spawn"}
  PROVE  UNCHANGED tasks
<1> USE DEF LockInv, QueueFree, tvars, pvars, qvars
<1>1. CASE \E t \in Task :
         Construct(t) \/ Start(t) \/ AddTask(t) \/ Elapse(t) \/ Destroy(t) \/ CancelOne(t)
  BY <1>1 DEF Construct, Start, AddTask, Elapse, Destroy, CancelOne
<1>2. CASE \E S \in SUBSET Cancelable : CancelFind(S)
  BY <1>2 DEF CancelFind
<1>3. CASE QueueThread
  BY <1>3 DEF QueueThread, IterateBegin, IterateSkip, IterateRequest, IterateSpawn,
         IterateNoSpawn, IterateEnd
<1>4. CASE \E th \in Thread : PoolThread(th) \/ KeepAliveElapse(th)
  BY <1>4 DEF PoolThread, Pick, PickNothing, ExecuteEntry, ExecuteDone, FinishedCheck,
         FinishedNotify, PostFinished, PostAgain, ResetRequest, Unrequest, Decide,
         on_thread_finish, KeepAliveElapse
<1>5. CASE Shutdown \/ Deleter \/ Done \/ UNCHANGED vars
  BY <1>5 DEF Shutdown, Deleter, QueueThreadStopped, Terminate, CancelAll, Done, vars
<1> QED
  BY <1>1, <1>2, <1>3, <1>4, <1>5 DEF Next

LEMMA NextLock == TypeOK /\ LockInv /\ [Next]_vars => LockInv'
<1> SUFFICES ASSUME TypeOK, LockInv, [Next]_vars PROVE LockInv'
  OBVIOUS
<1> USE DEF TypeOK, LockInv, QueueFree, tvars, pvars, qvars
<1>1. CASE \E t \in Task :
         Construct(t) \/ Start(t) \/ AddTask(t) \/ Elapse(t) \/ Destroy(t) \/ CancelOne(t)
  BY <1>1, ScanKeepsQueue DEF Construct, Start, AddTask, Elapse, Destroy, CancelOne
<1>2. CASE \E S \in SUBSET Cancelable : CancelFind(S)
  BY <1>2 DEF CancelFind
<1>3. CASE IterateRequest
  <2>1. tasks[qi] \in Task /\ PoolOf[tasks[qi]] \in Pool
    BY <1>3, ConstantsAssumption DEF IterateRequest
  <2>2. Cardinality(requests[PoolOf[tasks[qi]]]) \in Nat
    <3>1. requests[PoolOf[tasks[qi]]] \in SUBSET Task
      BY <2>1
    <3> QED
      BY <3>1, FS_Subset, FS_CardinalityType, ConstantsAssumption
  <2> QED
    BY <1>3, <2>2 DEF IterateRequest
<1>4. CASE \/ IterateBegin \/ IterateSkip \/ IterateNoSpawn \/ IterateEnd
           \/ \E th \in Thread : IterateSpawn(th)
  BY <1>4 DEF IterateBegin, IterateSkip, IterateSpawn, IterateNoSpawn, IterateEnd
<1>5. CASE \E th \in Thread : PoolThread(th) \/ KeepAliveElapse(th)
  <2>1. UNCHANGED <<qvars, found, main>>
    BY <1>5 DEF PoolThread, Pick, PickNothing, ExecuteEntry, ExecuteDone, FinishedCheck,
         FinishedNotify, PostFinished, PostAgain, ResetRequest, Unrequest, Decide,
         on_thread_finish, KeepAliveElapse
  <2> QED
    BY <2>1, ScanKeepsQueue
<1>6. CASE Shutdown \/ Deleter \/ Done \/ UNCHANGED vars
  BY <1>6, ScanKeepsQueue
  DEF Shutdown, Deleter, QueueThreadStopped, Terminate, CancelAll, Done, vars
<1> QED
  BY <1>1, <1>2, <1>3, <1>4, <1>5, <1>6 DEF Next, QueueThread

\* Requests are made by the queue's thread alone; the pool threads only
\* withdraw them.
LEMMA RequestsShrink ==
  ASSUME TypeOK, [Next]_vars, ~IterateRequest
  PROVE  \A p \in Pool : requests'[p] \subseteq requests[p]
<1> USE ConstantsAssumption DEF TypeOK, tvars, pvars, qvars
<1>1. CASE \E t \in Task :
         Construct(t) \/ Start(t) \/ AddTask(t) \/ Elapse(t) \/ Destroy(t) \/ CancelOne(t)
  BY <1>1 DEF Construct, Start, AddTask, Elapse, Destroy, CancelOne
<1>2. CASE \E S \in SUBSET Cancelable : CancelFind(S)
  BY <1>2 DEF CancelFind
<1>3. CASE \/ IterateBegin \/ IterateSkip \/ IterateNoSpawn \/ IterateEnd
           \/ \E th \in Thread : IterateSpawn(th)
  BY <1>3 DEF IterateBegin, IterateSkip, IterateSpawn, IterateNoSpawn, IterateEnd
<1>4. ASSUME NEW th \in Thread, Unrequest(th) \/ on_thread_finish(th)
      PROVE  \A p \in Pool : requests'[p] \subseteq requests[p]
  <2>1. Home[th] \in Pool
    OBVIOUS
  <2>2. CASE Unrequest(th)
    <3>1. requests' = [requests EXCEPT ![Home[th]] = @ \ {job[th]}]
      BY <2>2 DEF Unrequest
    <3> QED
      BY <2>1, <3>1
  <2>3. CASE on_thread_finish(th)
    <3>1. requests' = [requests EXCEPT ![Home[th]] = {}] \/ requests' = requests
      BY <2>3 DEF on_thread_finish
    <3> QED
      BY <2>1, <3>1
  <2> QED
    BY <1>4, <2>2, <2>3
<1>5. ASSUME NEW th \in Thread, PoolThread(th) \/ KeepAliveElapse(th)
      PROVE  \A p \in Pool : requests'[p] \subseteq requests[p]
  BY <1>4, <1>5 DEF PoolThread, Pick, PickNothing, ExecuteEntry, ExecuteDone,
         FinishedCheck, FinishedNotify, PostFinished, PostAgain, ResetRequest, Decide,
         KeepAliveElapse
<1>6. CASE Shutdown \/ Deleter \/ Done \/ UNCHANGED vars
  BY <1>6 DEF Shutdown, Deleter, QueueThreadStopped, Terminate, CancelAll, Done, vars
<1> QED
  BY <1>1, <1>2, <1>3, <1>5, <1>6 DEF Next, QueueThread

\* The queue's thread leaves the place where it starts threads only by the
\* two outcomes of execution_request.
LEMMA SpawnStays ==
  ASSUME TypeOK, LockInv, [Next]_vars, qpc = "spawn",
         ~IterateNoSpawn, \A th \in Thread : ~IterateSpawn(th)
  PROVE  UNCHANGED <<qpc, qi, tasks>>
<1> USE DEF LockInv, QueueFree, tvars, pvars, qvars
<1>1. UNCHANGED tasks
  BY ScanKeepsQueue
<1>2. CASE \E t \in Task :
         Construct(t) \/ Start(t) \/ AddTask(t) \/ Elapse(t) \/ Destroy(t) \/ CancelOne(t)
  BY <1>1, <1>2 DEF Construct, Start, AddTask, Elapse, Destroy, CancelOne
<1>3. CASE \E S \in SUBSET Cancelable : CancelFind(S)
  BY <1>1, <1>3 DEF CancelFind
<1>4. CASE QueueThread
  BY <1>4 DEF QueueThread, IterateBegin, IterateSkip, IterateRequest, IterateEnd
<1>5. CASE \E th \in Thread : PoolThread(th) \/ KeepAliveElapse(th)
  BY <1>1, <1>5 DEF PoolThread, Pick, PickNothing, ExecuteEntry, ExecuteDone,
         FinishedCheck, FinishedNotify, PostFinished, PostAgain, ResetRequest, Unrequest,
         Decide, on_thread_finish, KeepAliveElapse
<1>6. CASE Shutdown \/ Deleter \/ Done \/ UNCHANGED vars
  BY <1>1, <1>6
  DEF Shutdown, Deleter, QueueThreadStopped, Terminate, CancelAll, Done, vars
<1> QED
  BY <1>2, <1>3, <1>4, <1>5, <1>6 DEF Next

LEMMA NextRequests ==
  TypeOK /\ LockInv /\ RequestsHaveThreads /\ [Next]_vars => RequestsHaveThreads'
<1> SUFFICES ASSUME TypeOK, LockInv, RequestsHaveThreads, [Next]_vars,
                    NEW p \in Pool, requests'[p] # {}
             PROVE  threads(p)' # {} \/ (qpc' = "spawn" /\ PoolOf[tasks'[qi']] = p)
  BY DEF RequestsHaveThreads
<1>1. CASE IterateRequest
  <2>1. tasks[qi] \in Task /\ PoolOf[tasks[qi]] \in Pool /\ qpc = "scan"
    <3>1. qpc = "scan" /\ qi <= Len(tasks)
      BY <1>1 DEF IterateRequest
    <3>2. tasks \in Seq(Task) /\ qi \in Nat /\ qi > 0
      BY <3>1 DEF TypeOK
    <3>3. tasks[qi] \in Task
      BY <3>1, <3>2
    <3>4. PoolOf \in [Task -> Pool]
      BY ConstantsAssumption
    <3> QED
      BY <3>1, <3>3, <3>4
  <2>2. threads(p)' = threads(p)
    <3>1. UNCHANGED pc
      BY <1>1 DEF IterateRequest, pvars
    <3> QED
      BY <3>1, ThreadsSame
  <2>3. CASE requests[p] # {}
    BY <2>1, <2>2, <2>3 DEF RequestsHaveThreads
  <2>4. CASE requests[p] = {}
    BY <1>1, <2>1, <2>4 DEF IterateRequest, TypeOK
  <2> QED
    BY <2>3, <2>4
<1>2. CASE ~IterateRequest
  <2>1. requests[p] # {}
    BY <1>2, RequestsShrink
  <2>2. threads(p) # {} \/ (qpc = "spawn" /\ PoolOf[tasks[qi]] = p)
    BY <2>1 DEF RequestsHaveThreads
  <2>3. ASSUME NEW th \in Thread, IterateSpawn(th)
        PROVE  threads(p)' # {}
    BY <2>2, <2>3, SpawnThreads DEF IterateSpawn
  <2>4. ASSUME NEW th \in Thread, on_thread_finish(th), threads(p)' = {}
        PROVE  qpc' = "spawn" /\ PoolOf[tasks'[qi']] = p
    <3>1. CASE Home[th] = p
      <4>1. threads(p) = {th}
        BY <2>4, <3>1, FinishThreads
      <4>2. requests'[p] = {}
        BY <2>4, <3>1, <4>1 DEF on_thread_finish, TypeOK
      <4> QED
        BY <4>2
    <3>2. CASE Home[th] # p
      <4>1. threads(p) = {}
        BY <2>4, <3>2, FinishThreads
      <4> QED
        BY <2>2, <2>4, <4>1 DEF on_thread_finish, qvars
    <3> QED
      BY <3>1, <3>2
  <2>5. CASE IterateNoSpawn
    <3>1. threads(p)' = threads(p)
      <4>1. UNCHANGED pc
        BY <2>5 DEF IterateNoSpawn, pvars
      <4> QED
        BY <4>1, ThreadsSame
    <3>2. ASSUME PoolOf[tasks[qi]] = p, threads(p) = {} PROVE FALSE
      <4>1. Cardinality(threads(p)) = 0
        BY <3>2, FS_EmptySet
      <4>2. req_count > 0 /\ req_count \in Nat /\ PerThread[p] \in Nat /\ Limit[p] > 0
        BY <2>5, ConstantsAssumption DEF LockInv, IterateNoSpawn, TypeOK
      <4>3. PerThread[p] * 0 = 0
        BY <4>2
      <4> QED
        BY <2>5, <3>2, <4>1, <4>2, <4>3 DEF IterateNoSpawn, NeedsThread
    <3> QED
      BY <2>2, <3>1, <3>2
  <2>6. CASE /\ ~IterateNoSpawn
             /\ \A th \in Thread : ~IterateSpawn(th) /\ ~on_thread_finish(th)
    <3>1. threads(p)' = threads(p)
      BY <2>6, ThreadsStep
    <3>2. qpc = "spawn" => UNCHANGED <<qpc, qi, tasks>>
      BY <2>6, SpawnStays
    <3> QED
      BY <2>2, <3>1, <3>2
  <2> QED
    BY <2>3, <2>4, <2>5, <2>6
<1> QED
  BY <1>1, <1>2

\* A pool with a pending request always has a thread or is just getting one:
\* the situation execution_request() warns of does not occur.
THEOREM RequestsHaveThreadsHolds == Spec => []RequestsHaveThreads
<1>1. TypeOK /\ (LockInv /\ RequestsHaveThreads) /\ [Next]_vars
        => (LockInv /\ RequestsHaveThreads)'
  BY NextLock, NextRequests
<1> QED
  BY <1>1, InitLock, TypeCorrect, PTL DEF Spec

----------------------------------------------------------------------------
(* The order of the queue *)

\* Inserting a task at the place add_task() finds keeps the order.
LEMMA InsertOrdered ==
  ASSUME TypeOK, QueueOrdered, NEW t \in Task, NEW k \in 1..(Len(tasks) + 1),
         \A j \in 1..(k - 1) : Prio[tasks[j]] >= Prio[t],
         k <= Len(tasks) => Prio[tasks[k]] < Prio[t],
         tasks' = InsertTask(tasks, k, t)
  PROVE  QueueOrdered'
<1> DEFINE n == Len(tasks)
<1>1. tasks \in Seq(Task) /\ n \in Nat
  BY DEF TypeOK
<1>2. /\ Len(tasks') = n + 1
      /\ \A i \in 1..(n + 1) :
           tasks'[i] = IF i < k THEN tasks[i] ELSE IF i = k THEN t ELSE tasks[i - 1]
  BY <1>1, InsertType
<1>3. \A i \in 1..n : Prio[tasks[i]] \in Int
  <2>1. \A i \in 1..n : tasks[i] \in Task
    BY <1>1
  <2>2. \A u \in Task : Prio[u] \in Int
    BY ConstantsAssumption
  <2> QED
    BY <2>1, <2>2
<1>4. Prio[t] \in Int
  BY ConstantsAssumption
<1>5. \A i \in k..n : Prio[tasks[i]] <= Prio[t]
  BY <1>1, <1>3, <1>4 DEF QueueOrdered
<1> SUFFICES ASSUME NEW i \in 1..(n + 1), NEW j \in 1..(n + 1), i < j
             PROVE  Prio[tasks'[i]] >= Prio[tasks'[j]]
  BY <1>2 DEF QueueOrdered
<1>6. CASE j < k
  BY <1>1, <1>2, <1>3, <1>6 DEF QueueOrdered
<1>7. CASE j = k
  BY <1>1, <1>2, <1>7
<1>8. CASE j > k /\ i < k
  <2>1. tasks'[i] = tasks[i] /\ tasks'[j] = tasks[j - 1] /\ i < j - 1 /\ j - 1 \in 1..n /\ i \in 1..n
    BY <1>1, <1>2, <1>8
  <2> QED
    BY <2>1 DEF QueueOrdered
<1>9. CASE j > k /\ i = k
  <2>1. tasks'[i] = t /\ tasks'[j] = tasks[j - 1] /\ j - 1 \in k..n
    BY <1>1, <1>2, <1>9
  <2>2. Prio[tasks[j - 1]] \in Int /\ Prio[tasks[j - 1]] <= Prio[t]
    BY <1>3, <1>5, <2>1
  <2> QED
    BY <1>4, <2>1, <2>2
<1>10. CASE j > k /\ i > k
  <2>1. /\ tasks'[i] = tasks[i - 1] /\ tasks'[j] = tasks[j - 1] /\ i - 1 < j - 1
        /\ j - 1 \in 1..n /\ i - 1 \in 1..n
    BY <1>1, <1>2, <1>10
  <2> QED
    BY <2>1 DEF QueueOrdered
<1> QED
  BY <1>1, <1>6, <1>7, <1>8, <1>9, <1>10

\* Erasing a task keeps the order of the others.
LEMMA RemoveOrdered ==
  ASSUME TypeOK, QueueOrdered, NEW t, remove_task(t)
  PROVE  QueueOrdered'
<1>1. CASE UNCHANGED tasks
  BY <1>1 DEF QueueOrdered
<1>2. ASSUME NEW k \in 1..Len(tasks), tasks' = EraseTask(tasks, k)
      PROVE  QueueOrdered'
  <2> DEFINE n == Len(tasks)
  <2>1. tasks \in Seq(Task) /\ n \in Nat
    BY DEF TypeOK
  <2>2. /\ Len(tasks') = n - 1
        /\ \A i \in 1..(n - 1) : tasks'[i] = IF i < k THEN tasks[i] ELSE tasks[i + 1]
    BY <1>2, <2>1, EraseType
  <2> SUFFICES ASSUME NEW i \in 1..(n - 1), NEW j \in 1..(n - 1), i < j
               PROVE  Prio[tasks'[i]] >= Prio[tasks'[j]]
    BY <2>2 DEF QueueOrdered
  <2>3. PICK a \in 1..n, b \in 1..n : tasks'[i] = tasks[a] /\ tasks'[j] = tasks[b] /\ a < b
    <3>1. CASE i < k /\ j < k
      <4>1. tasks'[i] = tasks[i] /\ tasks'[j] = tasks[j] /\ i \in 1..n /\ j \in 1..n
        BY <2>1, <2>2, <3>1
      <4> QED
        BY <4>1
    <3>2. CASE i < k /\ j >= k
      <4>1. tasks'[i] = tasks[i] /\ tasks'[j] = tasks[j + 1] /\ i < j + 1 /\ j + 1 \in 1..n /\ i \in 1..n
        BY <2>1, <2>2, <3>2
      <4> QED
        BY <4>1
    <3>3. CASE i >= k
      <4>1. /\ tasks'[i] = tasks[i + 1] /\ tasks'[j] = tasks[j + 1] /\ i + 1 < j + 1
            /\ j + 1 \in 1..n /\ i + 1 \in 1..n
        BY <2>1, <2>2, <3>3
      <4> QED
        BY <4>1
    <3> QED
      BY <2>1, <3>1, <3>2, <3>3
  <2> QED
    BY <2>3 DEF QueueOrdered
<1> QED
  BY <1>1, <1>2 DEF remove_task

LEMMA NextOrdered == TypeOK /\ QueueOrdered /\ [Next]_vars => QueueOrdered'
<1> SUFFICES ASSUME TypeOK, QueueOrdered, [Next]_vars PROVE QueueOrdered'
  OBVIOUS
<1> USE DEF tvars, pvars, qvars
<1>1. CASE UNCHANGED tasks
  BY <1>1 DEF QueueOrdered
<1>2. ASSUME NEW t \in Task, AddTask(t) PROVE QueueOrdered'
  BY <1>2, InsertOrdered DEF AddTask
<1>3. ASSUME NEW t \in Task, CancelOne(t) PROVE QueueOrdered'
  BY <1>3, RemoveOrdered DEF CancelOne
<1>4. ASSUME NEW th \in Thread, PostFinished(th) PROVE QueueOrdered'
  BY <1>4, RemoveOrdered DEF PostFinished
<1>5. CASE CancelAll
  <2>1. Len(tasks') = 0
    BY <1>5, EmptySeq DEF CancelAll
  <2> QED
    BY <2>1 DEF QueueOrdered
<1>6. CASE \E t \in Task : Construct(t) \/ Start(t) \/ Elapse(t) \/ Destroy(t)
  BY <1>1, <1>6 DEF Construct, Start, Elapse, Destroy
<1>7. CASE \E S \in SUBSET Cancelable : CancelFind(S)
  BY <1>1, <1>7 DEF CancelFind
<1>8. CASE QueueThread
  BY <1>1, <1>8 DEF QueueThread, IterateBegin, IterateSkip, IterateRequest, IterateSpawn,
         IterateNoSpawn, IterateEnd
<1>9. ASSUME NEW th \in Thread, PoolThread(th) \/ KeepAliveElapse(th)
      PROVE  QueueOrdered'
  BY <1>1, <1>4, <1>9 DEF PoolThread, Pick, PickNothing, ExecuteEntry, ExecuteDone,
         FinishedCheck, FinishedNotify, PostAgain, ResetRequest, Unrequest, Decide,
         on_thread_finish, KeepAliveElapse
<1>10. CASE Shutdown \/ QueueThreadStopped \/ (\E p \in Pool : Terminate(p)) \/ Done
           \/ UNCHANGED vars
  BY <1>1, <1>10 DEF Shutdown, QueueThreadStopped, Terminate, Done, vars
<1> QED
  BY <1>2, <1>3, <1>5, <1>6, <1>7, <1>8, <1>9, <1>10 DEF Next, Deleter

\* The queue stays ordered by priority.
THEOREM QueueOrderedHolds == Spec => []QueueOrdered
<1>1. Init => QueueOrdered
  BY DEF Init, QueueOrdered
<1> QED
  BY <1>1, NextOrdered, TypeCorrect, PTL DEF Spec
=============================================================================
