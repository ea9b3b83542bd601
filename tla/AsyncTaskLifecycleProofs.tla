---------------------- MODULE AsyncTaskLifecycleProofs ----------------------
(***************************************************************************)
(* AsyncTask implements TaskLifecycle, the outcome of a task is final, a   *)
(* task is once in the queue and leaves it when it is finished, for any    *)
(* tasks, threads, pools and limits.                                       *)
(***************************************************************************)
EXTENDS AsyncTaskProofs

----------------------------------------------------------------------------
(* Outcomes *)

\* What one step may do to the state of a task.
StateStep(t) ==
  \/ state'[t] = state[t]
  \/ state[t] \in {"FREE", "INIT", "WAITING", "PICKED", "EXECUTING"}
  \/ state'[t] \in {"FREE", "CANCELED"}

LEMMA NextStateStep ==
  ASSUME TypeOK, ExecutorInv, [Next]_vars, NEW t \in Task
  PROVE  StateStep(t)
<1> USE DEF StateStep, TypeOK, tvars, pvars
<1>1. ASSUME NEW u \in Task,
             Construct(u) \/ Start(u) \/ AddTask(u) \/ Elapse(u) \/ Destroy(u) \/ CancelOne(u)
      PROVE  StateStep(t)
  BY <1>1 DEF Construct, Start, AddTask, Elapse, Destroy, CancelOne
<1>2. ASSUME NEW th \in Thread, Pick(th) PROVE StateStep(t)
  <2>1. PICK k \in 1..Len(tasks) :
          Pickable(tasks[k], Home[th]) /\ state' = [state EXCEPT ![tasks[k]] = "PICKED"]
    BY <1>2 DEF Pick
  <2> QED
    BY <2>1 DEF Pickable
<1>3. ASSUME NEW th \in Thread, ExecuteEntry(th) PROVE StateStep(t)
  BY <1>3 DEF ExecuteEntry
<1>4. ASSUME NEW th \in Thread, ExecuteDone(th) PROVE StateStep(t)
  <2>1. job[th] \in Task /\ state[job[th]] \in {"EXECUTING", "CANCELED"}
    BY <1>4 DEF ExecuteDone, Goto, ExecutorInv, Holds
  <2> QED
    BY <1>4, <2>1 DEF ExecuteDone
<1>5. ASSUME NEW th \in Thread,
             \/ PickNothing(th) \/ FinishedCheck(th) \/ FinishedNotify(th)
             \/ PostFinished(th) \/ PostAgain(th) \/ ResetRequest(th) \/ Unrequest(th)
             \/ Decide(th) \/ on_thread_finish(th) \/ KeepAliveElapse(th)
      PROVE  StateStep(t)
  BY <1>5 DEF PickNothing, FinishedCheck, FinishedNotify, PostFinished, PostAgain,
     ResetRequest, Unrequest, Decide, on_thread_finish, KeepAliveElapse
<1>6. CASE QueueThread \/ \E S \in SUBSET Cancelable : CancelFind(S)
  BY <1>6 DEF QueueThread, IterateBegin, IterateSkip, IterateRequest, IterateSpawn,
     IterateNoSpawn, IterateEnd, CancelFind
<1>7. CASE CancelAll
  BY <1>7 DEF CancelAll
<1>8. CASE Shutdown \/ QueueThreadStopped \/ (\E p \in Pool : Terminate(p)) \/ Done
           \/ UNCHANGED vars
  BY <1>8 DEF Shutdown, QueueThreadStopped, Terminate, Done, vars
<1> QED
  BY <1>1, <1>2, <1>3, <1>4, <1>5, <1>6, <1>7, <1>8 DEF Next, PoolThread, Deleter

\* A task that was cancelled keeps that state until it is freed: execute()
\* looks at the state again when _execute() has returned.
THEOREM CanceledIsFinalHolds == Spec => CanceledIsFinal
<1>1. TypeOK /\ ExecutorInv /\ [Next]_vars =>
        [\A t \in Task : state[t] = "CANCELED" => state'[t] \in {"CANCELED", "FREE"}]_vars
  BY NextStateStep DEF StateStep
<1> QED
  BY <1>1, TypeCorrect, ExecutorCorrect, PTL DEF Spec, CanceledIsFinal

\* A task with an outcome is not executed again; at most it is cancelled
\* before it leaves the queue.
THEOREM FinishedIsFinalHolds == Spec => FinishedIsFinal
<1>1. TypeOK /\ ExecutorInv /\ [Next]_vars =>
        [\A t \in Task : Finished(t) => Finished(t)' \/ state'[t] = "FREE"]_vars
  BY NextStateStep DEF StateStep, Finished
<1> QED
  BY <1>1, TypeCorrect, ExecutorCorrect, PTL DEF Spec, FinishedIsFinal

----------------------------------------------------------------------------
(* The refinement of TaskLifecycle *)

\* What the queue, start() and cancel_tasks refer to is allocated and started:
\* cancelling a task of the queue never touches a free address.
Started(t) == state[t] \notin {"FREE", "INIT"}
StartedInv ==
  /\ \A i \in 1..Len(tasks) : Started(tasks[i])
  /\ \A t \in starting \union found : Started(t)

\* remove_task puts nothing into the queue.
LEMMA RemoveKeeps ==
  ASSUME TypeOK, NEW u, remove_task(u)
  PROVE  \A i \in 1..Len(tasks') : \E j \in 1..Len(tasks) : tasks'[i] = tasks[j]
<1>1. CASE UNCHANGED tasks
  BY <1>1
<1>2. ASSUME NEW k \in 1..Len(tasks), tasks' = EraseTask(tasks, k)
      PROVE  \A i \in 1..Len(tasks') : \E j \in 1..Len(tasks) : tasks'[i] = tasks[j]
  <2>1. Len(tasks') = Len(tasks) - 1
        /\ \A i \in 1..(Len(tasks) - 1) : tasks'[i] = IF i < k THEN tasks[i] ELSE tasks[i + 1]
    BY <1>2, EraseType DEF TypeOK
  <2>2. \A i \in 1..(Len(tasks) - 1) : i \in 1..Len(tasks) /\ i + 1 \in 1..Len(tasks)
    BY DEF TypeOK
  <2> QED
    BY <2>1, <2>2
<1> QED
  BY <1>1, <1>2 DEF remove_task

LEMMA InitStarted == Init => StartedInv
BY DEF Init, StartedInv

LEMMA NextStarted == TypeOK /\ ExecutorInv /\ StartedInv /\ [Next]_vars => StartedInv'
<1> SUFFICES ASSUME TypeOK, ExecutorInv, StartedInv, [Next]_vars PROVE StartedInv'
  OBVIOUS
<1>0. \A i \in 1..Len(tasks) : tasks[i] \in Task
  BY DEF TypeOK
<1>1. ASSUME UNCHANGED starting, found' \subseteq found,
             \A i \in 1..Len(tasks') : \E j \in 1..Len(tasks) : tasks'[i] = tasks[j],
             \A t \in Task : Started(t) => Started(t)'
      PROVE  StartedInv'
  BY <1>0, <1>1 DEF StartedInv, TypeOK, Started
<1>2. ASSUME NEW t \in Task, Construct(t) \/ Elapse(t) PROVE StartedInv'
  BY <1>1, <1>2 DEF Construct, Elapse, Started, TypeOK
<1>3. ASSUME NEW t \in Task, Start(t) PROVE StartedInv'
  BY <1>0, <1>3 DEF Start, StartedInv, Started, TypeOK
<1>4. ASSUME NEW t \in Task, AddTask(t) PROVE StartedInv'
  <2>1. PICK k \in 1..(Len(tasks) + 1) : tasks' = InsertTask(tasks, k, t)
    BY <1>4 DEF AddTask
  <2>2. Len(tasks') = Len(tasks) + 1
        /\ \A i \in 1..(Len(tasks) + 1) :
             tasks'[i] = IF i < k THEN tasks[i] ELSE IF i = k THEN t ELSE tasks[i - 1]
    BY <2>1, InsertType DEF TypeOK
  <2>3. \A i \in 1..(Len(tasks) + 1) :
          (i < k => i \in 1..Len(tasks)) /\ (i > k => i - 1 \in 1..Len(tasks))
    BY DEF TypeOK
  <2>4. Started(t) /\ UNCHANGED <<state, found>> /\ starting' \subseteq starting
    BY <1>4 DEF AddTask, StartedInv
  <2>5. \A i \in 1..(Len(tasks) + 1) : i < k \/ i = k \/ i > k
    BY DEF TypeOK
  <2>6. \A i \in 1..Len(tasks') : Started(tasks'[i])
    BY <2>2, <2>3, <2>4, <2>5 DEF StartedInv
  <2> QED
    BY <2>4, <2>6 DEF StartedInv, Started
<1>5. ASSUME NEW t \in Task, Destroy(t) PROVE StartedInv'
  BY <1>0, <1>5 DEF Destroy, InQueue, StartedInv, Started, TypeOK
<1>6. ASSUME NEW t \in Task, CancelOne(t) PROVE StartedInv'
  BY <1>1, <1>6, RemoveKeeps DEF CancelOne, Started, TypeOK
<1>7. ASSUME NEW S \in SUBSET Cancelable, CancelFind(S) PROVE StartedInv'
  BY <1>7 DEF CancelFind, InQueue, StartedInv, Started, tvars
<1>8. ASSUME NEW th \in Thread, Pick(th) PROVE StartedInv'
  BY <1>1, <1>8 DEF Pick, Started, TypeOK
<1>9. ASSUME NEW th \in Thread, ExecuteEntry(th) \/ ExecuteDone(th) PROVE StartedInv'
  <2>1. \A t \in Task : Started(t) => Started(t)'
    BY <1>9 DEF ExecuteEntry, ExecuteDone, Started, TypeOK
  <2> QED
    BY <1>1, <1>9, <2>1 DEF ExecuteEntry, ExecuteDone
<1>10. ASSUME NEW th \in Thread, PostFinished(th) PROVE StartedInv'
  BY <1>1, <1>10, RemoveKeeps DEF PostFinished, Started, tvars
<1>11. ASSUME UNCHANGED <<state, starting, found, tasks>> PROVE StartedInv'
  BY <1>1, <1>11 DEF Started
<1>12. ASSUME NEW th \in Thread,
             \/ PickNothing(th) \/ FinishedCheck(th) \/ FinishedNotify(th)
             \/ PostAgain(th) \/ ResetRequest(th) \/ Unrequest(th)
             \/ Decide(th) \/ on_thread_finish(th) \/ KeepAliveElapse(th)
      PROVE  StartedInv'
  BY <1>11, <1>12 DEF PickNothing, FinishedCheck, FinishedNotify, PostAgain,
     ResetRequest, Unrequest, Decide, on_thread_finish, KeepAliveElapse, tvars
<1>13. CASE QueueThread
  BY <1>11, <1>13 DEF QueueThread, IterateBegin, IterateSkip, IterateRequest, IterateSpawn,
     IterateNoSpawn, IterateEnd, tvars
<1>14. CASE CancelAll
  <2>1. \A t \in Task : Started(t) => Started(t)'
    BY <1>14 DEF CancelAll, Started, TypeOK
  <2>2. tasks' = <<>> /\ UNCHANGED <<starting, found>>
    BY <1>14 DEF CancelAll
  <2> QED
    BY <2>1, <2>2 DEF StartedInv, TypeOK
<1>15. CASE Shutdown \/ QueueThreadStopped \/ (\E p \in Pool : Terminate(p)) \/ Done
           \/ UNCHANGED vars
  BY <1>11, <1>15 DEF Shutdown, QueueThreadStopped, Terminate, Done, vars, tvars
<1> QED
  BY <1>2, <1>3, <1>4, <1>5, <1>6, <1>7, <1>8, <1>9, <1>10, <1>12, <1>13, <1>14, <1>15
     DEF Next, PoolThread, Deleter

LEMMA StartedCorrect == Spec => []StartedInv
BY InitStarted, NextStarted, TypeCorrect, ExecutorCorrect, PTL DEF Spec

\* The busy tasks of the abstract specification.
Busy == {job[th] : th \in {x \in Thread : Executes(x)}}

LEMMA InitLifecycle == Init => Lifecycle!Init
BY DEF Init, Lifecycle!Init, Executes

\* A step that changes neither the states nor who executes what stutters.
LEMMA StutterLifecycle ==
  ASSUME UNCHANGED state,
         \A th \in Thread : Executes(th)' = Executes(th),
         \A th \in Thread : Executes(th) => job'[th] = job[th]
  PROVE  UNCHANGED Lifecycle!lvars
<1>1. Busy' = Busy
  BY DEF Busy
<1> QED
  BY <1>1 DEF Lifecycle!lvars, Busy

\* The thread that stops to execute its task lets go of it.
LEMMA LetGo ==
  ASSUME TypeOK, ExecutorInv, NEW th \in Thread, Executes(th),
         pc' = [pc EXCEPT ![th] = "finished"], UNCHANGED job
  PROVE  job[th] \in Busy /\ Busy' = Busy \ {job[th]}
<1>1. \A x \in Thread : Executes(x)' <=> (Executes(x) /\ x # th)
  BY DEF Executes, TypeOK
<1>2. \A x \in Thread : Executes(x) /\ job[x] = job[th] => x = th
  BY DEF ExecutorInv, OneExecutor
<1> QED
  BY <1>1, <1>2 DEF Busy

\* Threads that only book-keep.
LEMMA BookkeepingLifecycle ==
  ASSUME TypeOK, NEW th \in Thread,
         \/ PickNothing(th) \/ FinishedCheck(th) \/ FinishedNotify(th)
         \/ PostFinished(th) \/ PostAgain(th) \/ ResetRequest(th) \/ Unrequest(th)
         \/ Decide(th) \/ on_thread_finish(th) \/ KeepAliveElapse(th)
  PROVE  UNCHANGED Lifecycle!lvars
<1> USE DEF TypeOK, Executes, Goto, tvars, pvars
<1>1. CASE PickNothing(th) \/ Decide(th)
  BY <1>1, StutterLifecycle DEF PickNothing, Decide
<1>2. CASE FinishedCheck(th) \/ FinishedNotify(th)
  BY <1>2, StutterLifecycle DEF FinishedCheck, FinishedNotify
<1>3. CASE PostFinished(th) \/ PostAgain(th)
  BY <1>3, StutterLifecycle DEF PostFinished, PostAgain
<1>4. CASE ResetRequest(th) \/ Unrequest(th)
  BY <1>4, StutterLifecycle DEF ResetRequest, Unrequest
<1>5. CASE on_thread_finish(th) \/ KeepAliveElapse(th)
  BY <1>5, StutterLifecycle DEF on_thread_finish, KeepAliveElapse
<1> QED
  BY <1>1, <1>2, <1>3, <1>4, <1>5

\* Threads that pick and execute.
LEMMA ExecutionLifecycle ==
  ASSUME TypeOK, ExecutorInv, NEW th \in Thread,
         Pick(th) \/ ExecuteEntry(th) \/ ExecuteDone(th)
  PROVE  [Lifecycle!Next]_Lifecycle!lvars
<1>1. CASE Pick(th)
  <2>1. PICK k \in 1..Len(tasks) :
          /\ Pickable(tasks[k], Home[th])
          /\ state' = [state EXCEPT ![tasks[k]] = "PICKED"]
          /\ job' = [job EXCEPT ![th] = tasks[k]]
    BY <1>1 DEF Pick
  <2>2. PICK t \in Task : t = tasks[k] /\ state[t] = "WAITING"
    BY <2>1 DEF Pickable, TypeOK
  <2>3. t \notin Busy
    BY <2>2 DEF Busy, ExecutorInv, Executes
  <2>4. /\ \A x \in Thread : Executes(x)' <=> (Executes(x) \/ x = th)
        /\ ~Executes(th) /\ job'[th] = t
        /\ \A x \in Thread : x # th => job'[x] = job[x]
    BY <1>1, <2>1, <2>2 DEF Pick, Goto, Executes, TypeOK
  <2>5. Busy' = Busy \union {t}
    BY <2>4 DEF Busy
  <2>6. Lifecycle!Take(t)
    BY <2>1, <2>2, <2>3, <2>5 DEF Lifecycle!Take, Lifecycle!Moves, Busy
  <2> QED
    BY <2>2, <2>6 DEF Lifecycle!Next
<1>2. CASE ExecuteEntry(th)
  <2>1. PICK t \in Task : /\ t = job[th] /\ state[t] \in {"PICKED", "CANCELED"}
                          /\ pc[th] = "entry" /\ UNCHANGED job
    BY <1>2 DEF ExecuteEntry, ExecutorInv, Holds
  <2>2. Executes(th)
    BY <2>1 DEF Executes
  <2>3. CASE pc' = [pc EXCEPT ![th] = "body"] /\ state[t] = "PICKED"
              /\ state' = [state EXCEPT ![t] = "EXECUTING"]
    <3>1. \A x \in Thread : Executes(x)' = Executes(x)
      BY <2>1, <2>3 DEF Executes, TypeOK
    <3>2. Busy' = Busy /\ t \in Busy
      BY <2>1, <2>2, <3>1 DEF Busy
    <3>3. Lifecycle!Run(t)
      BY <2>3, <3>2 DEF Lifecycle!Run, Lifecycle!Moves, Busy
    <3> QED
      BY <2>1, <3>3 DEF Lifecycle!Next
  <2>4. CASE pc' = [pc EXCEPT ![th] = "finished"]
    <3>1. t \in Busy /\ Busy' = Busy \ {t}
      BY <2>1, <2>2, <2>4, LetGo
    <3>2. CASE state[t] = "PICKED" /\ state' = [state EXCEPT ![t] = "TIMEOUT"]
      <4>1. Lifecycle!Expire(t)
        BY <3>1, <3>2 DEF Lifecycle!Expire, Lifecycle!Moves, Busy
      <4> QED
        BY <2>1, <4>1 DEF Lifecycle!Next
    <3>3. CASE state[t] = "CANCELED" /\ UNCHANGED state
      <4>1. Lifecycle!GiveUp(t)
        BY <3>1, <3>3 DEF Lifecycle!GiveUp, Busy
      <4> QED
        BY <2>1, <4>1 DEF Lifecycle!Next
    <3> QED
      BY <1>2, <2>1, <2>4, <3>2, <3>3 DEF ExecuteEntry, Goto, TypeOK
  <2> QED
    BY <1>2, <2>1, <2>3, <2>4 DEF ExecuteEntry, Goto
<1>3. CASE ExecuteDone(th)
  <2>1. PICK t \in Task : /\ t = job[th] /\ state[t] \in {"EXECUTING", "CANCELED"}
                          /\ pc[th] = "body" /\ pc' = [pc EXCEPT ![th] = "finished"]
                          /\ UNCHANGED job
    BY <1>3 DEF ExecuteDone, Goto, ExecutorInv, Holds
  <2>2. t \in Busy /\ Busy' = Busy \ {t}
    BY <2>1, LetGo DEF Executes
  <2>3. CASE state[t] = "CANCELED"
    <3>1. Lifecycle!GiveUp(t)
      BY <1>3, <2>1, <2>2, <2>3 DEF ExecuteDone, Lifecycle!GiveUp, Busy
    <3> QED
      BY <2>1, <3>1 DEF Lifecycle!Next
  <2>4. CASE state[t] = "EXECUTING"
    <3>1. PICK s \in {"WAITING", "SUCCESS", "FAILURE"} : state' = [state EXCEPT ![t] = s]
      BY <1>3, <2>1, <2>4 DEF ExecuteDone
    <3>2. Lifecycle!End(t, s)
      BY <2>2, <2>4, <3>1 DEF Lifecycle!End, Lifecycle!Moves, Busy
    <3> QED
      BY <2>1, <3>2 DEF Lifecycle!Next
  <2> QED
    BY <2>1, <2>3, <2>4
<1> QED
  BY <1>1, <1>2, <1>3

\* Callers that create, start, cancel and free tasks.
LEMMA CallerLifecycle ==
  ASSUME TypeOK, ExecutorInv, StartedInv, NEW t \in Task,
         Construct(t) \/ Start(t) \/ AddTask(t) \/ Elapse(t) \/ Destroy(t) \/ CancelOne(t)
  PROVE  [Lifecycle!Next]_Lifecycle!lvars
<1>1. UNCHANGED <<pc, job>>
  BY DEF Construct, Start, AddTask, Elapse, Destroy, CancelOne, pvars
<1>2. Busy' = Busy
  BY <1>1 DEF Busy, Executes
<1>3. CASE Construct(t)
  <2>1. Lifecycle!Create(t)
    BY <1>2, <1>3 DEF Construct, Lifecycle!Create, Lifecycle!Moves, Busy
  <2> QED
    BY <2>1 DEF Lifecycle!Next
<1>4. CASE Start(t)
  <2>1. Lifecycle!Submit(t)
    BY <1>2, <1>4 DEF Start, Lifecycle!Submit, Lifecycle!Moves, Busy
  <2> QED
    BY <2>1 DEF Lifecycle!Next
<1>5. CASE AddTask(t) \/ Elapse(t)
  BY <1>2, <1>5 DEF AddTask, Elapse, Lifecycle!lvars, Busy
<1>6. CASE Destroy(t)
  <2>1. t \notin Busy
    BY <1>6 DEF Destroy, Busy
  <2>2. Lifecycle!Free(t)
    BY <1>2, <1>6, <2>1 DEF Destroy, Lifecycle!Free, Lifecycle!Live, Busy
  <2> QED
    BY <2>2 DEF Lifecycle!Next
<1>7. CASE CancelOne(t)
  <2>1. state' = [u \in Task |-> IF u \in {t} THEN "CANCELED" ELSE state[u]]
    BY <1>7 DEF CancelOne, TypeOK
  <2>2. Lifecycle!Cancel({t})
    BY <1>2, <1>7, <2>1 DEF CancelOne, Lifecycle!Cancel, Lifecycle!Live, StartedInv,
       Started, Busy
  <2> QED
    BY <2>2 DEF Lifecycle!Next
<1> QED
  BY <1>3, <1>4, <1>5, <1>6, <1>7

LEMMA NextLifecycle ==
  TypeOK /\ ExecutorInv /\ StartedInv /\ [Next]_vars => [Lifecycle!Next]_Lifecycle!lvars
<1> SUFFICES ASSUME TypeOK, ExecutorInv, StartedInv, [Next]_vars
             PROVE  [Lifecycle!Next]_Lifecycle!lvars
  OBVIOUS
<1>1. ASSUME UNCHANGED <<state, pc, job>> PROVE UNCHANGED Lifecycle!lvars
  BY <1>1, StutterLifecycle DEF Executes
<1>2. CASE \E S \in SUBSET Cancelable : CancelFind(S)
  BY <1>1, <1>2 DEF CancelFind, tvars, pvars
<1>3. ASSUME NEW th \in Thread, IterateSpawn(th) PROVE UNCHANGED Lifecycle!lvars
  BY <1>3, StutterLifecycle DEF IterateSpawn, Executes, TypeOK, tvars
<1>4. CASE IterateBegin \/ IterateSkip \/ IterateRequest \/ IterateNoSpawn \/ IterateEnd
  BY <1>1, <1>4 DEF IterateBegin, IterateSkip, IterateRequest, IterateNoSpawn, IterateEnd,
     tvars, pvars
<1>5. CASE CancelAll
  <2> DEFINE S == {t \in Task : InQueue(t)}
  <2>1. \A t \in S : Lifecycle!Live(t)
    BY DEF InQueue, StartedInv, Started, Lifecycle!Live
  <2>2. state' = [t \in Task |-> IF t \in S THEN "CANCELED" ELSE state[t]]
    BY <1>5 DEF CancelAll
  <2>3. Busy' = Busy
    BY <1>5 DEF CancelAll, Busy, Executes, pvars
  <2>4. Lifecycle!Cancel(S)
    BY <2>1, <2>2, <2>3 DEF Lifecycle!Cancel, Busy
  <2> QED
    BY <2>4 DEF Lifecycle!Next
<1>6. CASE Shutdown \/ QueueThreadStopped \/ (\E p \in Pool : Terminate(p)) \/ Done
           \/ UNCHANGED vars
  BY <1>1, <1>6 DEF Shutdown, QueueThreadStopped, Terminate, Done, vars, tvars, pvars
<1> QED
  BY <1>2, <1>3, <1>4, <1>5, <1>6, CallerLifecycle, ExecutionLifecycle,
     BookkeepingLifecycle DEF Next, QueueThread, PoolThread, Deleter

\* The engine implements TaskLifecycle: whatever its queue, its pools and its
\* threads do, a task lives the life that specification promises.
THEOREM LifecycleImplemented == Spec => ImplementsLifecycle
BY InitLifecycle, NextLifecycle, TypeCorrect, ExecutorCorrect, StartedCorrect, PTL
   DEF Spec, ImplementsLifecycle, Lifecycle!Spec

----------------------------------------------------------------------------
(* The queue holds a task once, and finished tasks leave it *)

\* No task is twice in the queue.
Distinct(s) == \A i, j \in 1..Len(s) : s[i] = s[j] => i = j

\* A task that start() has not put into the queue yet is known to nobody else,
\* so neither a thread nor cancel_tasks touches it, and it is put there once.
Unknown(t) ==
  /\ state[t] = "WAITING" /\ ~InQueue(t) /\ t \notin found
  /\ \A th \in Thread : job[th] # t

QueueInv == Distinct(tasks) /\ \A t \in starting : Unknown(t)

\* remove_task takes out what it is given, and nothing else.
LEMMA RemoveDistinct ==
  ASSUME TypeOK, Distinct(tasks), NEW u \in Task, remove_task(u)
  PROVE  /\ Distinct(tasks') /\ ~InQueue(u)'
         /\ \A t \in Task : InQueue(t)' => InQueue(t)
         /\ \A t \in Task : t # u /\ InQueue(t) => InQueue(t)'
<1>1. CASE ~InQueue(u) /\ UNCHANGED tasks
  BY <1>1 DEF InQueue, Distinct
<1>2. ASSUME NEW k \in 1..Len(tasks), tasks[k] = u, tasks' = EraseTask(tasks, k)
      PROVE  /\ Distinct(tasks') /\ ~InQueue(u)'
             /\ \A t \in Task : InQueue(t)' => InQueue(t)
             /\ \A t \in Task : t # u /\ InQueue(t) => InQueue(t)'
  <2> DEFINE n == Len(tasks)
             from(i) == IF i < k THEN i ELSE i + 1
  <2>1. n \in Nat /\ k \in 1..n
    BY DEF TypeOK
  <2>2. Len(tasks') = n - 1 /\ \A i \in 1..(n - 1) : tasks'[i] = tasks[from(i)]
    BY <1>2, EraseType DEF TypeOK
  <2>3. \A i \in 1..(n - 1) : from(i) \in 1..n /\ from(i) # k
    BY <2>1
  <2>4. \A i, j \in 1..(n - 1) : from(i) = from(j) => i = j
    BY <2>1
  <2>5. \A i, j \in 1..n : tasks[i] = tasks[j] => i = j
    BY DEF Distinct
  <2> HIDE DEF n, from
  <2>6. Distinct(tasks')
    BY <2>2, <2>3, <2>4, <2>5 DEF Distinct
  <2>7. ~InQueue(u)'
    BY <1>2, <2>1, <2>2, <2>3, <2>5 DEF InQueue
  <2>8. \A t \in Task : InQueue(t)' => InQueue(t)
    BY <2>2, <2>3 DEF InQueue, n
  <2>9. ASSUME NEW t \in Task, t # u, InQueue(t) PROVE InQueue(t)'
    <3>1. PICK j \in 1..n : tasks[j] = t
      BY <2>9 DEF InQueue, n
    <3>2. j # k
      BY <1>2, <2>9, <3>1
    <3>3. PICK i \in 1..(n - 1) : from(i) = j
      <4>1. CASE j < k
        <5>1. j \in 1..(n - 1) /\ from(j) = j
          BY <2>1, <4>1 DEF from
        <5> QED
          BY <5>1
      <4>2. CASE j > k
        <5>1. j - 1 \in 1..(n - 1) /\ from(j - 1) = j
          BY <2>1, <4>2 DEF from
        <5> QED
          BY <5>1
      <4> QED
        BY <2>1, <3>2, <4>1, <4>2
    <3> QED
      BY <2>2, <3>1, <3>3 DEF InQueue
  <2> QED
    BY <2>6, <2>7, <2>8, <2>9
<1> QED
  BY <1>1, <1>2 DEF remove_task

\* add_task puts in what it is given, and nothing else.
LEMMA AddDistinct ==
  ASSUME TypeOK, Distinct(tasks), NEW u \in Task, AddTask(u), ~InQueue(u)
  PROVE  /\ Distinct(tasks')
         /\ \A t \in Task : InQueue(t)' => InQueue(t) \/ t = u
<1>1. PICK k \in 1..(Len(tasks) + 1) : tasks' = InsertTask(tasks, k, u)
  BY DEF AddTask
<1> DEFINE n == Len(tasks)
           from(i) == IF i < k THEN i ELSE i - 1
<1>2. n \in Nat /\ k \in 1..(n + 1)
  BY DEF TypeOK
<1>3. /\ Len(tasks') = n + 1
      /\ \A i \in 1..(n + 1) : tasks'[i] = IF i = k THEN u ELSE tasks[from(i)]
  <2>1. tasks \in Seq(Task)
    BY DEF TypeOK
  <2>2. /\ Len(tasks') = n + 1
        /\ \A i \in 1..(n + 1) :
             tasks'[i] = IF i < k THEN tasks[i] ELSE IF i = k THEN u ELSE tasks[i - 1]
    BY <1>1, <1>2, <2>1, InsertType
  <2> QED
    BY <1>2, <2>2
<1>4. \A i \in 1..(n + 1) : i # k => from(i) \in 1..n
  BY <1>2
<1>5. \A i, j \in 1..(n + 1) : i # k /\ j # k /\ from(i) = from(j) => i = j
  BY <1>2
<1>6. /\ \A i, j \in 1..n : tasks[i] = tasks[j] => i = j
      /\ \A i \in 1..n : tasks[i] # u
  BY DEF Distinct, InQueue
<1> HIDE DEF n, from
<1>7. ASSUME NEW i \in 1..(n + 1), NEW j \in 1..(n + 1), tasks'[i] = tasks'[j] PROVE i = j
  <2>1. CASE i = k \/ j = k
    BY <1>3, <1>4, <1>6, <1>7, <2>1
  <2>2. CASE i # k /\ j # k
    <3>1. tasks[from(i)] = tasks[from(j)]
      BY <1>3, <1>7, <2>2
    <3>2. from(i) = from(j)
      BY <1>4, <1>6, <2>2, <3>1
    <3> QED
      BY <1>5, <2>2, <3>2
  <2> QED
    BY <2>1, <2>2
<1>8. Distinct(tasks')
  BY <1>3, <1>7 DEF Distinct
<1>9. \A t \in Task : InQueue(t)' => InQueue(t) \/ t = u
  BY <1>3, <1>4 DEF InQueue, n
<1> QED
  BY <1>8, <1>9

LEMMA InitQueueInv == Init => QueueInv
BY DEF Init, QueueInv, Distinct

LEMMA NextQueueInv ==
  TypeOK /\ ExecutorInv /\ StartedInv /\ QueueInv /\ [Next]_vars => QueueInv'
<1> SUFFICES ASSUME TypeOK, ExecutorInv, StartedInv, QueueInv, [Next]_vars PROVE QueueInv'
  OBVIOUS
<1>0. Distinct(tasks) /\ \A t \in starting : t \in Task /\ Unknown(t)
  BY DEF QueueInv, TypeOK
\* A step that lets the queue grow by nothing and leaves the unknown tasks
\* alone.
<1>1. ASSUME starting' \subseteq starting, Distinct(tasks'),
             \A t \in Task : InQueue(t)' => InQueue(t),
             \A t \in starting : state'[t] = state[t],
             found' \subseteq found,
             \A th \in Thread : job'[th] \notin starting
      PROVE  QueueInv'
  BY <1>0, <1>1 DEF QueueInv, Unknown
<1>2. \A th \in Thread : job[th] \notin starting
  BY <1>0 DEF Unknown
<1>3. ASSUME UNCHANGED <<tasks, starting, found, job>>,
             \A t \in starting : state'[t] = state[t]
      PROVE  QueueInv'
  BY <1>0, <1>1, <1>2, <1>3 DEF InQueue
<1>4. ASSUME NEW t \in Task, Construct(t) \/ Destroy(t) \/ Elapse(t) PROVE QueueInv'
  <2>1. UNCHANGED <<tasks, starting, found, job>>
    BY <1>4 DEF Construct, Destroy, Elapse, pvars
  <2>2. \A u \in starting : state'[u] = state[u]
    BY <1>0, <1>4 DEF Construct, Destroy, Elapse, Unknown, TypeOK
  <2> QED
    BY <1>3, <2>1, <2>2
<1>5. ASSUME NEW t \in Task, Start(t) PROVE QueueInv'
  <2>1. /\ state[t] = "INIT" /\ state' = [state EXCEPT ![t] = "WAITING"]
        /\ starting' = starting \union {t} /\ UNCHANGED <<tasks, found, job>>
    BY <1>5 DEF Start, pvars
  <2>2. ~InQueue(t) /\ t \notin found
    BY <2>1 DEF StartedInv, Started, InQueue
  <2>3. \A th \in Thread : job[th] # t
    BY <2>1, ConstantsAssumption DEF ExecutorInv, Holds, TypeOK
  <2>4. \A u \in starting' : Unknown(u)'
    BY <1>0, <2>1, <2>2, <2>3 DEF Unknown, InQueue, TypeOK
  <2> QED
    BY <1>0, <2>1, <2>4 DEF QueueInv
<1>6. ASSUME NEW t \in Task, AddTask(t) PROVE QueueInv'
  <2>1. t \in starting /\ starting' = starting \ {t} /\ UNCHANGED <<state, found, job>>
    BY <1>6 DEF AddTask, pvars
  <2>2. Distinct(tasks') /\ \A u \in Task : InQueue(u)' => InQueue(u) \/ u = t
    BY <1>0, <1>6, <2>1, AddDistinct DEF Unknown
  <2>3. \A u \in starting' : Unknown(u)'
    BY <1>0, <2>1, <2>2 DEF Unknown
  <2> QED
    BY <2>2, <2>3 DEF QueueInv
<1>7. ASSUME NEW t \in Task, CancelOne(t) PROVE QueueInv'
  <2>1. Distinct(tasks') /\ \A u \in Task : InQueue(u)' => InQueue(u)
    BY <1>0, <1>7, RemoveDistinct DEF CancelOne
  <2>2. UNCHANGED <<starting, job>> /\ found' \subseteq found
    BY <1>7 DEF CancelOne, pvars
  <2>3. \A u \in starting : state'[u] = state[u]
    BY <1>0, <1>7 DEF CancelOne, Unknown, TypeOK
  <2> QED
    BY <1>1, <1>2, <2>1, <2>2, <2>3
<1>8. ASSUME NEW S \in SUBSET Cancelable, CancelFind(S) PROVE QueueInv'
  BY <1>0, <1>8 DEF CancelFind, QueueInv, Unknown, InQueue, tvars, pvars
<1>9. ASSUME NEW th \in Thread, Pick(th) PROVE QueueInv'
  <2>1. PICK k \in 1..Len(tasks) : /\ state' = [state EXCEPT ![tasks[k]] = "PICKED"]
                                   /\ job' = [job EXCEPT ![th] = tasks[k]]
    BY <1>9 DEF Pick
  <2>2. tasks[k] \notin starting
    BY <1>0 DEF Unknown, InQueue
  <2>3. UNCHANGED <<starting, tasks, found>>
    BY <1>9 DEF Pick
  <2>4. \A x \in Thread : job'[x] \notin starting
    BY <1>2, <2>1, <2>2 DEF TypeOK
  <2>5. \A u \in starting : state'[u] = state[u]
    BY <2>1, <2>2 DEF TypeOK
  <2> QED
    BY <1>0, <1>1, <2>3, <2>4, <2>5 DEF InQueue
<1>10. ASSUME NEW th \in Thread, ExecuteEntry(th) \/ ExecuteDone(th) PROVE QueueInv'
  <2>1. UNCHANGED <<tasks, starting, found, job>>
    BY <1>10 DEF ExecuteEntry, ExecuteDone
  <2>2. \A u \in starting : state'[u] = state[u]
    BY <1>2, <1>10 DEF ExecuteEntry, ExecuteDone, TypeOK
  <2> QED
    BY <1>3, <2>1, <2>2
<1>11. ASSUME NEW th \in Thread, PostFinished(th) PROVE QueueInv'
  <2>1. job[th] \in Task
    BY <1>11 DEF PostFinished, Goto, ExecutorInv, Holds
  <2>2. Distinct(tasks') /\ \A u \in Task : InQueue(u)' => InQueue(u)
    BY <1>0, <1>11, <2>1, RemoveDistinct DEF PostFinished
  <2>3. UNCHANGED <<state, starting, found, job>>
    BY <1>11 DEF PostFinished, tvars
  <2> QED
    BY <1>1, <1>2, <2>2, <2>3
<1>12. ASSUME NEW th \in Thread, Decide(th) PROVE QueueInv'
  <2>1. UNCHANGED <<state, tasks, starting, found>> /\ job' = [job EXCEPT ![th] = None]
    BY <1>12 DEF Decide, tvars
  <2>2. \A x \in Thread : job'[x] \notin starting
    BY <1>0, <1>2, <2>1, ConstantsAssumption DEF TypeOK
  <2> QED
    BY <1>0, <1>1, <2>1, <2>2 DEF InQueue
<1>13. ASSUME NEW th \in Thread,
             \/ PickNothing(th) \/ FinishedCheck(th) \/ FinishedNotify(th)
             \/ PostAgain(th) \/ ResetRequest(th) \/ Unrequest(th)
             \/ on_thread_finish(th) \/ KeepAliveElapse(th)
      PROVE  QueueInv'
  BY <1>3, <1>13 DEF PickNothing, FinishedCheck, FinishedNotify, PostAgain,
     ResetRequest, Unrequest, on_thread_finish, KeepAliveElapse, tvars
<1>14. CASE QueueThread
  BY <1>3, <1>14 DEF QueueThread, IterateBegin, IterateSkip, IterateRequest, IterateSpawn,
     IterateNoSpawn, IterateEnd, tvars, pvars
<1>15. CASE CancelAll
  <2>1. tasks' = <<>> /\ UNCHANGED <<starting, found, job>>
    BY <1>15 DEF CancelAll, pvars
  <2>2. Distinct(tasks') /\ \A u \in Task : ~InQueue(u)'
    BY <2>1 DEF Distinct, InQueue
  <2>3. \A u \in starting : state'[u] = state[u]
    BY <1>0, <1>15 DEF CancelAll, Unknown
  <2> QED
    BY <1>1, <1>2, <2>1, <2>2, <2>3
<1>16. CASE Shutdown \/ QueueThreadStopped \/ (\E p \in Pool : Terminate(p)) \/ Done
           \/ UNCHANGED vars
  BY <1>3, <1>16 DEF Shutdown, QueueThreadStopped, Terminate, Done, vars, tvars, pvars
<1> QED
  BY <1>4, <1>5, <1>6, <1>7, <1>8, <1>9, <1>10, <1>11, <1>12, <1>13, <1>14, <1>15, <1>16
     DEF Next, PoolThread, Deleter

LEMMA QueueInvCorrect == Spec => []QueueInv
BY InitQueueInv, NextQueueInv, TypeCorrect, ExecutorCorrect, StartedCorrect, PTL DEF Spec

\* However start(), cancel_tasks and the threads that remove and pick tasks
\* meet, a task is at most once in the queue, and only as a started task.
THEOREM QueuedOnceHolds == Spec => []QueuedOnce
<1>1. StartedInv /\ QueueInv => QueuedOnce
  BY DEF StartedInv, Started, QueueInv, Distinct, Unknown, InQueue, QueuedOnce
<1> QED
  BY <1>1, StartedCorrect, QueueInvCorrect, PTL

\* A thread that will take t out of the queue.
Removes(th, t) == job[th] = t /\ pc[th] \in {"finished", "notify", "post"}

LEMMA NextFinishedLeaves ==
  TypeOK /\ ExecutorInv /\ QueueInv /\ FinishedLeaves /\ [Next]_vars => FinishedLeaves'
<1> SUFFICES ASSUME TypeOK, ExecutorInv, QueueInv, FinishedLeaves, [Next]_vars,
                    NEW t \in Task, Finished(t)', InQueue(t)'
             PROVE  \E th \in Thread : Removes(th, t)'
  BY DEF FinishedLeaves, Removes
<1>0. Distinct(tasks) /\ \A u \in starting : u \in Task /\ Unknown(u)
  BY DEF QueueInv, TypeOK
\* The thread that was to remove t still is.
<1>1. ASSUME Finished(t), InQueue(t), \A x \in Thread : Removes(x, t) => Removes(x, t)'
      PROVE  \E th \in Thread : Removes(th, t)'
  BY <1>1 DEF FinishedLeaves, Removes
<1>2. ASSUME UNCHANGED <<pc, job>> PROVE \A x \in Thread : Removes(x, t) => Removes(x, t)'
  BY <1>2 DEF Removes
<1>3. ASSUME NEW u \in Task, Construct(u) \/ Start(u) \/ Destroy(u) \/ Elapse(u)
      PROVE  \E th \in Thread : Removes(th, t)'
  <2>1. UNCHANGED <<tasks, pc, job>>
    BY <1>3 DEF Construct, Start, Destroy, Elapse, pvars
  <2>2. Finished(t)
    BY <1>3 DEF Construct, Start, Destroy, Elapse, Finished, TypeOK
  <2> QED
    BY <1>1, <1>2, <2>1, <2>2 DEF InQueue
<1>4. ASSUME NEW u \in Task, AddTask(u) PROVE \E th \in Thread : Removes(th, t)'
  <2>1. u \in starting /\ UNCHANGED <<state, pc, job>>
    BY <1>4 DEF AddTask, pvars
  <2>2. InQueue(t) \/ t = u
    BY <1>0, <1>4, <2>1, AddDistinct DEF Unknown
  <2>3. Finished(t)
    BY <2>1 DEF Finished
  <2>4. t # u
    BY <1>0, <2>1, <2>3 DEF Finished, Unknown
  <2> QED
    BY <1>1, <1>2, <2>1, <2>2, <2>3, <2>4
<1>5. ASSUME NEW u \in Task, CancelOne(u) PROVE \E th \in Thread : Removes(th, t)'
  <2>1. t # u /\ InQueue(t)
    BY <1>0, <1>5, RemoveDistinct DEF CancelOne
  <2>2. Finished(t) /\ UNCHANGED <<pc, job>>
    BY <1>5, <2>1 DEF CancelOne, Finished, TypeOK, pvars
  <2> QED
    BY <1>1, <1>2, <2>1, <2>2
<1>6. ASSUME UNCHANGED <<state, tasks>>, \A x \in Thread : Removes(x, t) => Removes(x, t)'
      PROVE  \E th \in Thread : Removes(th, t)'
  BY <1>1, <1>6 DEF Finished, InQueue
<1>7. ASSUME NEW S \in SUBSET Cancelable, CancelFind(S)
      PROVE  \E th \in Thread : Removes(th, t)'
  BY <1>2, <1>6, <1>7 DEF CancelFind, tvars, pvars
<1>8. ASSUME NEW th \in Thread, Pick(th) PROVE \E x \in Thread : Removes(x, t)'
  <2>1. Finished(t) /\ UNCHANGED tasks
    BY <1>8 DEF Pick, Finished, TypeOK
  <2>2. \A x \in Thread : Removes(x, t) => Removes(x, t)'
    BY <1>8 DEF Pick, Goto, Removes, TypeOK
  <2> QED
    BY <1>1, <2>1, <2>2 DEF InQueue
<1>9. ASSUME NEW th \in Thread, ExecuteEntry(th) \/ ExecuteDone(th)
      PROVE  \E x \in Thread : Removes(x, t)'
  <2>1. UNCHANGED <<tasks, job>>
    BY <1>9 DEF ExecuteEntry, ExecuteDone
  <2>2. \/ pc' = [pc EXCEPT ![th] = "finished"]
        \/ pc' = [pc EXCEPT ![th] = "body"] /\ state' = [state EXCEPT ![job[th]] = "EXECUTING"]
    BY <1>9 DEF ExecuteEntry, ExecuteDone, Goto
  <2>3. pc[th] \in {"entry", "body"} /\ job[th] \in Task
    BY <1>9 DEF ExecuteEntry, ExecuteDone, Goto, ExecutorInv, Holds
  <2>4. CASE job[th] = t
    BY <2>1, <2>2, <2>3, <2>4 DEF Removes, TypeOK, Finished
  <2>5. CASE job[th] # t
    <3>1. state'[t] = state[t]
      BY <1>9, <2>5 DEF ExecuteEntry, ExecuteDone, TypeOK
    <3>2. \A x \in Thread : Removes(x, t) => Removes(x, t)'
      BY <2>1, <2>2, <2>3 DEF Removes, TypeOK
    <3> QED
      BY <1>1, <2>1, <3>1, <3>2 DEF Finished, InQueue
  <2> QED
    BY <2>4, <2>5
<1>10. ASSUME NEW th \in Thread, PostFinished(th) PROVE \E x \in Thread : Removes(x, t)'
  <2>1. job[th] \in Task
    BY <1>10 DEF PostFinished, Goto, ExecutorInv, Holds
  <2>2. t # job[th] /\ InQueue(t)
    BY <1>0, <1>10, <2>1, RemoveDistinct DEF PostFinished
  <2>3. Finished(t)
    BY <1>10 DEF PostFinished, Finished, tvars
  <2>4. \A x \in Thread : Removes(x, t) => Removes(x, t)'
    BY <1>10, <2>2 DEF PostFinished, Goto, Removes, TypeOK
  <2> QED
    BY <1>1, <2>2, <2>3, <2>4
<1>11. ASSUME NEW th \in Thread, PostAgain(th) PROVE \E x \in Thread : Removes(x, t)'
  <2>1. ~Finished(job[th]) /\ Finished(t) /\ UNCHANGED <<state, tasks, job>>
    BY <1>11 DEF PostAgain, Finished, tvars
  <2>2. \A x \in Thread : Removes(x, t) => Removes(x, t)'
    BY <1>11, <2>1 DEF PostAgain, Goto, Removes, TypeOK
  <2> QED
    BY <1>6, <2>1, <2>2
<1>12. ASSUME NEW th \in Thread, FinishedCheck(th) \/ FinishedNotify(th)
      PROVE  \E x \in Thread : Removes(x, t)'
  <2>1. UNCHANGED <<state, tasks, job>>
    BY <1>12 DEF FinishedCheck, FinishedNotify, tvars
  <2>2. \A x \in Thread : Removes(x, t) => Removes(x, t)'
    BY <1>12, <2>1 DEF FinishedCheck, FinishedNotify, Goto, Removes, TypeOK
  <2> QED
    BY <1>6, <2>1, <2>2
<1>13. ASSUME NEW th \in Thread,
             \/ PickNothing(th) \/ ResetRequest(th) \/ Unrequest(th) \/ Decide(th)
             \/ on_thread_finish(th) \/ KeepAliveElapse(th) \/ IterateSpawn(th)
      PROVE  \E x \in Thread : Removes(x, t)'
  <2>1. UNCHANGED <<state, tasks>>
    BY <1>13 DEF PickNothing, ResetRequest, Unrequest, Decide, on_thread_finish,
       KeepAliveElapse, IterateSpawn, tvars
  <2>2. /\ \A x \in Thread : x # th => pc'[x] = pc[x] /\ job'[x] = job[x]
        /\ pc[th] \in {"finished", "notify", "post"} => UNCHANGED <<pc, job>>
    BY <1>13 DEF PickNothing, ResetRequest, Unrequest, Decide, on_thread_finish,
       KeepAliveElapse, IterateSpawn, Goto, TypeOK
  <2> QED
    BY <1>6, <2>1, <2>2 DEF Removes
<1>14. CASE IterateBegin \/ IterateSkip \/ IterateRequest \/ IterateNoSpawn \/ IterateEnd
  BY <1>2, <1>6, <1>14 DEF IterateBegin, IterateSkip, IterateRequest, IterateNoSpawn,
     IterateEnd, tvars, pvars
<1>15. CASE CancelAll
  BY <1>15 DEF CancelAll, InQueue
<1>16. CASE Shutdown \/ QueueThreadStopped \/ (\E p \in Pool : Terminate(p)) \/ Done
           \/ UNCHANGED vars
  BY <1>2, <1>6, <1>16 DEF Shutdown, QueueThreadStopped, Terminate, Done, vars, tvars, pvars
<1> QED
  BY <1>3, <1>4, <1>5, <1>7, <1>8, <1>9, <1>10, <1>11, <1>12, <1>13, <1>14, <1>15, <1>16
     DEF Next, QueueThread, PoolThread, Deleter

\* A finished task that is still in the queue is held by a thread that is
\* about to remove it: an outcome that is stored, a cancellation and a removal
\* never combine so that a finished task stays behind.
THEOREM FinishedLeavesHolds == Spec => []FinishedLeaves
<1>1. Init => FinishedLeaves
  BY DEF Init, FinishedLeaves, InQueue
<1> QED
  BY <1>1, NextFinishedLeaves, TypeCorrect, ExecutorCorrect, QueueInvCorrect, PTL DEF Spec
=============================================================================
