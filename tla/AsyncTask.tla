------------------------------ MODULE AsyncTask ------------------------------
(***************************************************************************)
(* The asynchronous task engine of supla-server: the tasks                 *)
(* (supla_abstract_asynctask), the queue they wait in and the thread that  *)
(* scans it (supla_asynctask_queue), and the thread pools that execute     *)
(* them (supla_abstract_asynctask_thread_pool).                            *)
(*                                                                         *)
(* A step is what the code does while it holds one lock: the lock of a     *)
(* task, the lck of the queue or the lck of a pool.  The queue's lck is    *)
(* held over several steps in two places, the scan of the queue (qpc) and  *)
(* cancel_tasks (found), and its other users wait meanwhile (QueueFree).   *)
(*                                                                         *)
(* A member of Task is an address a task object can have: it is allocated, *)
(* runs through a task's life, is freed when the last shared_ptr goes and  *)
(* may be allocated again.  requests holds raw pointers, so an address can *)
(* stay there when its task is gone.  A member of Thread is likewise the   *)
(* address of an sthread of the pool Home[th]; the vector `threads' of a   *)
(* pool holds the addresses that are in use.                               *)
(*                                                                         *)
(* Left out: the counters that are only reported (_exec_count,             *)
(* _overload_count, _highest_number_of_threads, last_iterate_time_sec),    *)
(* logging, and hold()/unhold(), which only tests call.  The event eh only *)
(* shortens a wait that ends by itself within a second.                    *)
(***************************************************************************)
EXTENDS Integers, Sequences, FiniteSets

CONSTANTS
  Task,        \* addresses of task objects
  Thread,      \* addresses of pool threads
  Pool,        \* the registered thread pools
  None,        \* a null task pointer
  Home,        \* [Thread -> Pool]
  PoolOf,      \* [Task -> Pool]: get_pool()
  Prio,        \* [Task -> Int]: get_priority(), fixed before start()
  Limit,       \* [Pool -> Nat \ {0}]: thread_count_limit()
  PerThread,   \* [Pool -> Nat]: tasks_per_thread(), 0 is "a thread a request"
  KeepMax,     \* [Pool -> Nat]: keep_alive_max_thread_count, 0 is "never"
  Delayed,     \* tasks with delay_usec > 0
  Timed,       \* tasks with a timeout
  Repeating,   \* tasks whose _execute may ask to be executed again
  Observable,  \* tasks that called set_observable()
  Cancelable   \* tasks some caller's search condition can match

ASSUME ConstantsAssumption ==
  /\ IsFiniteSet(Task) /\ IsFiniteSet(Thread)
  /\ None \notin Task
  /\ Home \in [Thread -> Pool]
  /\ PoolOf \in [Task -> Pool]
  /\ Prio \in [Task -> Int]
  /\ Limit \in [Pool -> Nat \ {0}]
  /\ PerThread \in [Pool -> Nat]
  /\ KeepMax \in [Pool -> Nat]
  /\ Delayed \subseteq Task /\ Timed \subseteq Task /\ Repeating \subseteq Task
  /\ Observable \subseteq Task /\ Cancelable \subseteq Task

VARIABLES
  state,       \* [Task -> TaskState]: the task's state, FREE when unallocated
  due,         \* [Task -> BOOLEAN]: time_left_usec() <= 0
  requested,   \* [Task -> BOOLEAN]: is_execution_requested()
  observer_notified,  \* [Task -> BOOLEAN]
  notices,     \* [Task -> 0..2]: calls of on_asynctask_finished, a history
  starting,    \* tasks inside start(), before add_task()
  tasks,       \* Seq(Task): the queue
  requests,    \* [Pool -> SUBSET Task]: pointers with a pending request
  pc,          \* [Thread -> ThreadPc]
  job,         \* [Thread -> Task or None]: the shared_ptr a thread holds
  fresh,       \* [Thread -> BOOLEAN]: the keep-alive time since last_exec_time runs
  terminated,  \* [Pool -> BOOLEAN]: terminate() was called
  qpc,         \* where the queue's own thread is
  qi,          \* the index of its scan
  req_count,   \* the number of requests it saw
  found,       \* tasks a running cancel_tasks has still to cancel
  main         \* the thread that deletes the queue

tvars == <<state, due, requested, observer_notified, notices, starting>>
pvars == <<pc, job, fresh>>
qvars == <<qpc, qi, req_count>>
vars == <<tvars, tasks, requests, pvars, terminated, qvars, found, main>>

TaskState == {"FREE", "INIT", "WAITING", "PICKED", "EXECUTING", "SUCCESS",
              "FAILURE", "TIMEOUT", "CANCELED"}
ThreadPc  == {"none", "pick", "entry", "body", "finished", "notify", "post",
              "reset", "unrequest", "decide", "exit"}

----------------------------------------------------------------------------
(* Helpers *)

\* supla_abstract_asynctask::is_finished
Finished(t) == state[t] \in {"SUCCESS", "FAILURE", "TIMEOUT", "CANCELED"}

\* pool->threads: from sthread_run to on_thread_finish
threads(p) == {th \in Thread : Home[th] = p /\ pc[th] # "none"}

\* nobody holds the lck of the queue over several steps
QueueFree == qpc \notin {"scan", "spawn"} /\ found = {}

\* the tasks of a sequence of tasks
InQueue(t) == \E i \in 1..Len(tasks) : tasks[i] = t

\* vector::insert and vector::erase
InsertTask(s, k, t) ==
  [i \in 1..(Len(s) + 1) |->
     IF i < k THEN s[i] ELSE IF i = k THEN t ELSE s[i - 1]]
EraseTask(s, k) ==
  [i \in 1..(Len(s) - 1) |-> IF i < k THEN s[i] ELSE s[i + 1]]

\* queue->remove_task: erases the first occurrence, if there is one
remove_task(t) ==
  \/ \E k \in 1..Len(tasks) :
       /\ tasks[k] = t
       /\ \A j \in 1..(k - 1) : tasks[j] # t
       /\ tasks' = EraseTask(tasks, k)
  \/ ~InQueue(t) /\ UNCHANGED tasks

----------------------------------------------------------------------------
Init ==
  /\ state = [t \in Task |-> "FREE"]
  /\ due = [t \in Task |-> FALSE]
  /\ requested = [t \in Task |-> FALSE]
  /\ observer_notified = [t \in Task |-> FALSE]
  /\ notices = [t \in Task |-> 0]
  /\ starting = {}
  /\ tasks = <<>>
  /\ requests = [p \in Pool |-> {}]
  /\ pc = [th \in Thread |-> "none"]
  /\ job = [th \in Thread |-> None]
  /\ fresh = [th \in Thread |-> FALSE]
  /\ terminated = [p \in Pool |-> FALSE]
  /\ qpc = "wait" /\ qi = 0 /\ req_count = 0
  /\ found = {}
  /\ main = "run"

----------------------------------------------------------------------------
(* The life of a task object *)

\* A caller constructs a task: nobody else knows it before start().  While
\* the queue is being deleted a task that is executed, or a thread of the MQTT
\* clients, still may.
Construct(t) ==
  /\ main # "done"
  /\ state[t] = "FREE"
  /\ state' = [state EXCEPT ![t] = "INIT"]
  /\ due' = [due EXCEPT ![t] = t \notin Delayed]
  /\ requested' = [requested EXCEPT ![t] = FALSE]
  /\ observer_notified' = [observer_notified EXCEPT ![t] = FALSE]
  /\ notices' = [notices EXCEPT ![t] = 0]
  /\ UNCHANGED <<starting, tasks, requests, pvars, terminated, qvars, found, main>>

\* Mutant of Start: a task can be started again.
StartAgain(t) ==
  /\ state[t] # "FREE"
  /\ state' = [state EXCEPT ![t] = "WAITING"]
  /\ starting' = starting \union {t}
  /\ UNCHANGED <<due, requested, observer_notified, notices, tasks, requests,
                 pvars, terminated, qvars, found, main>>

\* start(), up to the call of add_task().
Start(t) ==
  /\ state[t] = "INIT"
  /\ state' = [state EXCEPT ![t] = "WAITING"]
  /\ starting' = starting \union {t}
  /\ UNCHANGED <<due, requested, observer_notified, notices, tasks, requests,
                 pvars, terminated, qvars, found, main>>

\* Mutant of AddTask: the task is appended whatever its priority.
AddTaskLast(t) ==
  /\ t \in starting
  /\ QueueFree
  /\ tasks' = Append(tasks, t)
  /\ starting' = starting \ {t}
  /\ UNCHANGED <<state, due, requested, observer_notified, notices, requests,
                 pvars, terminated, qvars, found, main>>

\* add_task(): before the first task of a lower priority, else at the end.
AddTask(t) ==
  /\ t \in starting
  /\ QueueFree
  /\ \E k \in 1..(Len(tasks) + 1) :
       /\ \A j \in 1..(k - 1) : Prio[tasks[j]] >= Prio[t]
       /\ k <= Len(tasks) => Prio[tasks[k]] < Prio[t]
       /\ tasks' = InsertTask(tasks, k, t)
  /\ starting' = starting \ {t}
  /\ UNCHANGED <<state, due, requested, observer_notified, notices, requests,
                 pvars, terminated, qvars, found, main>>

\* The delay of a task runs out.
Elapse(t) ==
  /\ state[t] # "FREE" /\ ~due[t]
  /\ due' = [due EXCEPT ![t] = TRUE]
  /\ UNCHANGED <<state, requested, observer_notified, notices, starting, tasks,
                 requests, pvars, terminated, qvars, found, main>>

\* queue->on_task_finished(): the observers hear of the end of t.
Notify(t) ==
  /\ observer_notified' = [observer_notified EXCEPT ![t] = TRUE]
  /\ notices' = [notices EXCEPT ![t] = IF @ < 2 THEN @ + 1 ELSE @]

\* Mutant of Destroy: the destructor does not notify.
DestroySilently(t) ==
  /\ state[t] \notin {"FREE", "INIT"}
  /\ t \notin starting /\ t \notin found /\ ~InQueue(t)
  /\ \A th \in Thread : job[th] # t
  /\ state' = [state EXCEPT ![t] = "FREE"]
  /\ UNCHANGED <<due, requested, observer_notified, notices, starting, tasks, requests,
                 pvars, terminated, qvars, found, main>>

\* Mutant of Destroy: a thread's pointer does not keep its task alive.
DestroyUnderThread(t) ==
  /\ state[t] \notin {"FREE", "INIT"}
  /\ t \notin starting /\ t \notin found /\ ~InQueue(t)
  /\ state' = [state EXCEPT ![t] = "FREE"]
  /\ UNCHANGED <<due, requested, observer_notified, notices, starting, tasks, requests,
                 pvars, terminated, qvars, found, main>>

\* The last shared_ptr goes: the destructor notifies the observers if
\* execute() did not, and the address is free.
Destroy(t) ==
  /\ state[t] \notin {"FREE", "INIT"}
  /\ t \notin starting /\ t \notin found /\ ~InQueue(t)
  /\ \A th \in Thread : job[th] # t
  /\ IF t \in Observable /\ ~observer_notified[t]
       THEN Notify(t) ELSE UNCHANGED <<observer_notified, notices>>
  /\ state' = [state EXCEPT ![t] = "FREE"]
  /\ UNCHANGED <<due, requested, starting, tasks, requests, pvars, terminated,
                 qvars, found, main>>

----------------------------------------------------------------------------
(* cancel_tasks(cnd), with the lck of the queue held from the search on.   *)

\* The tasks that meet the condition are collected.
CancelFind(S) ==
  /\ QueueFree
  /\ S # {} /\ \A t \in S : InQueue(t)
  /\ found' = S
  /\ UNCHANGED <<tvars, tasks, requests, pvars, terminated, qvars, main>>

\* One of them is cancelled and removed from the queue.  The pool keeps its
\* request.
CancelOne(t) ==
  /\ t \in found
  /\ state' = [state EXCEPT ![t] = "CANCELED"]
  /\ remove_task(t)
  /\ found' = found \ {t}
  /\ UNCHANGED <<due, requested, observer_notified, notices, starting, requests,
                 pvars, terminated, qvars, main>>

----------------------------------------------------------------------------
(* The queue's thread: loop() and iterate()                                *)

\* Mutant of IterateBegin: the scan starts one index too early.
IterateBeginEarly ==
  /\ qpc = "wait" /\ found = {} /\ main = "run"
  /\ qpc' = "scan" /\ qi' = 0
  /\ UNCHANGED <<tvars, tasks, requests, pvars, terminated, req_count, found, main>>

\* The wait for the event or for the next task ends; the queue is locked.
IterateBegin ==
  /\ qpc = "wait" /\ found = {} /\ main = "run"
  /\ qpc' = "scan" /\ qi' = 1
  /\ UNCHANGED <<tvars, tasks, requests, pvars, terminated, req_count, found, main>>

\* A task of the queue that waits, is due and has not been requested yet.
ToRequest(t) == ~requested[t] /\ state[t] = "WAITING" /\ due[t]

\* The scan passes a task, or the pool is terminated.
IterateSkip ==
  /\ qpc = "scan" /\ qi <= Len(tasks)
  /\ ~ToRequest(tasks[qi]) \/ terminated[PoolOf[tasks[qi]]]
  /\ qi' = qi + 1
  /\ UNCHANGED <<tvars, tasks, requests, pvars, terminated, qpc, req_count, found, main>>

\* execution_request(), its first locked section: a request that is already
\* there ends the call.
IterateRequest ==
  /\ qpc = "scan" /\ qi <= Len(tasks)
  /\ LET t == tasks[qi]  p == PoolOf[t] IN
       /\ ToRequest(t) /\ ~terminated[p]
       /\ IF t \in requests[p]
            THEN /\ qi' = qi + 1
                 /\ UNCHANGED <<requested, requests, qpc, req_count>>
            ELSE /\ requested' = [requested EXCEPT ![t] = TRUE]
                 /\ requests' = [requests EXCEPT ![p] = @ \union {t}]
                 /\ req_count' = Cardinality(requests[p]) + 1
                 /\ qpc' = "spawn"
                 /\ UNCHANGED qi
  /\ UNCHANGED <<state, due, observer_notified, notices, starting, tasks, pvars,
                 terminated, found, main>>

\* Mutant of NeedsThread: one thread above the limit.
NeedsThreadAtLimit(p) ==
  LET n == Cardinality(threads(p)) IN
    /\ n <= Limit[p]
    /\ PerThread[p] = 0 \/ req_count > PerThread[p] * n

\* The condition under which execution_request() starts a thread.
NeedsThread(p) ==
  LET n == Cardinality(threads(p)) IN
    /\ n < Limit[p]
    /\ PerThread[p] = 0 \/ req_count > PerThread[p] * n

\* execution_request(), its second locked section: a thread is started...
IterateSpawn(th) ==
  /\ qpc = "spawn" /\ pc[th] = "none" /\ Home[th] = PoolOf[tasks[qi]]
  /\ NeedsThread(Home[th])
  /\ pc' = [pc EXCEPT ![th] = "pick"]
  /\ qpc' = "scan" /\ qi' = qi + 1 /\ req_count' = 0
  /\ UNCHANGED <<tvars, tasks, requests, job, fresh, terminated, found, main>>

\* ... or the threads there are have to do.
IterateNoSpawn ==
  /\ qpc = "spawn" /\ ~NeedsThread(PoolOf[tasks[qi]])
  /\ qpc' = "scan" /\ qi' = qi + 1 /\ req_count' = 0
  /\ UNCHANGED <<tvars, tasks, requests, pvars, terminated, found, main>>

\* The end of the scan: the lck is released.
IterateEnd ==
  /\ qpc = "scan" /\ qi > Len(tasks)
  /\ qpc' = "wait" /\ qi' = 0
  /\ UNCHANGED <<tvars, tasks, requests, pvars, terminated, req_count, found, main>>

----------------------------------------------------------------------------
(* A pool thread: execute(), with the task's execute() in it               *)

Goto(th, from, to) == pc[th] = from /\ pc' = [pc EXCEPT ![th] = to]

\* Mutant of Pickable: a task that is not waiting can be picked.
PickableBusy(t, p) == PoolOf[t] = p /\ due[t]

\* The condition of queue->pick(pool).
Pickable(t, p) == state[t] = "WAITING" /\ PoolOf[t] = p /\ due[t]

\* queue->pick(): the first task of the queue that can be picked.
Pick(th) ==
  /\ QueueFree
  /\ Goto(th, "pick", "entry")
  /\ \E k \in 1..Len(tasks) :
       /\ Pickable(tasks[k], Home[th])
       /\ \A j \in 1..(k - 1) : ~Pickable(tasks[j], Home[th])
       /\ state' = [state EXCEPT ![tasks[k]] = "PICKED"]
       /\ job' = [job EXCEPT ![th] = tasks[k]]
  /\ UNCHANGED <<due, requested, observer_notified, notices, starting, tasks,
                 requests, fresh, terminated, qvars, found, main>>

\* No task: the thread sleeps PICK_RETRY_DELAY_USEC.
PickNothing(th) ==
  /\ QueueFree
  /\ Goto(th, "pick", "decide")
  /\ \A k \in 1..Len(tasks) : ~Pickable(tasks[k], Home[th])
  /\ UNCHANGED <<tvars, tasks, requests, job, fresh, terminated, qvars, found, main>>

\* Mutant of ExecuteEntry: a task cancelled after the pick is executed.
ExecuteEntryAnyState(th) ==
  LET t == job[th] IN
  /\ Goto(th, "entry", "body")
  /\ state' = [state EXCEPT ![t] = "EXECUTING"]
  /\ UNCHANGED <<due, requested, observer_notified, notices, starting, tasks,
                 requests, job, fresh, terminated, qvars, found, main>>

\* The task's execute(), first locked section: a task that was cancelled
\* after the pick is not executed, a task that is too late times out.
ExecuteEntry(th) ==
  LET t == job[th] IN
  /\ pc[th] = "entry"
  /\ \/ /\ state[t] = "PICKED"
        /\ Goto(th, "entry", "body")
        /\ state' = [state EXCEPT ![t] = "EXECUTING"]
     \/ /\ state[t] = "PICKED" /\ t \in Timed
        /\ Goto(th, "entry", "finished")
        /\ state' = [state EXCEPT ![t] = "TIMEOUT"]
     \/ /\ state[t] # "PICKED"
        /\ Goto(th, "entry", "finished")
        /\ UNCHANGED state
  /\ UNCHANGED <<due, requested, observer_notified, notices, starting, tasks,
                 requests, job, fresh, terminated, qvars, found, main>>

\* Mutant of ExecuteDone: the outcome is stored over a cancellation.
ExecuteDoneOverCancel(th) ==
  LET t == job[th] IN
  /\ Goto(th, "body", "finished")
  /\ \E s \in {"SUCCESS", "FAILURE"} : state' = [state EXCEPT ![t] = s]
  /\ UNCHANGED <<due, requested, observer_notified, notices, starting, tasks, requests,
                 job, fresh, terminated, qvars, found, main>>

\* _execute() returned: its outcome is stored, unless the task was cancelled
\* meanwhile.  A task to be executed again gets a new start time.
ExecuteDone(th) ==
  LET t == job[th] IN
  /\ Goto(th, "body", "finished")
  /\ IF state[t] = "CANCELED"
       THEN UNCHANGED <<state, due>>
       ELSE \/ /\ t \in Repeating
               /\ state' = [state EXCEPT ![t] = "WAITING"]
               /\ due' = [due EXCEPT ![t] = t \notin Delayed]
            \/ /\ \E s \in {"SUCCESS", "FAILURE"} : state' = [state EXCEPT ![t] = s]
               /\ UNCHANGED due
  /\ UNCHANGED <<requested, observer_notified, notices, starting, tasks, requests,
                 job, fresh, terminated, qvars, found, main>>

\* The end of the task's execute(): is_finished(), is_observable() and
\* observer_notified are read ...
FinishedCheck(th) ==
  LET t == job[th] IN
  /\ Goto(th, "finished",
          IF Finished(t) /\ t \in Observable /\ ~observer_notified[t]
            THEN "notify" ELSE "post")
  /\ UNCHANGED <<tvars, tasks, requests, job, fresh, terminated, qvars, found, main>>

\* ... and the observers are notified, without a lock in between.
FinishedNotify(th) ==
  /\ Goto(th, "notify", "post")
  /\ Notify(job[th])
  /\ UNCHANGED <<state, due, requested, starting, tasks, requests, job, fresh,
                 terminated, qvars, found, main>>

\* Mutant of PostFinished: the finished task is not removed.
PostFinishedKeep(th) ==
  /\ QueueFree
  /\ Goto(th, "post", "unrequest")
  /\ Finished(job[th])
  /\ UNCHANGED <<tvars, tasks, requests, job, fresh, terminated, qvars, found, main>>

\* A finished task leaves the queue.
PostFinished(th) ==
  /\ QueueFree
  /\ Goto(th, "post", "unrequest")
  /\ Finished(job[th])
  /\ remove_task(job[th])
  /\ UNCHANGED <<tvars, requests, job, fresh, terminated, qvars, found, main>>

\* Any other task is to be requested again: is_finished() is false ...
PostAgain(th) ==
  /\ Goto(th, "post", "reset")
  /\ ~Finished(job[th])
  /\ UNCHANGED <<tvars, tasks, requests, job, fresh, terminated, qvars, found, main>>

\* ... and the request time is reset.
ResetRequest(th) ==
  /\ Goto(th, "reset", "unrequest")
  /\ requested' = [requested EXCEPT ![job[th]] = FALSE]
  /\ UNCHANGED <<state, due, observer_notified, notices, starting, tasks,
                 requests, job, fresh, terminated, qvars, found, main>>

\* The pool's remove_task(), and last_exec_time.
Unrequest(th) ==
  /\ Goto(th, "unrequest", "decide")
  /\ requests' = [requests EXCEPT ![Home[th]] = @ \ {job[th]}]
  /\ fresh' = [fresh EXCEPT ![th] = KeepMax[Home[th]] > 0]
  /\ UNCHANGED <<tvars, tasks, job, terminated, qvars, found, main>>

\* Mutant of KeepsIterating: the thread does not look at its termination.
KeepsIteratingOn(th) ==
  LET p == Home[th]  n == Cardinality(threads(p)) IN
    n <= Cardinality(requests[p]) \/ (fresh[th] /\ n <= KeepMax[p])

\* The condition of the loop.
KeepsIterating(th) ==
  LET p == Home[th]  n == Cardinality(threads(p)) IN
    /\ ~terminated[p]
    /\ n <= Cardinality(requests[p]) \/ (fresh[th] /\ n <= KeepMax[p])

\* The loop goes on or ends, and the thread drops its shared_ptr.
Decide(th) ==
  /\ Goto(th, "decide", IF KeepsIterating(th) THEN "pick" ELSE "exit")
  /\ job' = [job EXCEPT ![th] = None]
  /\ UNCHANGED <<tvars, tasks, requests, fresh, terminated, qvars, found, main>>

\* The keep-alive time since the last execution runs out.
KeepAliveElapse(th) ==
  /\ fresh[th]
  /\ fresh' = [fresh EXCEPT ![th] = FALSE]
  /\ UNCHANGED <<tvars, tasks, requests, pc, job, terminated, qvars, found, main>>

\* Mutant of on_thread_finish: the requests outlive the last thread.
on_thread_finish_keep(th) ==
  /\ Goto(th, "exit", "none")
  /\ fresh' = [fresh EXCEPT ![th] = FALSE]
  /\ UNCHANGED <<tvars, tasks, requests, job, terminated, qvars, found, main>>

\* on_thread_finish(): the last thread drops every request.
on_thread_finish(th) ==
  LET p == Home[th] IN
  /\ Goto(th, "exit", "none")
  /\ fresh' = [fresh EXCEPT ![th] = FALSE]
  /\ requests' = IF threads(p) = {th} THEN [requests EXCEPT ![p] = {}] ELSE requests
  /\ UNCHANGED <<tvars, tasks, job, terminated, qvars, found, main>>

----------------------------------------------------------------------------
(* The destructor of the queue                                             *)

\* The queue's thread is told to stop ...
Shutdown ==
  /\ main = "run"
  /\ main' = "join"
  /\ UNCHANGED <<tvars, tasks, requests, pvars, terminated, qvars, found>>

\* ... and leaves its loop between two scans.
QueueThreadStopped ==
  /\ main = "join" /\ qpc = "wait"
  /\ main' = "pools" /\ qpc' = "stopped"
  /\ UNCHANGED <<tvars, tasks, requests, pvars, terminated, qi, req_count, found>>

\* pool->terminate(): one pool at a time, its threads are waited for.
Terminate(p) ==
  /\ main = "pools" /\ ~terminated[p]
  /\ \A q \in Pool : terminated[q] => threads(q) = {}
  /\ terminated' = [terminated EXCEPT ![p] = TRUE]
  /\ UNCHANGED <<tvars, tasks, requests, pvars, qvars, found, main>>

\* No pool is left: the tasks that never ran are cancelled.  Assumption: no
\* thread has a task that it is about to start, which would meet a deleted
\* queue.
CancelAll ==
  /\ main = "pools" /\ found = {}
  /\ starting = {} /\ \A t \in Task : state[t] # "INIT"
  /\ \A p \in Pool : terminated[p] /\ threads(p) = {}
  /\ state' = [t \in Task |-> IF InQueue(t) THEN "CANCELED" ELSE state[t]]
  /\ tasks' = <<>>
  /\ main' = "done"
  /\ UNCHANGED <<due, requested, observer_notified, notices, starting, requests,
                 pvars, terminated, qvars, found>>

\* The queue is gone.
Done == main = "done" /\ UNCHANGED vars

----------------------------------------------------------------------------
QueueThread ==
  \/ IterateBegin \/ IterateSkip \/ IterateRequest
  \/ \E th \in Thread : IterateSpawn(th)
  \/ IterateNoSpawn \/ IterateEnd

PoolThread(th) ==
  \/ Pick(th) \/ PickNothing(th) \/ ExecuteEntry(th) \/ ExecuteDone(th)
  \/ FinishedCheck(th) \/ FinishedNotify(th) \/ PostFinished(th) \/ PostAgain(th)
  \/ ResetRequest(th) \/ Unrequest(th) \/ Decide(th) \/ on_thread_finish(th)

Deleter == QueueThreadStopped \/ (\E p \in Pool : Terminate(p)) \/ CancelAll

Next ==
  \/ \E t \in Task :
       Construct(t) \/ Start(t) \/ AddTask(t) \/ Elapse(t) \/ Destroy(t) \/ CancelOne(t)
  \/ \E S \in SUBSET Cancelable : CancelFind(S)
  \/ QueueThread
  \/ \E th \in Thread : PoolThread(th) \/ KeepAliveElapse(th)
  \/ Shutdown \/ Deleter \/ Done

Spec == Init /\ [][Next]_vars

\* Every thread of the program runs, a lock that is released again and again
\* is obtained in the end (the queue's thread sleeps at least 10 ms between
\* two scans), _execute() returns, a task that is constructed is started, and time
\* passes.
Fairness ==
  /\ WF_vars(QueueThread)
  /\ \A th \in Thread : SF_vars(PoolThread(th)) /\ WF_vars(KeepAliveElapse(th))
  /\ \A t \in Task : /\ WF_vars(Start(t)) /\ SF_vars(AddTask(t)) /\ WF_vars(CancelOne(t))
                     /\ WF_vars(Elapse(t)) /\ WF_vars(Destroy(t))
  /\ SF_vars(Deleter)

FairSpec == Spec /\ Fairness

----------------------------------------------------------------------------
(* Properties *)

TypeOK ==
  /\ state \in [Task -> TaskState]
  /\ due \in [Task -> BOOLEAN]
  /\ requested \in [Task -> BOOLEAN]
  /\ observer_notified \in [Task -> BOOLEAN]
  /\ notices \in [Task -> 0..2]
  /\ starting \subseteq Task
  /\ tasks \in Seq(Task)
  /\ requests \in [Pool -> SUBSET Task]
  /\ pc \in [Thread -> ThreadPc]
  /\ job \in [Thread -> Task \union {None}]
  /\ fresh \in [Thread -> BOOLEAN]
  /\ terminated \in [Pool -> BOOLEAN]
  /\ qpc \in {"wait", "scan", "spawn", "stopped"}
  /\ qi \in Nat /\ req_count \in Nat
  /\ qpc \in {"scan", "spawn"} => qi > 0
  /\ found \subseteq Task
  /\ main \in {"run", "join", "pools", "done"}

\* A pool never has more threads than thread_count_limit(), although threads
\* end on their own while the queue's thread counts them.
ThreadLimit == \A p \in Pool : Cardinality(threads(p)) <= Limit[p]

\* A thread executes job[th], or is about to.
Executes(th) == pc[th] \in {"entry", "body"}

\* No two threads execute the same task at the same time: pick() hands a
\* task to one thread, also while the thread that executed it before is
\* still busy with its removal or its new request.
OneExecutor ==
  \A a, b \in Thread :
    Executes(a) /\ Executes(b) /\ job[a] = job[b] => a = b

\* A pool with a pending request has a thread, or the queue's thread is about
\* to start one: execution_request() never has to log "There are %i task(s)
\* in the %s pool but there are no threads".
RequestsHaveThreads ==
  \A p \in Pool :
    requests[p] # {} =>
      threads(p) # {} \/ (qpc = "spawn" /\ PoolOf[tasks[qi]] = p)

\* The queue is ordered by priority, so pick() prefers the higher one,
\* whatever is added, removed and cancelled meanwhile.
QueueOrdered ==
  \A i, j \in 1..Len(tasks) : i < j => Prio[tasks[i]] >= Prio[tasks[j]]

\* A task is at most once in the queue, and only as a started task.
QueuedOnce ==
  /\ \A i, j \in 1..Len(tasks) : tasks[i] = tasks[j] => i = j
  /\ \A i \in 1..Len(tasks) : state[tasks[i]] \notin {"FREE", "INIT"}
                            /\ tasks[i] \notin starting

\* A finished task that is still in the queue is in the hands of a thread
\* that will remove it: no finished task stays in the queue for good.
FinishedLeaves ==
  \A t \in Task :
    Finished(t) /\ InQueue(t) =>
      \E th \in Thread : job[th] = t /\ pc[th] \in {"finished", "notify", "post"}

\* The observers hear of the end of a task at most once.
NotifiedOnce == \A t \in Task : notices[t] <= 1

\* A cancelled task is never started, picked or given another outcome, even
\* when it is cancelled while a thread executes it.
CanceledIsFinal ==
  [][\A t \in Task : state[t] = "CANCELED" => state'[t] \in {"CANCELED", "FREE"}]_vars

\* Once a task is finished it never waits or runs again.
FinishedIsFinal ==
  [][\A t \in Task : Finished(t) => Finished(t)' \/ state'[t] = "FREE"]_vars

\* The engine implements the life of a task that TaskLifecycle promises: a
\* task is busy while a thread is between pick() and the end of _execute().
Lifecycle == INSTANCE TaskLifecycle
               WITH life <- state, busy <- {job[th] : th \in {x \in Thread : Executes(x)}}
ImplementsLifecycle == Lifecycle!Spec

\* The destructor of the queue returns: the threads of every pool end.
ShutdownCompletes == main = "join" ~> main = "done"

\* The observers of a cancelled task hear of its end, be it from the thread
\* that was executing it or from the destructor.
CancelIsNotified ==
  \A t \in Observable : state[t] = "CANCELED" ~> notices[t] > 0

\* When no task is left, the threads of the pools end.
IdlePoolStops ==
  <>[](tasks = <<>>) => <>[](\A p \in Pool : threads(p) = {})

\* A task that was started is picked by a thread, or cancelled.
StartedIsPicked ==
  \A t \in Task : state[t] = "WAITING" ~> state[t] # "WAITING"
=============================================================================
