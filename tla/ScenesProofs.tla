---------------------------- MODULE ScenesProofs ----------------------------
(***************************************************************************)
(* Proofs about Scenes, for any scenes, gates, tasks and requesters: types,*)
(* the queue, the paths of scenes that start each other, and what is left  *)
(* of a scene that was interrupted.                                        *)
(***************************************************************************)
EXTENDS Scenes, ListsProofs

LifeValues == {"FREE", "WAITING", "PICKED", "EXECUTING", "SUCCESS", "FAILURE", "CANCELED"}
Ops == [Actor -> Op \union {None}]
Pcs == [Actor -> Pc]

\* Where the thread of a task is, and what it executes: only a taken task has
\* one, only scenes execute operations, and none on a scene among its callers.
ActInv ==
  \A t \in Task :
    /\ pc[t] # "idle" => t \in busy /\ life[t] \in {"EXECUTING", "CANCELED"}
    /\ op[t] # None => /\ pc[t] \notin {"idle", "pop", "next"}
                       /\ task[t].subject \in Scene /\ Allowed(t, op[t])
    /\ task[t].subject \in Gate => task[t].left = <<>>

----------------------------------------------------------------------------
(* The steps of an actor *)

LEMMA ActorType == Task \subseteq Actor /\ Requester \subseteq Actor
BY DEF Actor

LEMMA OpType ==
  ASSUME NEW o \in Op
  PROVE  /\ o # None /\ o.do \in {"execute", "interrupt", "restart", "open", "close", "toggle"}
         /\ o.do \in {"execute", "interrupt", "restart"} => o.on \in Scene
         /\ o.do \in {"open", "close", "toggle"} => o.on \in Gate
BY ScenesAssumption DEF Op

LEMMA AtType ==
  ASSUME op \in Ops, NEW a \in Actor, NEW s, NEW dos, At(a, s, dos)
  PROVE  /\ pc[a] = s /\ op[a] \in Op /\ op[a].do \in dos
         /\ op[a].do \in {"execute", "interrupt", "restart"} => op[a].on \in Scene
         /\ op[a].do \in {"open", "close", "toggle"} => op[a].on \in Gate
<1>1. op[a] \in Op
  BY DEF Ops, At
<1> QED
  BY <1>1, OpType DEF At

LEMMA GoType ==
  ASSUME pc \in Pcs, NEW a \in Actor, NEW to \in Pc, Go(a, to)
  PROVE  pc' \in Pcs /\ pc'[a] = to /\ \A b \in Actor : b # a => pc'[b] = pc[b]
BY DEF Go, Pcs

\* An actor that is done with an action, and one that begins one.
LEMMA DoneType ==
  ASSUME pc \in Pcs, op \in Ops, NEW a \in Actor, Done(a)
  PROVE  /\ pc' \in Pcs /\ op' \in Ops /\ op'[a] = None
         /\ a \in Task => pc'[a] = "next"
         /\ \A b \in Actor : b # a => pc'[b] = pc[b] /\ op'[b] = op[b]
<1>1. (IF a \in Task THEN "next" ELSE "idle") \in Pc
  BY DEF Pc
<1>2. Go(a, IF a \in Task THEN "next" ELSE "idle") /\ op' = [op EXCEPT ![a] = None]
  BY DEF Done
<1>3. /\ pc' \in Pcs /\ pc'[a] = (IF a \in Task THEN "next" ELSE "idle")
      /\ \A b \in Actor : b # a => pc'[b] = pc[b]
  BY <1>1, <1>2, GoType
<1>4. op' \in Ops /\ op'[a] = None /\ \A b \in Actor : b # a => op'[b] = op[b]
  BY <1>2 DEF Ops
<1> QED
  BY <1>3, <1>4

LEMMA PerformType ==
  ASSUME pc \in Pcs, op \in Ops, NEW a \in Actor, NEW o \in Op, Perform(a, o)
  PROVE  /\ pc' \in Pcs /\ op' \in Ops /\ op'[a] = o
         /\ pc'[a] \in {"active", "running", "cancel", "exists"}
         /\ \A b \in Actor : b # a => pc'[b] = pc[b] /\ op'[b] = op[b]
<1>1. First(o) \in {"active", "running", "cancel", "exists"} /\ First(o) \in Pc
  BY OpType DEF First, Pc
<1>2. Go(a, First(o)) /\ op' = [op EXCEPT ![a] = o]
  BY DEF Perform
<1>3. pc' \in Pcs /\ pc'[a] = First(o) /\ \A b \in Actor : b # a => pc'[b] = pc[b]
  BY <1>1, <1>2, GoType
<1>4. op' \in Ops /\ op'[a] = o /\ \A b \in Actor : b # a => op'[b] = op[b]
  BY <1>2 DEF Ops
<1> QED
  BY <1>1, <1>3, <1>4

\* A step of actor a that leaves it where ActInv allows: it goes on with its
\* operation, it is done with it, or it begins one.
Goes(a) ==
  /\ pc' \in Pcs /\ op' \in Ops
  /\ \A b \in Actor : b # a => pc'[b] = pc[b] /\ op'[b] = op[b]
  /\ a \in Task =>
       \/ pc'[a] \notin {"idle", "pop", "next"} /\ op'[a] = op[a]
       \/ pc'[a] = "next" /\ op'[a] = None

LEMMA GoGoes ==
  ASSUME pc \in Pcs, op \in Ops, NEW a \in Actor, NEW to \in Pc,
         to \notin {"idle", "pop", "next"}, Go(a, to), UNCHANGED op
  PROVE  Goes(a)
BY GoType DEF Goes

LEMMA DoneGoes ==
  ASSUME pc \in Pcs, op \in Ops, NEW a \in Actor, Done(a)
  PROVE  Goes(a)
BY DoneType DEF Goes

LEMMA AfterInterruptGoes ==
  ASSUME pc \in Pcs, op \in Ops, NEW a \in Actor, AfterInterrupt(a)
  PROVE  Goes(a)
<1>1. "start" \in Pc /\ "start" \notin {"idle", "pop", "next"}
  BY DEF Pc
<1> QED
  BY <1>1, GoGoes, DoneGoes DEF AfterInterrupt

----------------------------------------------------------------------------
(* The queue *)

\* cancel_tasks() takes what it cancels out of the queue.
LEMMA CancelProps ==
  ASSUME life \in [Task -> LifeValues], queue \in Seq(Task), NEW S, cancel_tasks(S)
  PROVE  /\ queue' \in Seq(Task) /\ Elements(queue') = Elements(queue) \ S
         /\ life' \in [Task -> LifeValues] /\ busy' = busy
         /\ \A t \in Task : life'[t] = IF t \in S THEN "CANCELED" ELSE life[t]
<1>1. queue' = Filter(queue, Task \ S)
  BY DEF cancel_tasks
<1>2. queue' \in Seq(Task) /\ Elements(queue') = Elements(queue) \cap (Task \ S)
  BY <1>1, FilterProps
<1>3. Elements(queue) \subseteq Task
  BY DEF Elements
<1>4. life' = [t \in Task |-> IF t \in S THEN "CANCELED" ELSE life[t]] /\ busy' = busy
  BY DEF cancel_tasks, Engine!Cancel
<1> QED
  BY <1>2, <1>3, <1>4 DEF LifeValues

\* A new task was free.
LEMMA EnqueueProps ==
  ASSUME life \in [Task -> LifeValues], queue \in Seq(Task), task \in [Task -> Job],
         NEW job \in Job, Enqueue(job)
  PROVE  \E u \in Task :
           /\ life[u] = "FREE" /\ life' = [life EXCEPT ![u] = "WAITING"]
           /\ task' = [task EXCEPT ![u] = job] /\ busy' = busy
           /\ life' \in [Task -> LifeValues] /\ task' \in [Task -> Job]
           /\ queue' \in Seq(Task) /\ Elements(queue') = Elements(queue) \union {u}
<1> DEFINE u == CHOOSE v \in Task : life[v] = "FREE"
<1>1. u \in Task /\ life[u] = "FREE"
  BY DEF Enqueue
<1>2. /\ life' = [life EXCEPT ![u] = "WAITING"] /\ queue' = Append(queue, u)
      /\ task' = [task EXCEPT ![u] = job] /\ busy' = busy
  BY DEF Enqueue
<1> HIDE DEF u
<1>3. life' \in [Task -> LifeValues] /\ task' \in [Task -> Job]
  BY <1>1, <1>2 DEF LifeValues
<1>4. queue' \in Seq(Task) /\ Len(queue') = Len(queue) + 1 /\ queue'[Len(queue) + 1] = u
      /\ \A i \in 1..Len(queue) : queue'[i] = queue[i]
  BY <1>1, <1>2
<1>5. Elements(queue') = Elements(queue) \union {u}
  <2>1. DOMAIN queue' = 1..(Len(queue) + 1) /\ DOMAIN queue = 1..Len(queue) /\ Len(queue) \in Nat
    BY <1>4
  <2>2. \A i \in 1..(Len(queue) + 1) : i \in 1..Len(queue) \/ i = Len(queue) + 1
    BY <2>1
  <2>3. \A i \in 1..Len(queue) : i \in 1..(Len(queue) + 1)
    BY <2>1
  <2>4. Len(queue) + 1 \in 1..(Len(queue) + 1)
    BY <2>1
  <2> QED
    BY <1>4, <2>1, <2>2, <2>3, <2>4 DEF Elements
<1> QED
  BY <1>1, <1>2, <1>3, <1>4, <1>5

\* _execute() returns: the task is let go and, unless it was cancelled, gets
\* its new state.
LEMMA ReturnsProps ==
  ASSUME TypeOK, NEW t \in Task, NEW s \in {"WAITING", "SUCCESS", "FAILURE"}, Returns(t, s)
  PROVE  /\ t \in busy /\ busy' = busy \ {t} /\ queue' = queue
         /\ life' \in [Task -> LifeValues]
         /\ \/ life[t] = "CANCELED" /\ life' = life
            \/ life[t] = "EXECUTING" /\ life' = [life EXCEPT ![t] = s]
         /\ pc' \in Pcs /\ pc'[t] = "idle" /\ \A b \in Actor : b # t => pc'[b] = pc[b]
<1>1. "idle" \in Pc /\ t \in Actor /\ pc \in Pcs /\ life \in [Task -> LifeValues]
  BY ActorType DEF Pc, TypeOK, Pcs, LifeValues
<1>2. Go(t, "idle") /\ queue' = queue
  BY DEF Returns
<1>3. pc' \in Pcs /\ pc'[t] = "idle" /\ \A b \in Actor : b # t => pc'[b] = pc[b]
  BY <1>1, <1>2, GoType
<1>4. /\ t \in busy /\ busy' = busy \ {t}
      /\ \/ life[t] = "CANCELED" /\ life' = life
         \/ life[t] = "EXECUTING" /\ life' = [life EXCEPT ![t] = s]
  BY DEF Returns, Engine!GiveUp, Engine!End, Engine!Moves
<1>5. life' \in [Task -> LifeValues]
  BY <1>1, <1>4 DEF LifeValues
<1> QED
  BY <1>2, <1>3, <1>4, <1>5

LEMMA NoJobType == NoJob \in Job /\ NoJob.left = <<>> /\ NoJob.subject = None
BY DEF NoJob, Job

\* The job of a task that actor a starts.
Starts(a, job) ==
  /\ Enqueue(job) /\ job.subject = op[a].on /\ job.caller = Path(a)
  /\ job.subject \in Gate => job.left = <<>>

LEMMA PathType ==
  ASSUME TypeOK, ActInv, NEW a \in Actor, op[a] # None
  PROVE  Path(a) \in Seq(Scene)
<1>1. CASE a \in Task
  <2>1. task[a].subject \in Scene /\ task[a].caller \in Seq(Scene)
    BY <1>1 DEF ActInv, TypeOK, Job
  <2> QED
    BY <1>1, <2>1 DEF Path
<1>2. CASE a \notin Task
  BY <1>2 DEF Path
<1> QED
  BY <1>1, <1>2

LEMMA SceneStarts ==
  ASSUME TypeOK, ActInv, NEW a \in Actor, StartScene(a), operations[op[a].on] # <<>>
  PROVE  \E job \in Job : Starts(a, job)
<1>1. op[a] \in Op /\ op[a].on \in Scene
  BY AtType DEF StartScene, TypeOK, Ops
<1>2. Path(a) \in Seq(Scene)
  BY <1>1, OpType, PathType
<1>3. operations[op[a].on] \in Seq(Op)
  BY <1>1, ScenesAssumption DEF TypeOK
<1> DEFINE p == Path(a)
           l == operations[op[a].on]
           s == op[a].on
           job == [NoJob EXCEPT !.subject = s, !.caller = p, !.left = l]
<1>4. Enqueue(job)
  BY DEF StartScene
<1> HIDE DEF p, l, s
<1>5. p \in Seq(Scene) /\ l \in Seq(Op) /\ s \in Scene
  BY <1>1, <1>2, <1>3 DEF p, l, s
<1>6. NoJob \in Job
  BY NoJobType
<1>7. job \in Job
  BY <1>5, <1>6 DEF Job
<1>8. job.subject = s /\ job.caller = p
  BY <1>5, <1>6 DEF Job
<1>9. job.subject \notin Gate
  BY <1>5, <1>8, ScenesAssumption
<1> HIDE DEF job
<1>10. Starts(a, job)
  BY <1>4, <1>8, <1>9 DEF Starts, p, s
<1> QED
  BY <1>7, <1>10

LEMMA GateStarts ==
  ASSUME TypeOK, ActInv, NEW a \in Actor, StartGate(a)
  PROVE  \E job \in Job : Starts(a, job)
<1>1. op[a] \in Op /\ op[a].on \in Gate
  BY AtType DEF StartGate, TypeOK, Ops
<1>2. Path(a) \in Seq(Scene)
  BY <1>1, OpType, PathType
<1> DEFINE p == Path(a)
           o == (op[a].do = "open")
           s == op[a].on
           job == [NoJob EXCEPT !.subject = s, !.caller = p, !.open = o, !.tries = Attempts]
<1>4. Enqueue(job)
  BY DEF StartGate
<1>3. o \in BOOLEAN
  OBVIOUS
<1> HIDE DEF p, o, s
<1>5. p \in Seq(Scene) /\ s \in Gate
  BY <1>1, <1>2 DEF p, s
<1>6. NoJob \in Job /\ NoJob.left = <<>>
  BY NoJobType
<1>7. job \in Job
  <2>1. Attempts \in Int
    BY ScenesAssumption
  <2> QED
    BY <1>3, <1>5, <1>6, <2>1 DEF Job
<1>8. job.subject = s /\ job.caller = p /\ job.left = <<>>
  BY <1>5, <1>6 DEF Job
<1> HIDE DEF job
<1>10. Starts(a, job)
  BY <1>4, <1>8 DEF Starts, p, s
<1> QED
  BY <1>7, <1>10

\* What a step of an action does: it looks around, cancels tasks, or starts
\* one.
ActEffect(a) ==
  \/ UNCHANGED <<life, busy, queue, task>>
  \/ UNCHANGED task /\ \E S \in SUBSET Elements(queue) : cancel_tasks(S)
  \/ \E job \in Job : Starts(a, job)

LEMMA OfType ==
  /\ \A x : Of(x) \in SUBSET Elements(queue) /\ WithSubTasks(x) \in SUBSET Elements(queue)
  /\ \A g, o : Opening(g, o) \in SUBSET Elements(queue)
BY DEF Of, WithSubTasks, Opening

LEMMA ActSteps ==
  ASSUME TypeOK, ActInv, NEW a \in Actor, Act(a)
  PROVE  /\ Goes(a) /\ op[a] \in Op /\ pc[a] # "idle" /\ ActEffect(a)
         /\ UNCHANGED <<operations, requests>>
         /\ gate' \in [Gate -> BOOLEAN] /\ news' \subseteq Gate
<1> USE DEF evars, gvars
<1>1. pc \in Pcs /\ op \in Ops /\ gate \in [Gate -> BOOLEAN] /\ news \subseteq Gate
  BY DEF TypeOK, Pcs, Ops
<1>2. \A s \in {"start", "running", "cancel", "pulse"} : s \in Pc /\ s \notin {"idle", "pop", "next"}
  BY DEF Pc
<1>3. CASE ExecuteScene(a) \/ RestartScene(a)
  <2>1. Goes(a)
    BY <1>1, <1>2, <1>3, GoGoes, DoneGoes DEF ExecuteScene, RestartScene
  <2>2. op[a] \in Op /\ pc[a] # "idle"
    BY <1>1, <1>3, AtType DEF ExecuteScene, RestartScene
  <2> QED
    BY <1>1, <1>3, <2>1, <2>2 DEF ExecuteScene, RestartScene, ActEffect
<1>4. CASE InterruptCheck(a) \/ OpenClose(a)
  <2>1. Goes(a)
    BY <1>1, <1>2, <1>4, GoGoes, DoneGoes, AfterInterruptGoes DEF InterruptCheck, OpenClose
  <2>2. op[a] \in Op /\ pc[a] # "idle"
    BY <1>1, <1>4, AtType DEF InterruptCheck, OpenClose
  <2> QED
    BY <1>1, <1>4, <2>1, <2>2 DEF InterruptCheck, OpenClose, ActEffect
<1>5. CASE InterruptCancel(a)
  <2>1. Goes(a)
    BY <1>1, <1>5, AfterInterruptGoes DEF InterruptCancel
  <2>2. op[a] \in Op /\ pc[a] # "idle"
    BY <1>1, <1>5, AtType DEF InterruptCancel
  <2>3. ActEffect(a)
    BY <1>5, OfType DEF InterruptCancel, ActEffect
  <2> QED
    BY <1>1, <1>5, <2>1, <2>2, <2>3 DEF InterruptCancel
<1>6. CASE CancelGate(a)
  <2>1. Goes(a)
    BY <1>1, <1>2, <1>6, GoGoes DEF CancelGate
  <2>2. op[a] \in Op /\ pc[a] # "idle"
    BY <1>1, <1>6, AtType DEF CancelGate
  <2>3. ActEffect(a)
    BY <1>6, OfType DEF CancelGate, ActEffect
  <2> QED
    BY <1>1, <1>6, <2>1, <2>2, <2>3 DEF CancelGate
<1>7. CASE StartScene(a) \/ StartGate(a)
  <2>1. Goes(a)
    BY <1>1, <1>7, DoneGoes DEF StartScene, StartGate
  <2>2. op[a] \in Op /\ pc[a] # "idle"
    BY <1>1, <1>7, AtType DEF StartScene, StartGate
  <2>3. ActEffect(a)
    BY <1>7, SceneStarts, GateStarts DEF StartScene, ActEffect
  <2> QED
    BY <1>1, <1>7, <2>1, <2>2, <2>3 DEF StartScene, StartGate
<1>8. CASE Toggle(a)
  <2>1. Goes(a)
    BY <1>1, <1>8, DoneGoes DEF Toggle
  <2>2. op[a] \in Op /\ pc[a] # "idle" /\ op[a].on \in Gate
    BY <1>1, <1>8, AtType DEF Toggle
  <2>3. gate' \in [Gate -> BOOLEAN] /\ news' \subseteq Gate
    BY <1>1, <1>8, <2>2 DEF Toggle, Pulse
  <2> QED
    BY <1>8, <2>1, <2>2, <2>3 DEF Toggle, ActEffect
<1>9. CASE DeviceAway(a)
  <2>1. Goes(a)
    BY <1>1, <1>9, DoneGoes DEF DeviceAway
  <2>2. op[a] \in Op /\ pc[a] = First(op[a])
    BY <1>1, <1>9 DEF DeviceAway, Ops
  <2>3. pc[a] # "idle"
    BY <2>2 DEF First
  <2> QED
    BY <1>1, <1>9, <2>1, <2>2, <2>3 DEF DeviceAway, ActEffect
<1> QED
  BY <1>3, <1>4, <1>5, <1>6, <1>7, <1>8, <1>9 DEF Act

----------------------------------------------------------------------------
(* The steps of _execute *)

\* Every task keeps its subject and its callers.
SameJobs ==
  /\ task' \in [Task -> Job]
  /\ \A u \in Task : task'[u].subject = task[u].subject /\ task'[u].caller = task[u].caller

LEMMA PopSteps ==
  ASSUME TypeOK, ActInv, NEW t \in Task, Pop(t)
  PROVE  /\ SameJobs /\ UNCHANGED <<life, busy, queue>> /\ pc' \in Pcs /\ op' \in Ops
         /\ \A b \in Actor : b # t => pc'[b] = pc[b] /\ op'[b] = op[b]
         /\ \A u \in Task : u # t => task'[u] = task[u]
         /\ pc[t] \in {"pop", "next"} /\ task[t].subject \in Scene /\ pc'[t] # "pop"
         /\ \/ op'[t] = None /\ pc'[t] = "next"
            \/ pc'[t] \notin {"idle", "pop", "next"} /\ Allowed(t, op'[t])
         /\ \/ task[t].left = <<>> /\ task'[t].left = <<>>
            \/ task[t].left # <<>> /\ task'[t].left = Tail(task[t].left)
<1> USE DEF evars
<1>1. pc \in Pcs /\ op \in Ops /\ task \in [Task -> Job] /\ t \in Actor /\ "next" \in Pc
  BY ActorType DEF TypeOK, Pcs, Ops, Pc
<1>2. /\ pc[t] \in {"pop", "next"} /\ task[t].subject \in Scene
      /\ UNCHANGED <<life, busy, queue>> /\ op[t] = None
  BY DEF Pop, ActInv
<1>3. CASE task[t].left = <<>>
  <2>1. Go(t, "next") /\ UNCHANGED <<op, task>>
    BY <1>3 DEF Pop
  <2>2. pc' \in Pcs /\ pc'[t] = "next" /\ \A b \in Actor : b # t => pc'[b] = pc[b]
    BY <1>1, <2>1, GoType
  <2> QED
    BY <1>1, <1>2, <1>3, <2>1, <2>2 DEF SameJobs
<1>4. CASE task[t].left # <<>>
  <2> DEFINE o == Head(task[t].left)
             l == Tail(task[t].left)
  <2>1. /\ task' = [task EXCEPT ![t].left = l]
        /\ \/ Allowed(t, o) /\ Perform(t, o)
           \/ Go(t, "next") /\ UNCHANGED op
    BY <1>4 DEF Pop
  <2>2. o \in Op /\ l \in Seq(Op)
    <3>1. task[t].left \in Seq(Op)
      BY <1>1 DEF Job
    <3> QED
      BY <1>4, <3>1
  <2> HIDE DEF o, l
  <2>3. SameJobs /\ task'[t].left = l /\ \A u \in Task : u # t => task'[u] = task[u]
    BY <1>1, <2>1, <2>2 DEF SameJobs, Job
  <2>4. CASE Allowed(t, o) /\ Perform(t, o)
    <3>1. /\ pc' \in Pcs /\ op' \in Ops /\ op'[t] = o
          /\ pc'[t] \in {"active", "running", "cancel", "exists"}
          /\ \A b \in Actor : b # t => pc'[b] = pc[b] /\ op'[b] = op[b]
      BY <1>1, <2>2, <2>4, PerformType
    <3> QED
      BY <1>2, <1>4, <2>3, <2>4, <3>1 DEF l
  <2>5. CASE Go(t, "next") /\ UNCHANGED op
    <3>1. pc' \in Pcs /\ pc'[t] = "next" /\ \A b \in Actor : b # t => pc'[b] = pc[b]
      BY <1>1, <2>5, GoType
    <3> QED
      BY <1>1, <1>2, <1>4, <2>3, <2>5, <3>1 DEF l
  <2> QED
    BY <2>1, <2>4, <2>5
<1> QED
  BY <1>3, <1>4

LEMMA GateTrySteps ==
  ASSUME TypeOK, ActInv, NEW t \in Task, GateTry(t)
  PROVE  /\ SameJobs /\ UNCHANGED <<life, busy, queue, op>> /\ pc' \in Pcs
         /\ \A b \in Actor : b # t => pc'[b] = pc[b]
         /\ pc[t] = "pop" /\ pc'[t] = "pulse"
         /\ \A u \in Task : task'[u].left = task[u].left
         /\ task[t].subject \in Gate
<1>1. pc \in Pcs /\ task \in [Task -> Job] /\ t \in Actor /\ "pulse" \in Pc
  BY ActorType DEF TypeOK, Pcs, Pc
<1>2. /\ task' = [task EXCEPT ![t].tries = @ - 1] /\ Go(t, "pulse")
      /\ pc[t] = "pop" /\ task[t].subject \in Gate /\ UNCHANGED <<life, busy, queue, op>>
  BY DEF GateTry, evars
<1>3. task[t].tries - 1 \in Int
  BY <1>1 DEF Job
<1>4. SameJobs /\ \A u \in Task : task'[u].left = task[u].left
  BY <1>1, <1>2, <1>3 DEF SameJobs, Job
<1> QED
  BY <1>1, <1>2, <1>4, GoType

LEMMA ReturnSteps ==
  ASSUME TypeOK, ActInv, NEW t \in Task,
         ReturnMore(t) \/ ReturnWait(t) \/ ReturnEnd(t) \/ GateDone(t) \/ GatePulse(t)
  PROVE  /\ \E s \in {"WAITING", "SUCCESS", "FAILURE"} : Returns(t, s)
         /\ SameJobs /\ \A u \in Task : task'[u].left = task[u].left
         /\ op' = op /\ op[t] = None /\ UNCHANGED <<operations, requests>>
         /\ gate' \in [Gate -> BOOLEAN] /\ news' \subseteq Gate
         /\ pc[t] = "pop" => task[t].subject \in Gate
<1> USE DEF gvars
<1>1. /\ task \in [Task -> Job] /\ gate \in [Gate -> BOOLEAN] /\ news \subseteq Gate
  BY DEF TypeOK
<1>2. /\ \E s \in {"WAITING", "SUCCESS", "FAILURE"} : Returns(t, s)
      /\ UNCHANGED <<op, operations, requests>>
  BY DEF ReturnMore, ReturnWait, ReturnEnd, GateDone, GatePulse
<1>3. op[t] = None
  BY ScenesAssumption DEF ActInv, ReturnMore, ReturnWait, ReturnEnd, GateDone, GatePulse
<1>4. SameJobs /\ \A u \in Task : task'[u].left = task[u].left
  <2>1. task' = task \/ task' = [task EXCEPT ![t].waited = TRUE]
    BY DEF ReturnMore, ReturnWait, ReturnEnd, GateDone, GatePulse
  <2> DEFINE j == [task[t] EXCEPT !.waited = TRUE]
  <2>2. task' = task \/ task' = [task EXCEPT ![t] = j]
    BY <2>1
  <2>3. task[t] \in Job /\ TRUE \in BOOLEAN
    BY <1>1
  <2>4. j \in Job
    BY <2>3 DEF Job
  <2>5. j.subject = task[t].subject /\ j.caller = task[t].caller /\ j.left = task[t].left
    BY <2>3 DEF Job
  <2> HIDE DEF j
  <2> QED
    BY <1>1, <2>2, <2>4, <2>5 DEF SameJobs
<1>5. gate' \in [Gate -> BOOLEAN] /\ news' \subseteq Gate
  BY <1>1 DEF ReturnMore, ReturnWait, ReturnEnd, GateDone, GatePulse, Pulse
<1>6. pc[t] = "pop" => task[t].subject \in Gate
  BY DEF ReturnMore, ReturnWait, ReturnEnd, GateDone, GatePulse
<1> QED
  BY <1>2, <1>3, <1>4, <1>5, <1>6

----------------------------------------------------------------------------
(* Types and the threads of the tasks *)

LEMMA InitInv == Init => TypeOK /\ ActInv
<1> SUFFICES ASSUME Init PROVE TypeOK /\ ActInv
  OBVIOUS
<1>1. NoJob \in Job /\ NoJob.subject = None
  BY NoJobType
<1>2. /\ task \in [Task -> Job] /\ pc \in [Actor -> Pc] /\ op \in [Actor -> Op \union {None}]
  BY <1>1 DEF Init, Pc
<1>3. gate \in [Gate -> BOOLEAN]
  BY DEF Init
<1>4. TypeOK
  BY <1>2, <1>3 DEF Init, TypeOK
<1>5. ActInv
  BY <1>1, ActorType, ScenesAssumption DEF Init, ActInv
<1> QED
  BY <1>4, <1>5

LEMMA EffectType ==
  ASSUME TypeOK, NEW a, ActEffect(a)
  PROVE  /\ life' \in [Task -> LifeValues] /\ busy' = busy /\ queue' \in Seq(Task)
         /\ task' \in [Task -> Job]
<1>1. life \in [Task -> LifeValues] /\ queue \in Seq(Task) /\ task \in [Task -> Job]
  BY DEF TypeOK, LifeValues
<1>2. CASE UNCHANGED <<life, busy, queue, task>>
  BY <1>1, <1>2
<1>3. ASSUME UNCHANGED task, NEW S, cancel_tasks(S)
      PROVE  /\ life' \in [Task -> LifeValues] /\ busy' = busy /\ queue' \in Seq(Task)
             /\ task' \in [Task -> Job]
  BY <1>1, <1>3, CancelProps
<1>4. ASSUME NEW job \in Job, Enqueue(job)
      PROVE  /\ life' \in [Task -> LifeValues] /\ busy' = busy /\ queue' \in Seq(Task)
             /\ task' \in [Task -> Job]
  BY <1>1, <1>4, EnqueueProps
<1> QED
  BY <1>2, <1>3, <1>4 DEF ActEffect, Starts

LEMMA NextType == TypeOK /\ ActInv /\ [Next]_vars => TypeOK'
<1> SUFFICES ASSUME TypeOK, ActInv, [Next]_vars PROVE TypeOK'
  OBVIOUS
<1> USE DEF evars, gvars
<1>0. /\ life \in [Task -> LifeValues] /\ queue \in Seq(Task) /\ task \in [Task -> Job]
      /\ pc \in Pcs /\ op \in Ops /\ busy \subseteq Task /\ operations \in Programs
      /\ gate \in [Gate -> BOOLEAN] /\ news \subseteq Gate /\ requests \in Nat
  BY DEF TypeOK, LifeValues, Pcs, Ops
<1>1. ASSUME NEW a \in Actor, Act(a) PROVE TypeOK'
  <2>1. /\ Goes(a) /\ ActEffect(a) /\ UNCHANGED <<operations, requests>>
        /\ gate' \in [Gate -> BOOLEAN] /\ news' \subseteq Gate
    BY <1>1, ActSteps
  <2>2. /\ life' \in [Task -> LifeValues] /\ busy' = busy /\ queue' \in Seq(Task)
        /\ task' \in [Task -> Job]
    BY <2>1, EffectType
  <2> QED
    BY <1>0, <2>1, <2>2 DEF TypeOK, LifeValues, Pcs, Ops, Goes
<1>2. ASSUME NEW r \in Requester, NEW o \in Requests, Ask(r, o) PROVE TypeOK'
  <2>1. r \in Actor /\ o \in Op
    BY ActorType, ScenesAssumption
  <2>2. pc' \in Pcs /\ op' \in Ops
    BY <1>0, <1>2, <2>1, PerformType DEF Ask
  <2> QED
    BY <1>0, <1>2, <2>2 DEF Ask, TypeOK, LifeValues, Pcs, Ops
<1>3. ASSUME NEW t \in Task, Pick(t) \/ NotRun(t) PROVE TypeOK'
  <2>1. busy' \subseteq Task /\ life' \in [Task -> LifeValues]
    BY <1>0, <1>3 DEF Pick, NotRun, Engine!Take, Engine!GiveUp, Engine!Moves, LifeValues
  <2> QED
    BY <1>0, <1>3, <2>1 DEF Pick, NotRun, TypeOK, LifeValues, Pcs, Ops
<1>4. ASSUME NEW t \in Task, Run(t) PROVE TypeOK'
  <2>1. busy' \subseteq Task /\ life' \in [Task -> LifeValues]
    BY <1>0, <1>4 DEF Run, Engine!Run, Engine!Moves, LifeValues
  <2>2. "pop" \in Pc /\ t \in Actor /\ Go(t, "pop")
    BY <1>4, ActorType DEF Pc, Run
  <2>3. pc' \in Pcs
    BY <1>0, <2>2, GoType
  <2> QED
    BY <1>0, <1>4, <2>1, <2>3 DEF Run, TypeOK, LifeValues, Pcs, Ops
<1>5. ASSUME NEW t \in Task, Release(t) PROVE TypeOK'
  <2>1. busy' \subseteq Task /\ life' \in [Task -> LifeValues]
    BY <1>0, <1>5 DEF Release, Engine!Free, LifeValues
  <2>2. queue' \in Seq(Task)
    BY <1>0, <1>5, FilterProps DEF Release
  <2>3. task' \in [Task -> Job]
    BY <1>0, <1>5, NoJobType DEF Release
  <2> QED
    BY <1>0, <1>5, <2>1, <2>2, <2>3 DEF Release, TypeOK, LifeValues, Pcs, Ops
<1>6. ASSUME NEW t \in Task, Pop(t) PROVE TypeOK'
  <2>1. SameJobs /\ UNCHANGED <<life, busy, queue>> /\ pc' \in Pcs /\ op' \in Ops
    BY <1>6, PopSteps
  <2> QED
    BY <1>0, <1>6, <2>1 DEF Pop, SameJobs, TypeOK, LifeValues, Pcs, Ops
<1>7. ASSUME NEW t \in Task, GateTry(t) PROVE TypeOK'
  <2>1. SameJobs /\ UNCHANGED <<life, busy, queue, op>> /\ pc' \in Pcs
    BY <1>7, GateTrySteps
  <2> QED
    BY <1>0, <1>7, <2>1 DEF GateTry, SameJobs, TypeOK, LifeValues, Pcs, Ops
<1>8. ASSUME NEW t \in Task,
             ReturnMore(t) \/ ReturnWait(t) \/ ReturnEnd(t) \/ GateDone(t) \/ GatePulse(t)
      PROVE  TypeOK'
  <2>1. /\ \E s \in {"WAITING", "SUCCESS", "FAILURE"} : Returns(t, s)
        /\ SameJobs /\ op' = op /\ UNCHANGED <<operations, requests>>
        /\ gate' \in [Gate -> BOOLEAN] /\ news' \subseteq Gate
    BY <1>8, ReturnSteps
  <2>2. busy' = busy \ {t} /\ queue' = queue /\ life' \in [Task -> LifeValues] /\ pc' \in Pcs
    BY <2>1, ReturnsProps
  <2> QED
    BY <1>0, <2>1, <2>2 DEF SameJobs, TypeOK, LifeValues, Pcs, Ops
<1>9. ASSUME NEW g \in Gate, on_related_sensor_value_changed(g) PROVE TypeOK'
  <2>1. PICK S : cancel_tasks(S)
    BY <1>9 DEF on_related_sensor_value_changed
  <2>2. queue' \in Seq(Task) /\ life' \in [Task -> LifeValues] /\ busy' = busy
    BY <1>0, <2>1, CancelProps
  <2>3. UNCHANGED <<operations, task, pc, op, gate, requests>> /\ news' \subseteq Gate
    BY <1>0, <1>9 DEF on_related_sensor_value_changed
  <2> QED
    BY <1>0, <2>2, <2>3 DEF TypeOK, LifeValues, Pcs, Ops
<1>10. CASE Rest \/ UNCHANGED vars
  BY <1>10 DEF Rest, vars, TypeOK
<1> QED
  BY <1>1, <1>2, <1>3, <1>4, <1>5, <1>6, <1>7, <1>8, <1>9, <1>10, ActorType
     DEF Next, Carry, Execute

ActOf(t) ==
  /\ pc[t] # "idle" => t \in busy /\ life[t] \in {"EXECUTING", "CANCELED"}
  /\ op[t] # None => /\ pc[t] \notin {"idle", "pop", "next"}
                     /\ task[t].subject \in Scene /\ Allowed(t, op[t])
  /\ task[t].subject \in Gate => task[t].left = <<>>

\* The task t keeps its job, and stays taken if it was.
Keeps(t) ==
  /\ t \in busy => t \in busy'
  /\ life[t] \in {"EXECUTING", "CANCELED"} => life'[t] \in {"EXECUTING", "CANCELED"}
  /\ task'[t].subject = task[t].subject /\ task'[t].caller = task[t].caller
  /\ task'[t].left = task[t].left

LEMMA KeepAct ==
  ASSUME NEW t \in Task, ActOf(t), Keeps(t), pc'[t] = pc[t], op'[t] = op[t]
  PROVE  ActOf(t)'
BY DEF ActOf, Keeps, Allowed

\* A task without a thread may get a new job.
LEMMA NewAct ==
  ASSUME NEW t \in Task, pc'[t] = "idle", op'[t] = None,
         task'[t].subject \in Gate => task'[t].left = <<>>
  PROVE  ActOf(t)'
BY DEF ActOf

\* A task that is not taken has no thread and executes nothing.
LEMMA IdleAct ==
  ASSUME NEW t \in Task, ActOf(t), t \notin busy \/ life[t] \notin {"EXECUTING", "CANCELED"}
  PROVE  pc[t] = "idle" /\ op[t] = None
BY DEF ActOf

LEMMA EffectAct ==
  ASSUME TypeOK, NEW a, ActEffect(a), NEW t \in Task, ActOf(t)
  PROVE  \/ Keeps(t)
         \/ /\ pc[t] = "idle" /\ op[t] = None
            /\ task'[t].subject \in Gate => task'[t].left = <<>>
<1>1. life \in [Task -> LifeValues] /\ queue \in Seq(Task) /\ task \in [Task -> Job]
  BY DEF TypeOK, LifeValues
<1>2. CASE UNCHANGED <<life, busy, queue, task>>
  BY <1>2 DEF Keeps
<1>3. ASSUME UNCHANGED task, NEW S, cancel_tasks(S) PROVE Keeps(t)
  <2>1. busy' = busy /\ life'[t] = IF t \in S THEN "CANCELED" ELSE life[t]
    BY <1>1, <1>3, CancelProps
  <2> QED
    BY <1>3, <2>1 DEF Keeps
<1>4. ASSUME NEW job \in Job, Starts(a, job)
      PROVE  \/ Keeps(t)
             \/ /\ pc[t] = "idle" /\ op[t] = None
                /\ task'[t].subject \in Gate => task'[t].left = <<>>
  <2>1. PICK u \in Task : /\ life[u] = "FREE" /\ life' = [life EXCEPT ![u] = "WAITING"]
                          /\ task' = [task EXCEPT ![u] = job] /\ busy' = busy
    BY <1>1, <1>4, EnqueueProps DEF Starts
  <2>2. CASE t = u
    <3>1. life[t] \notin {"EXECUTING", "CANCELED"} /\ task'[t] = job
      BY <1>1, <2>1, <2>2
    <3> QED
      BY <1>4, <3>1, IdleAct DEF Starts
  <2>3. CASE t # u
    BY <1>1, <2>1, <2>3 DEF Keeps
  <2> QED
    BY <2>2, <2>3
<1> QED
  BY <1>2, <1>3, <1>4 DEF ActEffect

LEMMA NextAct == TypeOK /\ TypeOK' /\ ActInv /\ [Next]_vars => ActInv'
<1> SUFFICES ASSUME TypeOK, TypeOK', ActInv, [Next]_vars, NEW t \in Task PROVE ActOf(t)'
  BY DEF ActInv, ActOf
<1> USE DEF evars, gvars
<1>0. /\ life \in [Task -> LifeValues] /\ task \in [Task -> Job]
      /\ pc \in Pcs /\ op \in Ops /\ busy \subseteq Task /\ t \in Actor /\ ActOf(t)
  BY ActorType DEF TypeOK, LifeValues, Pcs, Ops, ActInv, ActOf
<1>1. ASSUME NEW a \in Actor, Act(a) PROVE ActOf(t)'
  <2>1. Goes(a) /\ ActEffect(a) /\ pc[a] # "idle" /\ op[a] \in Op
    BY <1>1, ActSteps
  <2>2. \/ Keeps(t)
        \/ /\ pc[t] = "idle" /\ op[t] = None
           /\ task'[t].subject \in Gate => task'[t].left = <<>>
    BY <1>0, <2>1, EffectAct
  <2>3. CASE t # a
    <3>1. pc'[t] = pc[t] /\ op'[t] = op[t]
      BY <1>0, <2>1, <2>3 DEF Goes
    <3> QED
      BY <1>0, <2>2, <3>1, KeepAct, NewAct
  <2>4. CASE t = a
    <3>1. Keeps(t) /\ pc[t] # "idle" /\ op[t] # None
      BY <2>1, <2>2, <2>4, OpType
    <3>2. \/ pc'[t] \notin {"idle", "pop", "next"} /\ op'[t] = op[t]
          \/ pc'[t] = "next" /\ op'[t] = None
      BY <2>1, <2>4 DEF Goes
    <3> QED
      BY <1>0, <3>1, <3>2 DEF ActOf, Keeps, Allowed
  <2> QED
    BY <2>3, <2>4
<1>2. ASSUME NEW r \in Requester, NEW o \in Requests, Ask(r, o) PROVE ActOf(t)'
  <2>1. r \in Actor /\ o \in Op /\ r # t
    BY ActorType, ScenesAssumption
  <2>2. pc'[t] = pc[t] /\ op'[t] = op[t]
    BY <1>0, <1>2, <2>1, PerformType DEF Ask
  <2>3. Keeps(t)
    BY <1>2 DEF Ask, Keeps
  <2> QED
    BY <1>0, <2>2, <2>3, KeepAct
<1>3. ASSUME NEW u \in Task, Pick(u) PROVE ActOf(t)'
  <2>1. Keeps(t) /\ UNCHANGED <<pc, op>>
    BY <1>0, <1>3 DEF Pick, Keeps, Engine!Take, Engine!Moves
  <2> QED
    BY <1>0, <2>1, KeepAct
<1>4. ASSUME NEW u \in Task, Run(u) PROVE ActOf(t)'
  <2>1. /\ u \in busy /\ life[u] = "PICKED" /\ life' = [life EXCEPT ![u] = "EXECUTING"]
        /\ Go(u, "pop") /\ UNCHANGED <<busy, task, op>>
    BY <1>4 DEF Run, Engine!Run, Engine!Moves
  <2>2. u \in Actor /\ "pop" \in Pc
    BY ActorType DEF Pc
  <2>3. pc'[u] = "pop" /\ \A b \in Actor : b # u => pc'[b] = pc[b]
    BY <1>0, <2>1, <2>2, GoType
  <2>4. CASE t = u
    <3>1. op[t] = None
      BY <1>0, <2>1, <2>4, IdleAct
    <3>2. life'[t] = "EXECUTING"
      BY <1>0, <2>1, <2>4
    <3> QED
      BY <1>0, <2>1, <2>3, <2>4, <3>1, <3>2 DEF ActOf
  <2>5. CASE t # u
    <3>1. Keeps(t)
      BY <1>0, <2>1, <2>5 DEF Keeps
    <3> QED
      BY <1>0, <2>1, <2>3, <2>5, <3>1, KeepAct
  <2> QED
    BY <2>4, <2>5
<1>5. ASSUME NEW u \in Task, NotRun(u) PROVE ActOf(t)'
  <2>1. /\ pc[u] = "idle" /\ busy' = busy \ {u} /\ UNCHANGED <<life, task, pc, op>>
    BY <1>5 DEF NotRun, Engine!GiveUp
  <2>2. CASE t = u
    BY <1>0, <2>1, <2>2, NewAct DEF ActOf
  <2>3. CASE t # u
    <3>1. Keeps(t)
      BY <2>1, <2>3 DEF Keeps
    <3> QED
      BY <1>0, <2>1, <3>1, KeepAct
  <2> QED
    BY <2>2, <2>3
<1>6. ASSUME NEW u \in Task, Release(u) PROVE ActOf(t)'
  <2>1. /\ u \notin busy /\ life' = [life EXCEPT ![u] = "FREE"] /\ task' = [task EXCEPT ![u] = NoJob]
        /\ UNCHANGED <<busy, pc, op>>
    BY <1>6 DEF Release, Engine!Free
  <2>2. CASE t = u
    <3>1. pc'[t] = "idle" /\ op'[t] = None /\ task'[t] = NoJob
      BY <1>0, <2>1, <2>2, IdleAct
    <3>2. task'[t].subject \notin Gate
      BY <3>1, NoJobType, ScenesAssumption
    <3> QED
      BY <3>1, <3>2, NewAct
  <2>3. CASE t # u
    <3>1. Keeps(t)
      BY <1>0, <2>1, <2>3 DEF Keeps
    <3> QED
      BY <1>0, <2>1, <3>1, KeepAct
  <2> QED
    BY <2>2, <2>3
<1>7. ASSUME NEW u \in Task, Pop(u) PROVE ActOf(t)'
  <2>1. /\ SameJobs /\ UNCHANGED <<life, busy, queue>>
        /\ \A b \in Actor : b # u => pc'[b] = pc[b] /\ op'[b] = op[b]
        /\ \A v \in Task : v # u => task'[v] = task[v]
        /\ pc[u] \in {"pop", "next"} /\ task[u].subject \in Scene
        /\ \/ op'[u] = None /\ pc'[u] = "next"
           \/ pc'[u] \notin {"idle", "pop", "next"} /\ Allowed(u, op'[u])
    BY <1>7, PopSteps
  <2>2. CASE t = u
    <3>1. t \in busy' /\ life'[t] \in {"EXECUTING", "CANCELED"}
      BY <1>0, <2>1, <2>2 DEF ActOf
    <3>2. task'[t].subject \in Scene /\ task'[t].subject \notin Gate
          /\ task'[t].caller = task[t].caller
      BY <2>1, <2>2, ScenesAssumption DEF SameJobs
    <3> QED
      BY <2>1, <2>2, <3>1, <3>2 DEF ActOf, Allowed
  <2>3. CASE t # u
    <3>1. Keeps(t)
      BY <2>1, <2>3 DEF Keeps
    <3> QED
      BY <1>0, <2>1, <2>3, <3>1, KeepAct
  <2> QED
    BY <2>2, <2>3
<1>8. ASSUME NEW u \in Task, GateTry(u) PROVE ActOf(t)'
  <2>1. /\ SameJobs /\ UNCHANGED <<life, busy, queue, op>>
        /\ \A b \in Actor : b # u => pc'[b] = pc[b]
        /\ pc[u] = "pop" /\ pc'[u] = "pulse"
        /\ \A v \in Task : task'[v].left = task[v].left
    BY <1>8, GateTrySteps
  <2>2. Keeps(t)
    BY <2>1 DEF Keeps, SameJobs
  <2>3. CASE t = u
    BY <1>0, <2>1, <2>2, <2>3 DEF ActOf, Keeps
  <2>4. CASE t # u
    BY <1>0, <2>1, <2>2, <2>4, KeepAct
  <2> QED
    BY <2>3, <2>4
<1>9. ASSUME NEW u \in Task,
             ReturnMore(u) \/ ReturnWait(u) \/ ReturnEnd(u) \/ GateDone(u) \/ GatePulse(u)
      PROVE  ActOf(t)'
  <2>1. /\ \E s \in {"WAITING", "SUCCESS", "FAILURE"} : Returns(u, s)
        /\ SameJobs /\ \A v \in Task : task'[v].left = task[v].left
        /\ op' = op /\ op[u] = None
    BY <1>9, ReturnSteps
  <2>2. PICK s \in {"WAITING", "SUCCESS", "FAILURE"} : Returns(u, s)
    BY <2>1
  <2>3. /\ busy' = busy \ {u} /\ pc'[u] = "idle" /\ \A b \in Actor : b # u => pc'[b] = pc[b]
        /\ life' = life \/ life' = [life EXCEPT ![u] = s]
    BY <2>2, ReturnsProps
  <2>4. CASE t = u
    <3>1. task'[t].subject \in Gate => task'[t].left = <<>>
      BY <1>0, <2>1 DEF SameJobs, ActOf
    <3> QED
      BY <2>1, <2>3, <2>4, <3>1, NewAct
  <2>5. CASE t # u
    <3>1. Keeps(t)
      BY <1>0, <2>1, <2>3, <2>5 DEF Keeps, SameJobs
    <3> QED
      BY <1>0, <2>1, <2>3, <2>5, <3>1, KeepAct
  <2> QED
    BY <2>4, <2>5
<1>10. ASSUME NEW g \in Gate, on_related_sensor_value_changed(g) PROVE ActOf(t)'
  <2>1. PICK S : cancel_tasks(S)
    BY <1>10 DEF on_related_sensor_value_changed
  <2>2. busy' = busy /\ life'[t] = IF t \in S THEN "CANCELED" ELSE life[t]
    BY <1>0, <2>1, CancelProps DEF TypeOK
  <2>3. UNCHANGED <<task, pc, op>>
    BY <1>10 DEF on_related_sensor_value_changed
  <2>4. Keeps(t)
    BY <2>2, <2>3 DEF Keeps
  <2> QED
    BY <1>0, <2>3, <2>4, KeepAct
<1>11. CASE Rest \/ UNCHANGED vars
  <2>1. UNCHANGED <<life, busy, task, pc, op>>
    BY <1>11 DEF Rest, vars
  <2>2. Keeps(t)
    BY <2>1 DEF Keeps
  <2> QED
    BY <1>0, <2>1, <2>2, KeepAct
<1> QED
  BY <1>1, <1>2, <1>3, <1>4, <1>5, <1>6, <1>7, <1>8, <1>9, <1>10, <1>11, ActorType
     DEF Next, Carry, Execute

LEMMA InvCorrect == Spec => [](TypeOK /\ ActInv)
BY InitInv, NextType, NextAct, PTL DEF Spec

\* Every variable keeps its type.
THEOREM TypeCorrect == Spec => []TypeOK
BY InvCorrect, PTL

----------------------------------------------------------------------------
(* The queue holds what waits or runs *)

QueueOf(t) ==
  /\ life[t] \in {"WAITING", "PICKED", "EXECUTING"} => t \in Elements(queue)
  /\ life[t] \in {"FREE", "CANCELED"} => t \notin Elements(queue)

LEMMA CancelQueue ==
  ASSUME TypeOK, NEW t \in Task, QueueOf(t), NEW S, cancel_tasks(S)
  PROVE  QueueOf(t)'
<1>1. life \in [Task -> LifeValues] /\ queue \in Seq(Task)
  BY DEF TypeOK, LifeValues
<1>2. /\ Elements(queue') = Elements(queue) \ S
      /\ life'[t] = IF t \in S THEN "CANCELED" ELSE life[t]
  BY <1>1, CancelProps
<1> QED
  BY <1>2 DEF QueueOf

LEMMA EffectQueue ==
  ASSUME TypeOK, NEW a, ActEffect(a), NEW t \in Task, QueueOf(t)
  PROVE  QueueOf(t)'
<1>1. life \in [Task -> LifeValues] /\ queue \in Seq(Task) /\ task \in [Task -> Job]
  BY DEF TypeOK, LifeValues
<1>2. CASE UNCHANGED <<life, busy, queue, task>>
  BY <1>2 DEF QueueOf
<1>3. ASSUME NEW S, cancel_tasks(S) PROVE QueueOf(t)'
  BY <1>3, CancelQueue
<1>4. ASSUME NEW job \in Job, Starts(a, job) PROVE QueueOf(t)'
  <2>1. PICK u \in Task : /\ life[u] = "FREE" /\ life' = [life EXCEPT ![u] = "WAITING"]
                          /\ Elements(queue') = Elements(queue) \union {u}
    BY <1>1, <1>4, EnqueueProps DEF Starts
  <2> QED
    BY <1>1, <2>1 DEF QueueOf
<1> QED
  BY <1>2, <1>3, <1>4 DEF ActEffect

LEMMA NextQueue == TypeOK /\ ActInv /\ QueueSound /\ [Next]_vars => QueueSound'
<1> SUFFICES ASSUME TypeOK, ActInv, QueueSound, [Next]_vars, NEW t \in Task
             PROVE  QueueOf(t)'
  BY DEF QueueSound, QueueOf
<1> USE DEF evars
<1>0. life \in [Task -> LifeValues] /\ queue \in Seq(Task) /\ QueueOf(t)
  BY DEF TypeOK, LifeValues, QueueSound, QueueOf
<1>1. ASSUME NEW a \in Actor, Act(a) PROVE QueueOf(t)'
  BY <1>0, <1>1, ActSteps, EffectQueue
<1>2. ASSUME NEW u \in Task, Pick(u) PROVE QueueOf(t)'
  BY <1>0, <1>2 DEF Pick, QueueOf, Engine!Take, Engine!Moves
<1>3. ASSUME NEW u \in Task, Run(u) PROVE QueueOf(t)'
  BY <1>0, <1>3 DEF Run, QueueOf, Engine!Run, Engine!Moves
<1>4. ASSUME NEW u \in Task, Release(u) PROVE QueueOf(t)'
  <2>1. Elements(queue') = Elements(queue) \cap (Task \ {u})
    BY <1>0, <1>4, FilterProps DEF Release
  <2>2. life' = [life EXCEPT ![u] = "FREE"]
    BY <1>4 DEF Release, Engine!Free
  <2> QED
    BY <1>0, <2>1, <2>2 DEF QueueOf
<1>5. ASSUME NEW u \in Task,
             ReturnMore(u) \/ ReturnWait(u) \/ ReturnEnd(u) \/ GateDone(u) \/ GatePulse(u)
      PROVE  QueueOf(t)'
  <2>1. PICK s \in {"WAITING", "SUCCESS", "FAILURE"} : Returns(u, s)
    BY <1>5, ReturnSteps
  <2>2. /\ queue' = queue
        /\ \/ life' = life
           \/ life[u] = "EXECUTING" /\ life' = [life EXCEPT ![u] = s]
    BY <2>1, ReturnsProps
  <2> QED
    BY <1>0, <2>2 DEF QueueOf
<1>6. ASSUME NEW g \in Gate, on_related_sensor_value_changed(g) PROVE QueueOf(t)'
  BY <1>0, <1>6, CancelQueue DEF on_related_sensor_value_changed
<1>7. ASSUME UNCHANGED <<life, queue>> PROVE QueueOf(t)'
  BY <1>0, <1>7 DEF QueueOf
<1>8. ASSUME NEW r \in Requester, NEW o \in Requests, Ask(r, o) PROVE QueueOf(t)'
  BY <1>7, <1>8 DEF Ask
<1>9. ASSUME NEW u \in Task, Pop(u) \/ GateTry(u) \/ NotRun(u) PROVE QueueOf(t)'
  BY <1>7, <1>9 DEF Pop, GateTry, NotRun, Engine!GiveUp
<1>10. CASE Rest \/ UNCHANGED vars
  BY <1>7, <1>10 DEF Rest, vars
<1> QED
  BY <1>1, <1>2, <1>3, <1>4, <1>5, <1>6, <1>8, <1>9, <1>10, ActorType DEF Next, Carry, Execute

\* The queue of the engine holds every task that waits, was picked or runs,
\* and cancel_tasks() leaves no cancelled one in it.
THEOREM QueueSoundHolds == Spec => []QueueSound
<1>1. Init => QueueSound
  BY DEF Init, QueueSound, Elements
<1> QED
  BY <1>1, InvCorrect, NextQueue, PTL DEF Spec

----------------------------------------------------------------------------
(* The paths of scenes that start each other *)

\* An element stands once in p, or twice in a row.
Bounded(p) == \A i, j \in DOMAIN p : i < j /\ p[i] = p[j] => j = i + 1

PathOf(t) == life[t] # "FREE" => Bounded(Path(t))

\* A scene may start x when x is a gate, or not among its callers.
LEMMA LongerPath ==
  ASSUME NEW c \in Seq(Scene), NEW s \in Scene, NEW x \in Scene \union Gate,
         Bounded(Append(c, s)), x \in Gate \/ x \notin Elements(c)
  PROVE  Bounded(Append(Append(c, s), x))
<1> DEFINE p == Append(c, s)
           n == Len(c)
           q == Append(p, x)
<1>1. /\ n \in Nat /\ DOMAIN c = 1..n /\ p \in Seq(Scene) /\ Len(p) = n + 1
      /\ p[n + 1] = s /\ \A i \in 1..n : p[i] = c[i]
  OBVIOUS
<1>2. \A i \in 1..n : c[i] \in Scene /\ c[i] # x
  <2>1. \A i \in 1..n : c[i] \in Scene /\ c[i] \in Elements(c)
    BY <1>1 DEF Elements
  <2> QED
    BY <2>1, ScenesAssumption
<1>3. /\ DOMAIN q = 1..(n + 2) /\ q[n + 2] = x /\ \A i \in 1..(n + 1) : q[i] = p[i]
  <2> HIDE DEF p, n
  <2>1. p \in Seq(Scene \union Gate) /\ n + 1 \in Nat /\ n + 2 = (n + 1) + 1
    BY <1>1
  <2> QED
    BY <1>1, <2>1
<1>4. \A i, j \in 1..(n + 1) : i < j /\ p[i] = p[j] => j = i + 1
  <2>1. DOMAIN p = 1..(n + 1)
    BY <1>1
  <2> QED
    BY <2>1 DEF Bounded
<1> HIDE DEF p, n, q
<1>5. ASSUME NEW i \in 1..(n + 2), NEW j \in 1..(n + 2), i < j, q[i] = q[j]
      PROVE  j = i + 1
  <2>1. CASE j \in 1..(n + 1)
    <3>1. i \in 1..(n + 1)
      BY <1>1, <1>5, <2>1
    <3>2. p[i] = p[j]
      BY <1>3, <1>5, <2>1, <3>1
    <3> QED
      BY <1>4, <1>5, <2>1, <3>1, <3>2
  <2>2. CASE j = n + 2 /\ i \in 1..n
    <3>1. i \in 1..(n + 1)
      BY <1>1, <2>2
    <3>2. q[i] = c[i]
      BY <1>1, <1>3, <2>2, <3>1
    <3> QED
      BY <1>2, <1>3, <1>5, <2>2, <3>2
  <2>3. CASE j = n + 2 /\ i = n + 1
    BY <1>1, <2>3
  <2> QED
    BY <1>1, <1>5, <2>1, <2>2, <2>3
<1>6. Bounded(q)
  BY <1>3, <1>5 DEF Bounded
<1> QED
  BY <1>6 DEF p, q

\* A task that keeps its job keeps its path, and a freed one has none.
LEMMA SamePath ==
  ASSUME NEW t \in Task, PathOf(t), life'[t] # "FREE" => life[t] # "FREE",
         life'[t] # "FREE" =>
           task'[t].subject = task[t].subject /\ task'[t].caller = task[t].caller
  PROVE  PathOf(t)'
BY DEF PathOf, Path

\* A task that actor a starts is one step behind what a executes.
LEMMA StartedPath ==
  ASSUME TypeOK, ActInv, PathsBounded, NEW a \in Actor, op[a] \in Op
  PROVE  Bounded(Append(Path(a), op[a].on))
<1>1. op[a].on \in Scene \union Gate
  BY OpType
<1>2. CASE a \notin Task
  <2>1. Path(a) = <<>>
    BY <1>2 DEF Path
  <2> DEFINE p == Append(Path(a), op[a].on)
  <2>2. DOMAIN p = {1}
    BY <1>1, <2>1
  <2> HIDE DEF p
  <2>3. Bounded(p)
    BY <2>2 DEF Bounded
  <2> QED
    BY <2>3 DEF p
<1>3. CASE a \in Task
  <2>1. op[a] # None
    BY OpType
  <2>2. pc[a] # "idle" /\ task[a].subject \in Scene /\ Allowed(a, op[a])
    BY <1>3, <2>1 DEF ActInv
  <2>3. life[a] # "FREE"
    BY <1>3, <2>2 DEF ActInv
  <2>4. Path(a) = Append(task[a].caller, task[a].subject)
    BY <1>3 DEF Path
  <2>5. Bounded(Path(a))
    BY <1>3, <2>3 DEF PathsBounded, Bounded
  <2>6. task[a].caller \in Seq(Scene)
    BY <1>3 DEF TypeOK, Job
  <2>7. op[a].on \in Gate \/ op[a].on \notin Elements(task[a].caller)
    BY <2>2 DEF Allowed
  <2> QED
    BY <1>1, <2>2, <2>4, <2>5, <2>6, <2>7, LongerPath
<1> QED
  BY <1>2, <1>3

LEMMA CancelPath ==
  ASSUME TypeOK, NEW t \in Task, PathOf(t), NEW S, cancel_tasks(S), UNCHANGED task
  PROVE  PathOf(t)'
<1>1. life'[t] = IF t \in S THEN "CANCELED" ELSE life[t]
  BY CancelProps DEF TypeOK, LifeValues
<1>2. t \in S => life[t] # "FREE"
  BY DEF cancel_tasks, Engine!Cancel, Engine!Live
<1> QED
  BY <1>1, <1>2, SamePath

LEMMA NextPath == TypeOK /\ ActInv /\ PathsBounded /\ [Next]_vars => PathsBounded'
<1> SUFFICES ASSUME TypeOK, ActInv, PathsBounded, [Next]_vars, NEW t \in Task
             PROVE  PathOf(t)'
  BY DEF PathsBounded, PathOf, Bounded
<1> USE DEF evars
<1>0. /\ life \in [Task -> LifeValues] /\ queue \in Seq(Task) /\ task \in [Task -> Job]
      /\ PathOf(t)
  BY DEF TypeOK, LifeValues, PathsBounded, PathOf, Bounded
<1>1. ASSUME NEW a \in Actor, Act(a) PROVE PathOf(t)'
  <2>1. ActEffect(a) /\ op[a] \in Op
    BY <1>1, ActSteps
  <2>2. CASE UNCHANGED <<life, busy, queue, task>>
    BY <1>0, <2>2, SamePath
  <2>3. ASSUME NEW S, cancel_tasks(S), UNCHANGED task PROVE PathOf(t)'
    BY <1>0, <2>3, CancelPath
  <2>4. ASSUME NEW job \in Job, Starts(a, job) PROVE PathOf(t)'
    <3>1. PICK u \in Task : /\ life[u] = "FREE" /\ life' = [life EXCEPT ![u] = "WAITING"]
                            /\ task' = [task EXCEPT ![u] = job]
      BY <1>0, <2>4, EnqueueProps DEF Starts
    <3>2. CASE t = u
      <4>1. task'[t].caller = Path(a) /\ task'[t].subject = op[a].on
        BY <1>0, <2>4, <3>1, <3>2 DEF Starts
      <4>2. Path(t)' = Append(Path(a), op[a].on)
        BY <4>1 DEF Path
      <4> QED
        BY <2>1, <4>2, StartedPath DEF PathOf
    <3>3. CASE t # u
      <4>1. life'[t] = life[t] /\ task'[t] = task[t]
        BY <1>0, <3>1, <3>3
      <4> QED
        BY <1>0, <4>1, SamePath
    <3> QED
      BY <3>2, <3>3
  <2> QED
    BY <2>1, <2>2, <2>3, <2>4 DEF ActEffect
<1>2. ASSUME NEW u \in Task, Pick(u) \/ Run(u) PROVE PathOf(t)'
  <2>1. life[u] # "FREE" /\ task' = task /\ \A v \in Task : v # u => life'[v] = life[v]
    BY <1>0, <1>2 DEF Pick, Run, Engine!Take, Engine!Run, Engine!Moves
  <2> QED
    BY <1>0, <2>1, SamePath
<1>3. ASSUME NEW u \in Task, Release(u) PROVE PathOf(t)'
  <2>1. life' = [life EXCEPT ![u] = "FREE"] /\ task' = [task EXCEPT ![u] = NoJob]
    BY <1>3 DEF Release, Engine!Free
  <2>2. life'[t] # "FREE" => life'[t] = life[t] /\ task'[t] = task[t]
    BY <1>0, <2>1
  <2> QED
    BY <1>0, <2>2, SamePath
<1>4. ASSUME NEW u \in Task,
             ReturnMore(u) \/ ReturnWait(u) \/ ReturnEnd(u) \/ GateDone(u) \/ GatePulse(u)
      PROVE  PathOf(t)'
  <2>1. SameJobs /\ \E s \in {"WAITING", "SUCCESS", "FAILURE"} : Returns(u, s)
    BY <1>4, ReturnSteps
  <2>2. PICK s \in {"WAITING", "SUCCESS", "FAILURE"} : Returns(u, s)
    BY <2>1
  <2>3. \/ life' = life
        \/ life[u] = "EXECUTING" /\ life' = [life EXCEPT ![u] = s]
    BY <2>2, ReturnsProps
  <2>4. life'[t] # "FREE" => life[t] # "FREE"
    BY <1>0, <2>3
  <2> QED
    BY <1>0, <2>1, <2>4, SamePath DEF SameJobs
<1>5. ASSUME NEW u \in Task, Pop(u) \/ GateTry(u) PROVE PathOf(t)'
  <2>1. SameJobs /\ life' = life
    BY <1>5, PopSteps, GateTrySteps
  <2> QED
    BY <1>0, <2>1, SamePath DEF SameJobs
<1>6. ASSUME NEW g \in Gate, on_related_sensor_value_changed(g) PROVE PathOf(t)'
  BY <1>0, <1>6, CancelPath DEF on_related_sensor_value_changed
<1>7. ASSUME UNCHANGED <<life, task>> PROVE PathOf(t)'
  BY <1>0, <1>7, SamePath
<1>8. ASSUME NEW r \in Requester, NEW o \in Requests, Ask(r, o) PROVE PathOf(t)'
  BY <1>7, <1>8 DEF Ask
<1>9. ASSUME NEW u \in Task, NotRun(u) PROVE PathOf(t)'
  BY <1>7, <1>9 DEF NotRun, Engine!GiveUp
<1>10. CASE Rest \/ UNCHANGED vars
  BY <1>7, <1>10 DEF Rest, vars
<1> QED
  BY <1>1, <1>2, <1>3, <1>4, <1>5, <1>6, <1>8, <1>9, <1>10, ActorType DEF Next, Carry, Execute

\* However scenes are told to execute and restart each other, the path from the
\* first scene to a task holds a scene once, or twice in a row: the search among
\* the callers ends every ring of scenes.
THEOREM PathsBoundedHolds == Spec => []PathsBounded
<1>1. Init => PathsBounded
  BY DEF Init, PathsBounded
<1> QED
  BY <1>1, InvCorrect, NextPath, PTL DEF Spec

----------------------------------------------------------------------------
(* What is left of a scene that was interrupted *)

\* The late operations of left, without the first one when it is due, and what
\* follows from the first of them on.
Late(left, due) == {k \in DOMAIN left : left[k].late /\ (due => k > 1)}
From(left, late) ==
  IF late = {} THEN <<>>
  ELSE SubSeq(left, CHOOSE k \in late : \A j \in late : k <= j, Len(left))

LEMMA LaterIs == \A t : Later(t) = From(task[t].left, Late(task[t].left, pc[t] = "pop"))
BY DEF Later, From, Late

\* An operation that is due or not late is not part of what is left for later.
LEMMA PopKeepsLater ==
  ASSUME NEW left \in Seq(Op), left # <<>>, NEW due \in BOOLEAN, due \/ ~Head(left).late
  PROVE  From(Tail(left), Late(Tail(left), FALSE)) = From(left, Late(left, due))
<1> DEFINE n == Len(left)
           tail == Tail(left)
           S == Late(left, due)
           T == Late(tail, FALSE)
<1>1. /\ n \in Nat /\ n >= 1 /\ DOMAIN left = 1..n /\ tail \in Seq(Op) /\ Len(tail) = n - 1
      /\ DOMAIN tail = 1..(n - 1) /\ \A k \in 1..(n - 1) : tail[k] = left[k + 1]
      /\ Head(left) = left[1]
  BY HeadTailProperties
<1>2. \A k \in 1..n : k > 1 => k - 1 \in 1..(n - 1) /\ (k - 1) + 1 = k
  BY <1>1
<1>3. \A k \in 1..(n - 1) : k + 1 \in 1..n /\ k + 1 > 1
  BY <1>1
<1>4. \A k \in S : k \in 1..n /\ k > 1 /\ left[k].late
  <2>1. \A k \in S : k \in 1..n /\ left[k].late /\ (due => k > 1)
    BY <1>1 DEF Late
  <2> HIDE DEF S, n
  <2>2. ASSUME 1 \in S PROVE FALSE
    <3>1. left[1].late /\ (due => 1 > 1)
      BY <2>1, <2>2
    <3>2. ~(1 > 1)
      OBVIOUS
    <3>3. due \/ ~left[1].late
      BY <1>1
    <3> QED
      BY <3>1, <3>2, <3>3
  <2>3. \A k \in S : k # 1
    BY <2>2
  <2> QED
    BY <1>1, <2>1, <2>3
<1>5. \A k \in 1..n : k > 1 /\ left[k].late => k \in S
  BY <1>1 DEF Late
<1>6. \A k : k \in T <=> k \in 1..(n - 1) /\ tail[k].late
  BY <1>1 DEF Late
<1> HIDE DEF n, tail, S, T
<1>7. \A k \in S : k - 1 \in T
  BY <1>1, <1>2, <1>4, <1>6
<1>8. \A k \in T : k + 1 \in S
  BY <1>1, <1>3, <1>5, <1>6
<1>9. S \subseteq 1..n /\ T \subseteq 1..(n - 1)
  BY <1>4, <1>6
<1>10. CASE S = {}
  <2>1. T = {}
    BY <1>8, <1>10
  <2> QED
    BY <1>10, <2>1 DEF From, S, T, tail
<1>11. CASE S # {}
  <2> DEFINE m == CHOOSE k \in S : \A j \in S : k <= j
             l == CHOOSE k \in T : \A j \in T : k <= j
  <2>1. T # {}
    BY <1>7, <1>11
  <2>2. S \in SUBSET Nat /\ T \in SUBSET Nat
    BY <1>1, <1>9
  <2>3. m \in S /\ \A j \in S : m <= j
    <3>1. \E k \in S : \A j \in S : k <= j
      BY <1>11, <2>2, LeastNumber
    <3> QED
      BY <3>1
  <2>4. l \in T /\ \A j \in T : l <= j
    <3>1. \E k \in T : \A j \in T : k <= j
      BY <2>1, <2>2, LeastNumber
    <3> QED
      BY <3>1
  <2>5. From(left, S) = SubSeq(left, m, n) /\ From(tail, T) = SubSeq(tail, l, Len(tail))
    BY <1>11, <2>1 DEF From, n
  <2> HIDE DEF m, l
  <2>6. l = m - 1
    <3>1. m - 1 \in T /\ l + 1 \in S
      BY <1>7, <1>8, <2>3, <2>4
    <3>2. l <= m - 1 /\ m <= l + 1
      BY <2>3, <2>4, <3>1
    <3> QED
      BY <2>2, <2>3, <2>4, <3>2
  <2>7. m \in 1..n /\ m > 1 /\ l \in 1..(n - 1)
    BY <1>4, <1>9, <2>3, <2>4
  <2>8. SubSeq(tail, l, n - 1) = SubSeq(left, m, n)
    <3> DEFINE s == SubSeq(left, m, n)
               r == SubSeq(tail, l, n - 1)
    <3>1. s \in Seq(Op) /\ Len(s) = n - m + 1 /\ \A i \in 1..(n - m + 1) : s[i] = left[m + i - 1]
      BY <1>1, <2>7, SubSeqProperties DEF n
    <3>2. r \in Seq(Op) /\ Len(r) = (n - 1) - l + 1 /\ \A i \in 1..((n - 1) - l + 1) : r[i] = tail[l + i - 1]
      <4> DEFINE e == n - 1
      <4>1. tail \in Seq(Op) /\ Len(tail) = e
        BY <1>1
      <4>2. l \in Int /\ e \in Int /\ l <= e /\ l \in 1..e
        BY <1>1, <2>7
      <4> HIDE DEF e, r
      <4>3. \A i \in l..e : tail[i] \in Op
        BY <4>1, <4>2
      <4>4. /\ SubSeq(tail, l, e) \in Seq(Op) /\ Len(SubSeq(tail, l, e)) = e - l + 1
            /\ \A i \in 1..(e - l + 1) : SubSeq(tail, l, e)[i] = tail[l + i - 1]
        BY <4>2, <4>3, SubSeqProperties
      <4> QED
        BY <4>4 DEF e, r
    <3> HIDE DEF s, r
    <3>3. (n - 1) - l + 1 = n - m + 1
      BY <1>1, <2>6, <2>7
    <3>4. \A i \in 1..(n - m + 1) : l + i - 1 \in 1..(n - 1) /\ (l + i - 1) + 1 = m + i - 1
      BY <1>1, <2>6, <2>7
    <3>5. \A i \in 1..(n - m + 1) : r[i] = s[i]
      BY <1>1, <3>1, <3>2, <3>3, <3>4
    <3>6. r = s
      BY <3>1, <3>2, <3>3, <3>5, SeqEqual
    <3> QED
      BY <3>6 DEF s, r
  <2>9. Len(tail) = n - 1
    BY <1>1
  <2> QED
    BY <2>5, <2>8, <2>9 DEF S, T, tail
<1> QED
  BY <1>10, <1>11

Stops(t) == life[t] = "CANCELED" /\ life'[t] = "CANCELED" => Later(t)' = Later(t)

LEMMA SameLater ==
  ASSUME NEW t, task'[t].left = task[t].left, pc'[t] = "pop" <=> pc[t] = "pop"
  PROVE  Stops(t)
<1>1. Late(task[t].left, pc'[t] = "pop") = Late(task[t].left, pc[t] = "pop")
  BY DEF Late
<1>2. Later(t)' = From(task'[t].left, Late(task'[t].left, pc'[t] = "pop"))
  BY DEF Later, From, Late
<1> QED
  BY <1>1, <1>2, LaterIs DEF Stops

LEMMA NoneLater ==
  ASSUME NEW t, task'[t].left = task[t].left, task[t].left = <<>>
  PROVE  Stops(t)
<1>1. \A due : Late(<<>>, due) = {}
  BY DEF Late
<1>2. Later(t) = <<>>
  BY <1>1, LaterIs DEF From
<1>3. Later(t)' = <<>>
  <2>1. Later(t)' = From(task'[t].left, Late(task'[t].left, pc'[t] = "pop"))
    BY DEF Later, From, Late
  <2> QED
    BY <1>1, <2>1 DEF From
<1> QED
  BY <1>2, <1>3 DEF Stops

LEMMA NextStops == TypeOK /\ ActInv /\ [Next]_vars => \A t \in Task : Stops(t)
<1> SUFFICES ASSUME TypeOK, ActInv, [Next]_vars, NEW t \in Task PROVE Stops(t)
  OBVIOUS
<1> USE DEF evars
<1>0. /\ life \in [Task -> LifeValues] /\ queue \in Seq(Task) /\ task \in [Task -> Job]
      /\ pc \in Pcs /\ op \in Ops /\ t \in Actor
  BY ActorType DEF TypeOK, LifeValues, Pcs, Ops
<1>1. ASSUME NEW a \in Actor, Act(a) PROVE Stops(t)
  <2>1. Goes(a) /\ ActEffect(a) /\ op[a] \in Op
    BY <1>1, ActSteps
  <2>2. pc'[t] = "pop" <=> pc[t] = "pop"
    <3>1. CASE t = a
      <4>1. pc[t] # "pop"
        BY <2>1, <3>1, OpType DEF ActInv
      <4>2. pc'[t] # "pop"
        BY <2>1, <3>1 DEF Goes
      <4> QED
        BY <4>1, <4>2
    <3>2. CASE t # a
      BY <1>0, <2>1, <3>2 DEF Goes
    <3> QED
      BY <3>1, <3>2
  <2>3. CASE task' = task
    BY <2>2, <2>3, SameLater
  <2>4. ASSUME NEW job \in Job, Starts(a, job) PROVE Stops(t)
    <3>1. PICK u \in Task : life[u] = "FREE" /\ task' = [task EXCEPT ![u] = job]
      BY <1>0, <2>4, EnqueueProps DEF Starts
    <3>2. CASE t = u
      BY <3>1, <3>2 DEF Stops
    <3>3. CASE t # u
      BY <1>0, <2>2, <3>1, <3>3, SameLater
    <3> QED
      BY <3>2, <3>3
  <2> QED
    BY <2>1, <2>3, <2>4 DEF ActEffect
<1>2. ASSUME UNCHANGED <<task, pc>> PROVE Stops(t)
  BY <1>2, SameLater
<1>3. ASSUME NEW r \in Requester, NEW o \in Requests, Ask(r, o) PROVE Stops(t)
  <2>1. r \in Actor /\ o \in Op /\ r # t
    BY ActorType, ScenesAssumption
  <2>2. pc'[t] = pc[t] /\ task' = task
    BY <1>0, <1>3, <2>1, PerformType DEF Ask
  <2> QED
    BY <2>2, SameLater
<1>4. ASSUME NEW u \in Task, Run(u) PROVE Stops(t)
  <2>1. life[u] = "PICKED" /\ task' = task /\ Go(u, "pop")
    BY <1>4 DEF Run, Engine!Run, Engine!Moves
  <2>2. CASE t = u
    BY <2>1, <2>2 DEF Stops
  <2>3. CASE t # u
    <3>1. "pop" \in Pc /\ u \in Actor
      BY ActorType DEF Pc
    <3>2. pc'[t] = pc[t]
      BY <1>0, <2>1, <2>3, <3>1, GoType
    <3> QED
      BY <2>1, <3>2, SameLater
  <2> QED
    BY <2>2, <2>3
<1>5. ASSUME NEW u \in Task, Release(u) PROVE Stops(t)
  <2>1. /\ life' = [life EXCEPT ![u] = "FREE"] /\ task' = [task EXCEPT ![u] = NoJob] /\ pc' = pc
    BY <1>5 DEF Release, Engine!Free
  <2>2. CASE t = u
    BY <1>0, <2>1, <2>2 DEF Stops
  <2>3. CASE t # u
    BY <1>0, <2>1, <2>3, SameLater
  <2> QED
    BY <2>2, <2>3
<1>6. ASSUME NEW u \in Task, Pop(u) PROVE Stops(t)
  <2>1. /\ \A b \in Actor : b # u => pc'[b] = pc[b]
        /\ \A v \in Task : v # u => task'[v] = task[v]
        /\ pc[u] \in {"pop", "next"} /\ pc'[u] # "pop"
        /\ \/ task[u].left = <<>> /\ task'[u].left = <<>>
           \/ task[u].left # <<>> /\ task'[u].left = Tail(task[u].left)
    BY <1>6, PopSteps
  <2>2. CASE t # u
    BY <1>0, <2>1, <2>2, SameLater
  <2>3. CASE t = u /\ task[u].left = <<>>
    BY <2>1, <2>3, NoneLater
  <2>4. CASE t = u /\ task[u].left # <<>>
    <3>1. task[t].left \in Seq(Op)
      BY <1>0 DEF Job
    <3>2. pc[t] = "pop" \/ ~Head(task[t].left).late
      BY <1>6, <2>4 DEF Pop, Continues
    <3>3. From(Tail(task[t].left), Late(Tail(task[t].left), FALSE))
            = From(task[t].left, Late(task[t].left, pc[t] = "pop"))
      BY <2>4, <3>1, <3>2, PopKeepsLater
    <3>4. Later(t)' = From(task'[t].left, Late(task'[t].left, pc'[t] = "pop"))
      BY DEF Later, From, Late
    <3>5. Late(task'[t].left, pc'[t] = "pop") = Late(task'[t].left, FALSE)
      BY <2>1, <2>4 DEF Late
    <3>6. Later(t)' = Later(t)
      BY <2>1, <2>4, <3>3, <3>4, <3>5, LaterIs
    <3> QED
      BY <3>6 DEF Stops
  <2> QED
    BY <2>2, <2>3, <2>4
<1>7. ASSUME NEW u \in Task, pc'[u] # "pop", pc[u] = "pop" => task[u].subject \in Gate,
             \A b \in Actor : b # u => pc'[b] = pc[b],
             \A v \in Task : task'[v].left = task[v].left
      PROVE  Stops(t)
  <2>1. CASE t = u /\ pc[t] = "pop"
    <3>1. task[t].left = <<>>
      BY <1>7, <2>1 DEF ActInv
    <3> QED
      BY <1>7, <3>1, NoneLater
  <2>2. CASE t = u /\ pc[t] # "pop"
    BY <1>7, <2>2, SameLater
  <2>3. CASE t # u
    BY <1>0, <1>7, <2>3, SameLater
  <2> QED
    BY <2>1, <2>2, <2>3
<1>8. ASSUME NEW u \in Task, GateTry(u) PROVE Stops(t)
  <2>1. /\ \A b \in Actor : b # u => pc'[b] = pc[b]
        /\ pc'[u] # "pop" /\ task[u].subject \in Gate
        /\ \A v \in Task : task'[v].left = task[v].left
    BY <1>8, GateTrySteps
  <2> QED
    BY <1>7, <2>1
<1>9. ASSUME NEW u \in Task,
             ReturnMore(u) \/ ReturnWait(u) \/ ReturnEnd(u) \/ GateDone(u) \/ GatePulse(u)
      PROVE  Stops(t)
  <2>1. /\ \E s \in {"WAITING", "SUCCESS", "FAILURE"} : Returns(u, s)
        /\ \A v \in Task : task'[v].left = task[v].left
        /\ pc[u] = "pop" => task[u].subject \in Gate
    BY <1>9, ReturnSteps
  <2>2. pc'[u] = "idle" /\ \A b \in Actor : b # u => pc'[b] = pc[b]
    BY <2>1, ReturnsProps
  <2> QED
    BY <1>7, <2>1, <2>2
<1>10. ASSUME NEW u \in Task, Pick(u) \/ NotRun(u) PROVE Stops(t)
  BY <1>2, <1>10 DEF Pick, NotRun
<1>11. ASSUME NEW g \in Gate, on_related_sensor_value_changed(g) PROVE Stops(t)
  BY <1>2, <1>11 DEF on_related_sensor_value_changed
<1>12. CASE Rest \/ UNCHANGED vars
  BY <1>2, <1>12 DEF Rest, vars
<1> QED
  BY <1>1, <1>3, <1>4, <1>5, <1>6, <1>8, <1>9, <1>10, <1>11, <1>12, ActorType
     DEF Next, Carry, Execute

\* A scene that was interrupted while its operations run ends with the last one
\* that follows within a second: nothing behind a longer delay is executed.
THEOREM InterruptedStopsHolds == Spec => InterruptedStops
<1>1. TypeOK /\ ActInv /\ [Next]_vars =>
        [\A t \in Task :
           life[t] = "CANCELED" /\ life'[t] = "CANCELED" => Later(t)' = Later(t)]_vars
  BY NextStops DEF Stops
<1> QED
  BY <1>1, InvCorrect, PTL DEF Spec, InterruptedStops
=============================================================================
