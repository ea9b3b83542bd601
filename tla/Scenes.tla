------------------------------- MODULE Scenes -------------------------------
(***************************************************************************)
(* Scenes and gates of one user: the scenes that execute, restart and      *)
(* interrupt each other (supla_scene_asynctask), the tasks that open or    *)
(* close a gate and verify that it obeyed (supla_action_gate_openclose),   *)
(* and the threads that ask for all of this.                               *)
(*                                                                         *)
(* A scene or gate task runs on the asynchronous task engine, of which     *)
(* this module uses what TaskLifecycle promises and AsyncTask implements,  *)
(* and the order of the queue.  An actor is a thread that asks for an      *)
(* action (a client's call, the IPC, the cyclic closing of gates) or the   *)
(* thread that executes a task; both run the same code.                    *)
(*                                                                         *)
(* Time is left to chance: a delay has elapsed when the task is picked.    *)
(* An operation is late when its delay is longer than a second.            *)
(*                                                                         *)
(* Left out: operations that only send a value to a device, the database   *)
(* of scenes (a scene does not change here), groups of channels.           *)
(***************************************************************************)
EXTENDS Lists, Integers

CONSTANTS
  Scene, Gate,
  Task,         \* addresses of task objects
  Requester,    \* threads that ask for an action
  Programs,     \* the sets of scenes a user may have: [Scene -> Seq(Op)]
  Requests,     \* the operations a requester may ask for
  Estimated,    \* scenes estimated to take longer than their own operations
  Attempts,     \* the number of attempts to open or close a gate
  Verified,     \* gates with the active verification method
  MaxRequests,  \* Bound: requests
  None

Actor == Requester \union Task
Op == [do : {"execute", "interrupt", "restart"}, on : Scene, late : BOOLEAN]
      \union [do : {"open", "close", "toggle"}, on : Gate, late : BOOLEAN]

ASSUME ScenesAssumption ==
  /\ Scene \cap Gate = {} /\ Requester \cap Task = {}
  /\ Programs \subseteq [Scene -> Seq(Op)] /\ Requests \subseteq Op
  /\ Estimated \subseteq Scene
  /\ Attempts \in Nat \ {0} /\ Verified \subseteq Gate /\ MaxRequests \in Nat
  /\ None \notin Scene \union Gate \union Op

VARIABLES
  operations,  \* [Scene -> Seq(Op)], what the database has
  life, busy,  \* the states of the tasks and the tasks a thread has taken
  queue,       \* Seq(Task)
  task,        \* [Task -> Job]
  pc,          \* [Actor -> Pc]
  op,          \* [Actor -> Op or None]: the action it executes
  gate,        \* [Gate -> BOOLEAN]: the gate is open, as its sensor tells
  news,        \* gates whose sensor has changed and was not reported
  requests     \* number of requests so far

evars == <<life, busy, queue>>
gvars == <<gate, news>>
vars == <<operations, evars, task, pc, op, gvars, requests>>

Engine == INSTANCE TaskLifecycle

Pc == {"idle", "exists", "active", "running", "cancel", "start", "pulse",
       "pop", "next"}

Job == [subject : Scene \union Gate \union {None},
        caller : Seq(Scene),    \* the scenes among the callers, first one first
        left : Seq(Op),         \* operations of a scene
        waited : BOOLEAN,       \* it has waited for the scenes it started
        open : BOOLEAN,         \* a gate's task opens
        tries : Int]            \* attempt_count_left

NoJob == [subject |-> None, caller |-> <<>>, left |-> <<>>, waited |-> FALSE,
          open |-> FALSE, tries |-> 0]

Go(a, to) == pc' = [pc EXCEPT ![a] = to]
Finished(t) == life[t] \in {"SUCCESS", "FAILURE", "CANCELED"}

Init ==
  /\ operations \in Programs
  /\ life = [t \in Task |-> "FREE"] /\ busy = {} /\ queue = <<>>
  /\ task = [t \in Task |-> NoJob]
  /\ pc = [a \in Actor |-> "idle"] /\ op = [a \in Actor |-> None]
  /\ gate = [g \in Gate |-> FALSE] /\ news = {} /\ requests = 0

----------------------------------------------------------------------------
(* Search conditions *)

\* The tasks of a scene or a gate that are in the queue.
Of(x) == {t \in Elements(queue) : task[t].subject = x}

\* A scene with its sub tasks: what was started by it, or by what it started.
WithSubTasks(s) ==
  Of(s) \union {t \in Elements(queue) : s \in Elements(task[t].caller)}

Opening(g, open) == {t \in Of(g) : task[t].open = open}

\* Mutant of cancel_tasks: the cancelled tasks stay in the queue.
cancel_tasks_keep(S) == Engine!Cancel(S) /\ UNCHANGED queue

\* cancel_tasks(): under the lock of the queue.
cancel_tasks(S) ==
  /\ Engine!Cancel(S)
  /\ queue' = Filter(queue, Task \ S)

----------------------------------------------------------------------------
(* Execution of an action by actor a *)

\* execute_action() and what it calls first.
First(o) ==
  CASE o.do = "restart" -> "active"
    [] o.do = "interrupt" -> "running"
    [] o.do = "toggle" -> "cancel"
    [] OTHER -> "exists"

Perform(a, o) == op' = [op EXCEPT ![a] = o] /\ Go(a, First(o))

Done(a) ==
  /\ op' = [op EXCEPT ![a] = None] /\ Go(a, IF a \in Task THEN "next" ELSE "idle")

At(a, step, dos) == pc[a] = step /\ op[a] # None /\ op[a].do \in dos

\* A client, the IPC or a cyclic task asks.
Ask(r, o) ==
  /\ requests < MaxRequests /\ pc[r] = "idle"
  /\ requests' = requests + 1
  /\ Perform(r, o)
  /\ UNCHANGED <<operations, evars, task, gvars>>

\* supla_scene_asynctask::execute(): the scene is being executed, it is in
\* its inactive period, or it may start.
ExecuteScene(a) ==
  /\ At(a, "exists", {"execute"})
  /\ \/ Done(a)
     \/ Of(op[a].on) = {} /\ Go(a, "start") /\ UNCHANGED op
  /\ UNCHANGED <<operations, evars, task, gvars, requests>>

\* ... with interrupt_before_execute: only the period counts.
RestartScene(a) ==
  /\ At(a, "active", {"restart"})
  /\ \/ Done(a)
     \/ Go(a, "running") /\ UNCHANGED op
  /\ UNCHANGED <<operations, evars, task, gvars, requests>>

AfterInterrupt(a) ==
  IF op[a].do = "restart" THEN Go(a, "start") /\ UNCHANGED op ELSE Done(a)

\* interrupt(): there is nothing to do when the first task of the scene is
\* finished, or there is none.
InterruptCheck(a) ==
  LET of == Filter(queue, Of(op[a].on)) IN
  /\ At(a, "running", {"interrupt", "restart"})
  /\ IF of = <<>> \/ Finished(of[1]) THEN AfterInterrupt(a)
     ELSE Go(a, "cancel") /\ UNCHANGED op
  /\ UNCHANGED <<operations, evars, task, gvars, requests>>

InterruptCancel(a) ==
  /\ At(a, "cancel", {"interrupt", "restart"})
  /\ cancel_tasks(WithSubTasks(op[a].on))
  /\ AfterInterrupt(a)
  /\ UNCHANGED <<operations, task, gvars, requests>>

\* The callers of what actor a starts.
Path(a) == IF a \in Task THEN Append(task[a].caller, task[a].subject) ELSE <<>>

\* A task is created and start() puts it into the queue.  Nobody else knows it
\* in between.
Enqueue(job) ==
  LET t == CHOOSE u \in Task : life[u] = "FREE" IN
  /\ \E u \in Task : life[u] = "FREE"
  /\ life' = [life EXCEPT ![t] = "WAITING"]
  /\ queue' = Append(queue, t)
  /\ task' = [task EXCEPT ![t] = job]
  /\ UNCHANGED busy

StartScene(a) ==
  /\ At(a, "start", {"execute", "restart"})
  /\ Done(a)
  /\ IF operations[op[a].on] = <<>> THEN UNCHANGED <<evars, task>>
     ELSE Enqueue([NoJob EXCEPT !.subject = op[a].on, !.caller = Path(a),
                                !.left = operations[op[a].on]])
  /\ UNCHANGED <<operations, gvars, requests>>

\* The device is not connected or the channel cannot be written: nothing is
\* done about the gate.
DeviceAway(a) ==
  /\ op[a] # None /\ op[a].on \in Gate /\ pc[a] = First(op[a])
  /\ Done(a)
  /\ UNCHANGED <<operations, evars, task, gvars, requests>>

\* supla_action_gate_openclose::open_close(): a task that does the same is
\* left alone ...
OpenClose(a) ==
  /\ At(a, "exists", {"open", "close"})
  /\ IF Opening(op[a].on, op[a].do = "open") # {} THEN Done(a)
     ELSE Go(a, "cancel") /\ UNCHANGED op
  /\ UNCHANGED <<operations, evars, task, gvars, requests>>

\* ... and every other one of the gate is cancelled.  So it is when the gate
\* is toggled (async_set_channel_value).
CancelGate(a) ==
  /\ At(a, "cancel", {"open", "close", "toggle"})
  /\ cancel_tasks(Of(op[a].on))
  /\ Go(a, IF op[a].do = "toggle" THEN "pulse" ELSE "start")
  /\ UNCHANGED <<operations, task, op, gvars, requests>>

StartGate(a) ==
  /\ At(a, "start", {"open", "close"})
  /\ Done(a)
  /\ Enqueue([NoJob EXCEPT !.subject = op[a].on, !.caller = Path(a),
                           !.open = (op[a].do = "open"), !.tries = Attempts])
  /\ UNCHANGED <<operations, gvars, requests>>

\* External: the gate starts to move and its sensor changes, or it does not.
Pulse(g) ==
  \/ UNCHANGED gvars
  \/ gate' = [gate EXCEPT ![g] = ~@] /\ news' = news \union {g}

Toggle(a) ==
  /\ At(a, "pulse", {"toggle"})
  /\ Pulse(op[a].on) /\ Done(a)
  /\ UNCHANGED <<operations, evars, task, requests>>

----------------------------------------------------------------------------
(* The engine: a thread takes a task, and lets it go *)

Pick(t) ==
  /\ t \in Elements(queue) /\ Engine!Take(t)
  /\ UNCHANGED <<operations, queue, task, pc, op, gvars, requests>>

Run(t) ==
  /\ Engine!Run(t) /\ Go(t, "pop")
  /\ UNCHANGED <<operations, queue, task, op, gvars, requests>>

\* It was cancelled before it ran.
NotRun(t) ==
  /\ pc[t] = "idle" /\ Engine!GiveUp(t)
  /\ UNCHANGED <<operations, queue, task, pc, op, gvars, requests>>

\* _execute() returns and the task gets the state s, unless it was cancelled.
Returns(t, s) ==
  /\ IF life[t] = "CANCELED" THEN Engine!GiveUp(t) ELSE Engine!End(t, s)
  /\ Go(t, "idle")
  /\ UNCHANGED queue

\* A finished task leaves the queue and is freed.
Release(t) ==
  /\ Finished(t) /\ Engine!Free(t)
  /\ queue' = Filter(queue, Task \ {t})
  /\ task' = [task EXCEPT ![t] = NoJob]
  /\ UNCHANGED <<operations, pc, op, gvars, requests>>

----------------------------------------------------------------------------
(* supla_scene_asynctask::_execute *)

\* Mutant of Allowed: the callers are not searched.
AllowedAlways(t, o) == TRUE

\* A scene that is among the callers is not touched.
Allowed(t, o) == o.on \in Gate \/ o.on \notin Elements(task[t].caller)

\* Mutant of Continues: late operations are not waited for.
ContinuesAlways(t) == task[t].left # <<>>

\* The operations that follow within a second belong to the same _execute.
Continues(t) == task[t].left # <<>> /\ ~Head(task[t].left).late

\* The next operation, if there is one: the first of an _execute, or one that
\* follows within a second.
Pop(t) ==
  /\ pc[t] = "pop" \/ (pc[t] = "next" /\ Continues(t))
  /\ task[t].subject \in Scene
  /\ IF task[t].left = <<>> THEN Go(t, "next") /\ UNCHANGED <<op, task>>
     ELSE /\ task' = [task EXCEPT ![t].left = Tail(@)]
          /\ IF Allowed(t, Head(task[t].left)) THEN Perform(t, Head(task[t].left))
             ELSE Go(t, "next") /\ UNCHANGED op
  /\ UNCHANGED <<operations, evars, gvars, requests>>

\* It is executed again for the operations left, ...
ReturnMore(t) ==
  /\ pc[t] = "next" /\ ~Continues(t) /\ task[t].left # <<>>
  /\ Returns(t, "WAITING")
  /\ UNCHANGED <<operations, task, op, gvars, requests>>

\* ... or once more when the estimated time has not elapsed.
ReturnWait(t) ==
  /\ pc[t] = "next" /\ task[t].left = <<>>
  /\ task[t].subject \in Estimated /\ ~task[t].waited
  /\ task' = [task EXCEPT ![t].waited = TRUE]
  /\ Returns(t, "WAITING")
  /\ UNCHANGED <<operations, op, gvars, requests>>

ReturnEnd(t) ==
  /\ pc[t] = "next" /\ task[t].left = <<>>
  /\ Returns(t, "SUCCESS")
  /\ UNCHANGED <<operations, task, op, gvars, requests>>

----------------------------------------------------------------------------
(* supla_action_gate_openclose::_execute *)

\* The sensor is read.  It may be unknown at any time, which ends the task, as
\* does the last attempt or a gate that is where it should be.
GateDone(t) ==
  /\ pc[t] = "pop" /\ task[t].subject \in Gate
  /\ \/ Returns(t, "FAILURE")
     \/ task[t].open = gate[task[t].subject] /\ Returns(t, "SUCCESS")
  /\ UNCHANGED <<operations, task, op, gvars, requests>>

\* Mutant of GateTry: attempts are not counted.
GateTryFree(t) ==
  /\ pc[t] = "pop" /\ task[t].subject \in Gate
  /\ task[t].open # gate[task[t].subject] /\ task[t].tries > 0
  /\ Go(t, "pulse")
  /\ UNCHANGED <<operations, evars, task, op, gvars, requests>>

\* Another attempt ...
GateTry(t) ==
  /\ pc[t] = "pop" /\ task[t].subject \in Gate
  /\ task[t].open # gate[task[t].subject] /\ task[t].tries > 0
  /\ task' = [task EXCEPT ![t].tries = @ - 1]
  /\ Go(t, "pulse")
  /\ UNCHANGED <<operations, evars, op, gvars, requests>>

\* ... which is verified later.
GatePulse(t) ==
  /\ pc[t] = "pulse" /\ task[t].subject \in Gate
  /\ Pulse(task[t].subject) /\ Returns(t, "WAITING")
  /\ UNCHANGED <<operations, task, op, requests>>

\* The device reports what the sensor tells: there is nothing left to do for
\* a task that wanted that.
on_related_sensor_value_changed(g) ==
  /\ g \in news /\ news' = news \ {g}
  /\ cancel_tasks(IF g \in Verified THEN Opening(g, gate[g]) ELSE {})
  /\ UNCHANGED <<operations, task, pc, op, gate, requests>>

----------------------------------------------------------------------------
\* A step of the code an actor runs for an action.
Act(a) ==
  \/ ExecuteScene(a) \/ RestartScene(a) \/ InterruptCheck(a) \/ InterruptCancel(a)
  \/ StartScene(a)
  \/ DeviceAway(a) \/ OpenClose(a) \/ CancelGate(a) \/ StartGate(a) \/ Toggle(a)

Execute(t) ==
  \/ Pop(t) \/ ReturnMore(t) \/ ReturnWait(t) \/ ReturnEnd(t)
  \/ GateDone(t) \/ GateTry(t) \/ GatePulse(t)

Carry(t) == Run(t) \/ NotRun(t) \/ Release(t) \/ Execute(t) \/ Act(t)

\* Everything that was asked for is over.
Over ==
  /\ \A t \in Task : life[t] = "FREE"
  /\ \A r \in Requester : pc[r] = "idle"
  /\ news = {}

Rest == Over /\ requests = MaxRequests /\ UNCHANGED vars

Next ==
  \/ \E r \in Requester : Act(r) \/ \E o \in Requests : Ask(r, o)
  \/ \E t \in Task : Pick(t) \/ Carry(t)
  \/ \E g \in Gate : on_related_sensor_value_changed(g)
  \/ Rest

Spec == Init /\ [][Next]_vars

\* Every thread runs, and what a thread of the engine has taken it carries
\* out.  That one takes a task that waits is not assumed: the engine can lose
\* the request to execute it (AsyncTask).
FairSpec ==
  /\ Spec
  /\ \A r \in Requester : WF_vars(Act(r))
  /\ \A t \in Task : WF_vars(Carry(t))
  /\ \A g \in Gate : WF_vars(on_related_sensor_value_changed(g))

----------------------------------------------------------------------------
(* Properties *)

TypeOK ==
  /\ operations \in Programs
  /\ life \in [Task -> {"FREE", "WAITING", "PICKED", "EXECUTING", "SUCCESS",
                        "FAILURE", "CANCELED"}]
  /\ busy \subseteq Task /\ queue \in Seq(Task)
  /\ task \in [Task -> Job]
  /\ pc \in [Actor -> Pc] /\ op \in [Actor -> Op \union {None}]
  /\ gate \in [Gate -> BOOLEAN] /\ news \subseteq Gate /\ requests \in Nat

\* Scenes that start each other do not nest without end: on the path from the
\* first scene to a task a scene stands once, or twice in a row when it
\* restarted itself.
PathsBounded ==
  \A t \in Task : life[t] # "FREE" =>
    \A i, j \in DOMAIN Path(t) : i < j /\ Path(t)[i] = Path(t)[j] => j = i + 1

\* The queue holds every task that waits, and no cancelled one.
QueueSound ==
  \A t \in Task :
    /\ life[t] \in {"WAITING", "PICKED", "EXECUTING"} => t \in Elements(queue)
    /\ life[t] \in {"FREE", "CANCELED"} => t \notin Elements(queue)

\* What is left of a scene after the operations of the current _execute.
Later(t) ==
  LET left == task[t].left
      late == {k \in DOMAIN left : left[k].late /\ (pc[t] = "pop" => k > 1)}
  IN IF late = {} THEN <<>>
     ELSE SubSeq(left, CHOOSE k \in late : \A j \in late : k <= j, Len(left))

\* A scene that was interrupted finishes the operations that follow within a
\* second, and none beyond.
InterruptedStops ==
  [][\A t \in Task :
       life[t] = "CANCELED" /\ life'[t] = "CANCELED" => Later(t)' = Later(t)]_vars

\* Everybody is done but for tasks that wait to be executed.
Settled ==
  /\ \A t \in Task : life[t] \in {"FREE", "WAITING"}
  /\ \A r \in Requester : pc[r] = "idle"
  /\ news = {}

\* Whatever scenes execute and restart each other, and whether or not a gate
\* obeys, the work comes to an end: only finitely many executions follow, and
\* nothing is left but tasks the engine never takes again.
EverythingEnds == <>[]Settled
=============================================================================
