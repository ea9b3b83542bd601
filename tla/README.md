# TLA+ models of supla-core

supla-core is the server side of SUPLA home automation: devices (gateways with
channels) and clients (apps) keep a connection to `supla-server`, which knows
the state of every channel, passes values and commands on, runs scenes and
triggers, and reports to other services. This directory holds TLA+ models of
the parts of it that are hardest to test, TLC configurations that check them on
small instances, and TLAPS proofs of the main results for all instances.

Run `tlc -config <X>.cfg <module>` for a run and `tlapm <module>.tla` for the
proofs of a module. `PROJECT.json` is the machine-readable index: components,
runs, the source lines of every definition, mutants, findings, hazards and
theorems.

## 1. Inventory

| Component | State | Operations | Interacts with | What is hard |
|---|---|---|---|---|
| Task engine (`asynctask/`) | task state, queue by priority, per pool: requests and threads | start, cancel, pick, execute, request, finish, terminate | everything that works in the background: scenes, gates, HTTP, push | three kinds of locks, raw pointers in `requests`, threads that end on their own, cancellation during execution |
| srpc (`supla-common/srpc.c`, `proto.c`) | in/out buffer, in/out queue, `sdp`, `rr_id` counter | `srpc_iterate`, `srpc_async__call`, `srpc_getdata` | the connection's thread, every thread that calls the peer | frames cut anywhere, short writes, full queues, `sdp` shared by all |
| Connections (`accept_loop.cpp`, `conn/`) | pending registrations, thread, object, list of online objects | accept, register, timeout, replace, sleep, terminate, delete | accept loops, users of the list | check-then-act on the limit, weak and shared pointers, deletion |
| Registration (`device/`, `client/call_handler/`) | a database transaction, the new object | register A..G, authorise, add channels | connection, user, authkey cache | early returns, rollback, retries, reads that fail, snapshots of concurrent registrations |
| Authkey cache | recently authorised keys | lookup, insert, evict | registration | the query runs between two locked sections |
| User (`user/`) | devices, clients, channel fragments, groups | add, remove, on value changed | devices, clients, triggers | two locks for one logical update |
| Scenes, gates (`scene/`, `actions/`) | operations left, attempts left | execute, restart, interrupt, open, close, verify | task engine, devices | exists-then-start, scenes that start each other, stale sensor values |
| Client updates (`distributedobjects/`, `client/`) | change marks per object, a pack being made | mark, iterate, get_next, update_remote | connection thread, events, client library | marks set while an update is sent, transactions ended without the lock |
| Value based triggers (`vbt/`) | condition, paused flag, active period | on value changed, fire | user, actions | pause/resume edge cases |
| Push, HTTP, voice assistants, webhooks | throttling counters, access tokens | deliver, retry, refresh | task engine | counters taken back, token refresh |
| MQTT bridge | topics to publish, session | connect, publish, subscribe | users, a vendored library | resynchronisation after a lost session |
| IPC | none of its own | text commands | users, actions | - |
| Cyclic tasks, loggers, analyzers | last run | run every n seconds | database | - |
| Scheduler daemon (`supla-scheduler`) | executions in a database, workers | fetch, execute, retry, expire | IPC of the server | zombies and retries |
| Client library (`supla-client`) | connection state | connect, register, iterate | srpc | mirror of the server's end |
| Database, JSON configuration, common helpers | - | SQL, parsing, threads, sockets | all | - |

What makes the modelled components correct:

* **Tasks.** One thread executes a task at a time; cancellation is final; a
  finished task leaves the queue; observers hear of the end once; a started
  task is executed; limits hold; shutdown ends.
* **srpc.** What was accepted is sent once, in order and whole; what is received
  is dispatched once, with its own identifiers; the thread does not sleep over
  work; queues stay within their memory.
* **Connections.** One online object per device; a replaced one ends; nobody uses
  a deleted connection; the registration limit is respected up to the number of
  loops and never blocks the server for good.
* **Registration.** A device is stored with all its channels or not at all; who is
  told to be registered is stored; a locked device stays out; every registration is
  answered; the limit of devices is exceeded by less than the number of threads.
* **Scenes and gates.** Scenes that start each other nest to a bounded depth and
  end; an interrupted scene stops; a cancelled task leaves the queue; two tasks that
  drive a gate in opposite directions, or a gate that does not obey, come to an end.
* **Client updates.** No mark is forgotten; what a client knows never goes back; the
  exchange of packs and requests ends.

The hazards behind these, with their lines, are listed in `PROJECT.json`.

## 2. Modules

| Module | Models |
|---|---|
| `AsyncTask` | tasks, queue, pools and their threads |
| `TaskLifecycle` | abstract specification: the life of a task without queue and pools |
| `SrpcQueue` | the packet queue of srpc.c, as operators |
| `Srpc` | one end of a connection: buffers, queues, `srpc_iterate`, callers |
| `Connections` | accept loops, connection threads, list of objects, its users |
| `Registration` | the registration of a user's devices in several threads, and the transactions they use |
| `Scenes` | scenes and gates as tasks, on top of `TaskLifecycle` |
| `ClientSync` | the lists of a connected client: marks, packs, `get_next`, concurrent changes |
| `MCAsyncTask`, `MCSrpc`, `MCConnections`, `MCRegistration`, `MCScenes`, `MCClientSync` | instances for TLC |
| `Lists` | elements and filters of sequences, used by `Scenes` and `ClientSync` |
| `AsyncTaskProofs`, `AsyncTaskLifecycleProofs` | proofs about `AsyncTask` |
| `SrpcProofs` | proofs about `SrpcQueue` and `Srpc` |
| `ConnectionsProofs` | proofs about `Connections` |
| `RegistrationProofs` | proofs about `Registration` |
| `ListsProofs` | lemmas about `Lists` |
| `ScenesProofs`, `ClientSyncProofs` | proofs about `Scenes` and `ClientSync`, with `ListsProofs` |

`TaskLifecycle` is the joint between two levels: `AsyncTask` is shown to implement it
and `Scenes` uses its actions as the engine its tasks run on. `Connections` treats a
registration as one choice; `Registration` is what happens inside of it, and
`ClientSync` what follows once a client is registered.

Definitions whose comment begins "Mutant of X" are wrong variants of X. They
are not part of any specification; they show which mistake a property catches.

### AsyncTask

A step is what the code does under one lock: a task's, the queue's or a pool's.
The queue's lock is held over several steps during the scan (`qpc`, `qi`) and
during `cancel_tasks` (`found`); other users wait (`QueueFree`). A `Task` is an
*address*: it is allocated, used, freed by the last `shared_ptr` and allocated
again, because `requests` holds raw pointers. A pool thread goes through
`pick -> entry -> body -> finished -> notify -> post -> reset -> unrequest ->
decide -> exit`, the locked sections of the pool's `execute()` and of the
task's `execute()` inside it. Time is `due` (the delay has run out), the choice
of a timeout in `ExecuteEntry`, and `fresh` (keep-alive). Tasks are constructed and
started until the queue is gone, also while its destructor shuts the pools down:
a scene that a pool thread still executes may start another. The destructor's last
section, `CancelAll`, assumes that no thread is then about to start a task it has
constructed. Left out: a thread that outlives the queue (the MQTT suite is stopped
after it, `supla-server.cpp:208-214`) and asks for the global queue, which creates
another one; `hold()`, which only tests call, `access_task()`, counters for reports,
logging.

### SrpcQueue and Srpc

A frame is a head and a tail unit, so that the network can cut it. `PopInSdp`
is `sproto_pop_in_sdp` (nothing, a packet, a data error, a version error): the
version and the data size are judged by the head alone, the second tag when the
frame is complete. The thread is in `wait`, `in`, `args`, `call`, `handler`,
`version` (in `on_version_error()`, which makes a call and iterates `Nested` times)
or `out`; `Enqueue` is the rest of `srpc_async__call` with its refusals (data that
do not fit, a full queue); `lck` is who holds `srpc->lck` between steps.
`ReadArgument` reads `srpc->sdp` *after* the unlock, as C evaluates the arguments of the callback there; a caller half way
through `srpc_async__call` (`AsyncBegin`, `AsyncEnd`) is visible to it. The
in-place shift, the counting and the reuse of memory by the queue is modelled
slot by slot in `SrpcQueue`. Left out: the payloads of the calls.

### Connections

A `Conn` is a connection, its thread and its object. `cpc` is the position in
`execute()`: `ssl`, `loop`, a registration (`auth`, `add`, `done`), `close`,
`sleep` (a device that sleeps keeps its object without a socket), `release`,
`expire` (the wait for the other `shared_ptr`s), `delete`. `Expired(c)` is
`weak_ptr::expired()`. `Holder`s are the threads that copy the list and lock its
entries one by one. `setting` is what does not change while the server runs: the
configured limit and which peers ever connect and register. A `Conn` is never used
again after its deletion. The database's verdict on a registration is a choice.
`log_limits` runs every second; ages of the two time stamps are abstract.

### Registration

A `Session` is a connection with its thread. `pc` follows `register_device()`:
`connect`, `auth`, `find`, `begin` (START TRANSACTION), then `limit` and `insert` for
a device that was not found, `check`, `channels` (one step for each channel),
`count`, `finish`, `commit`, `success` or `locked`, `done`. Every early return is
`send_result`, which rolls back and answers. The database is external and modelled
by how it is used: a snapshot at the first read of a transaction (`seen`,
`snapshot`), a transaction's own rows (`inserted`, `added`), the wait for a row of
another open transaction under the same key, the refusal of a second row, and
statements that fail anywhere; the DAO takes 0 for what it could not read, so a
device whose look-up failed is treated as new and a count that failed passes. The
flags that matter are `locked` and `blocked` (no channels may be added); flags are
or-ed by the update, read before the transaction. Left out: functions, icons and
other flags of channels, the conflict report, success codes with wishes, a failing
START TRANSACTION or COMMIT, and a user who locks or unlocks a device elsewhere
while it registers.

### Scenes

An actor is a thread that asks for an action or the thread that runs a task, and
both run the same code; `op` is the action and `pc` its next locked section. The
check for an existing task, the cancellation and the start are separate steps. A
task's `caller` is its path of scenes, which `Allowed` searches, as `caller` does in
the code. A task's `_execute` pops operations that follow within a second
(`Continues`) and returns for later ones. A gate's task pulses the gate, waits, reads
the sensor, and tries again. The life of a task is `TaskLifecycle`, with the queue in
the order of insertion (these tasks have one priority). What a gate does with a
pulse is external: it moves or it does not; a device that is not connected, or a
channel that cannot be written, is `DeviceAway`. Operations of scenes that only send a
value to a device are left out.

### ClientSync

Locations are popped under the lock of their array, items (channels, values,
extended values) are marked and unmarked without it, scenes and their states are
collected under the lock of their list and sent after it; the module comment has
the three protocols. `Client` is the thread of the client's connection: `Iterate`
resets the flag `need` and walks the lists (`at`) until one pack is sent; the
client library answers every pack with `get_next`, which raises the flag. A value is
the number of changes of its object. A channel carries its value (`Record`). Left
out: a client without callbacks for scenes, whose library returns from a pack of
them without asking for the next (`supla-client.c:334-336`, `362-364`); two threads
that delete one pack, which gets no content instead; the order in which
`safe_array_pop` leaves the locations, on which nothing depends.

## 3. Runs

| Run | Bounds | Shows |
|---|---|---|
| `asynctask_safety` | 2 tasks, 3 threads with limit 2, one pool; one task delayed, repeating and observed, one with a timeout; both can be cancelled and reallocated | types, thread limit, one executor, requests have threads, priority order, a task queued once, finished tasks leave, outcomes are final, refinement of `TaskLifecycle` |
| `asynctask_live` | 2 pools, one thread each, `tasks_per_thread` 1 and keep-alive, 2 tasks of which one is observed and cancelled, fairness | shutdown ends, pool after pool; observers of a cancelled task are told |
| `asynctask_lost_request` | 1 task, 1 thread | **violation**, see findings |
| `asynctask_stale_request` | 1 task, 1 thread | **violation** |
| `asynctask_notified_twice` | 1 task, 2 threads | **violation** |
| `srpc_safety` | 3 packets of the peer, the second may be of a wrong version, the third malformed in its head or in its tail; 2 calls of a second thread; queues of 2, chunks of 4, buffers of 5 units; 4 rr_ids, of which the next own one is the third; fairness | memory of the queues, framing, streams, dispatch at most once, no sleep over work, wrap-around of rr_id, accepted calls are written |
| `srpc_dispatch` | 2 packets, 2 calls | **violation** |
| `conn_all` | 2 loops, 3 connections, 2 holders, a sleeping device; three settings: limit 1 with 3 peers that never register, limit 1 with 1 that does, no limit with 2 that do; fairness | limit, one online object, replaced objects end, held connections exist; terminated threads end, pending registrations end, rejection ends |
| `registration_devices` | 2 connections, 5 devices of which 2 are stored, 3 registrations, limit 3, every statement may fail, fairness | no partial device, who is registered is stored, locked devices stay out, bound on the limit, every registration is answered |
| `scenes_rings` | 2 scenes with 3 programs, 1 gate, 2 requesters, 2 requests, 5 task objects, fairness | bounded nesting, queue, interruption, everything the engine takes ends |
| `clientsync_lists` | 1 location, 2 channels with values, an extended value nobody reported, 1 scene with its state, packs of 1, 1 writer, 2 changes, fairness | no mark is forgotten, the client's view never goes back, the exchange ends |
| `clientsync_lost_value` | 2 values, 1 change | **violation** |

*Why the bounds are enough.* Two tasks give different priorities and a neighbour
in the queue; a third thread lets the limit of two bind. One task suffices for
the notification and the lost request, which concern one address. In srpc three
incoming packets let two be left in the queue while the third arrives in parts, so that
the in queue and the receive buffer both reach their limits; the counter starts
where two calls make it wrap; a buffer of five units
overflows in the middle of a frame. Two accept loops pass
the check at the limit together, and a third connection is then refused; two
connections of one device give a present and a new object; two holders can keep an
object in use in turn. The questions about the limit and those about objects have
settings of their own, because TLC does not finish all peers together with liveness;
local addresses, which are allowed above the limit, and everything at once are left
to `ConnectionsProofs`. Two sessions
and three registrations let a device be registered by two threads at once and once
more afterwards; with two devices stored and a limit of three both threads pass the
check. Five task objects are never used up: with six or seven the number of states
is the same. The three programs of `scenes_rings` are scenes that restart each other,
a scene that restarts itself and is interrupted by another, and two scenes that
fight over a gate. Packs of one object make the loop stop at every object.
Bounds appear in guards under their
names: `MaxIn`, `MaxOut`, `ConnLeft`, `MaxRegistrations`, `MaxRequests`, `MaxChanges`, and the
saturation of `notices` at 2.

*Fairness.* Threads run: weak fairness for the steps of a thread, strong fairness
where it needs a lock that others take again and again (`PoolThread`, `AddTask`,
`Deleter`; the queue's thread sleeps between its scans, so the lock is free for long)
and for the loop conditions of `execute()`, which are evaluated in every iteration
although the peer's calls disable the step in between. Time passes (`Elapse`,
`KeepAliveElapse`, `ValidityEnds`, `ExceededAges`), and `_execute()` and the
users of an object return. A statement that waits for a row ends, as the database's
lock wait has a time-out; a client handles the packs it receives; the change of a
sensor is reported. Who has constructed a task starts it (`Start`), which the wait
of `CancelAll` for such tasks needs. Nothing is assumed of the peer, of callers or of
cancellation. srpc's fairness leaves out the time-out of `eh_wait`: an accepted
call must not need it.

Two liveness properties promise less than one would like, because the code does:

* `TerminatedEnds`. The thread of a connection polls `weak_ptr::expired()`
  (`connection.cpp:422-427`) while the object is still in the list. Threads that take
  it from there in turn, without a pause, keep it from expiring, and nothing in the
  code prevents them. The property therefore assumes, for each connection, that its
  object is left alone again and again (`[]<>Unused(c)`), and the fairness of `Delete`
  that the poll meets such a moment in the end. The fairness of the holders alone
  (each lets go of what it holds) is not enough once there are two.
* `EverythingEnds`. Nothing is assumed of `Pick`: the engine can lose a request for good
  (finding `asynctask_lost_request`), so a started scene or gate task may wait for
  ever. The property says that the *work* comes to an end: from some moment on every
  requester is done, no task is taken and no news of a sensor is left; what may
  remain is tasks that wait and are never taken (`Settled`). If the engine took every
  task that is due, all of them would be over.

*Deadlock* is checked in every run; `Done`, `Closed` and `Idle` are the states in
which the modelled part has nothing to do (`Rest` and `Over` in the newer modules).

## 4. Findings

Each is a violation run whose trace shows the behaviour.

* **A started task is never executed** (`asynctask_lost_request`). The last thread
  of a pool decides to stop; before it leaves the vector a request arrives, which
  starts no thread because the limit is reached; `on_thread_finish()` clears the
  requests; the task still counts as requested.
* **A thread that never stops** (`asynctask_stale_request`). `cancel_tasks()`
  leaves the pool's request of a task that was not picked yet.
* **Observers notified twice** (`asynctask_notified_twice`). Two threads that
  execute a repeating task one after the other both pass the unlocked check.
* **A call dispatched with another call's identifiers** (`srpc_dispatch`).
  `srpc_iterate()` reads `srpc->sdp` after it has released the lock.
* **A value that is never sent** (`clientsync_lost_value`). `do_remote_update()` reads
  a value, then removes its mark; a change in between loses its own mark, and the
  client keeps the old value until the next change.

## 5. Proofs

All constants are arbitrary, within the named assumptions (`ConstantsAssumption`:
finite sets, positive limits, functions of the right type, `None` is no task;
`ConnectionsAssumption`: finite sets, settings with a natural limit, `None` is neither a
connection nor a guid; `RegistrationAssumption`: finite sets, requests of the right
shape, a device that registers with a location is not locked, and a database that
is itself within the bound; `QueueAssumption`, `SrpcAssumption`: a queue whose counts fit
their unsigned char, a buffer that takes more than one read, callers that are told
apart; `NullAssumption`: a slot with memory is not a null pointer;
`ScenesAssumption`, `ClientSyncAssumption`: sequences of the right type, disjoint kinds
of objects, a value that belongs to one record, a pack that holds something). Nothing
is assumed about what is executed, cancelled or
connected.

* **`TypeCorrect`** (one in the proofs of each component): the type invariants. They
  are more than types where an operation could leave its domain: in `SrpcProofs` the
  counts of a queue and of the buffers stay within their bounds, which takes the
  argument of `QueuesSound` and `OutStream`.

*The task engine.*

* **`OneExecutorHolds`**. `OneExecutor` is not inductive: `pick()` hands out a
  task that waits, and one must know that no thread executes a waiting task.
  `ExecutorInv` adds the states a thread can find its task in at `entry`
  (PICKED or CANCELED) and `body` (EXECUTING or CANCELED), and that a task some
  thread holds is not freed.
* **`ThreadLimitHolds`**: a thread is only added below the limit.
* **`RequestsHaveThreadsHolds`**, with `LockInv`: the queue does not change during
  a scan, so the task whose request is being made is still the one at `qi`, and
  the count of requests is positive.
* **`QueueOrderedHolds`**: insertion before the first lower priority and removal
  keep the order (lemmas on `InsertTask` and `EraseTask`).
* **`QueuedOnceHolds`, `FinishedLeavesHolds`**, from `QueueInv`: what `start()` has not
  put into the queue yet waits and is known to no thread, nor to `cancel_tasks`, so it
  is put there once; and since a task is there once, the one removal of a cancel or of
  the thread that finished it is enough.
* **`CanceledIsFinalHolds`, `FinishedIsFinalHolds`**: action properties, from
  `ExecutorInv` and the list of all changes a step makes to a state.
* **`LifecycleImplemented`**: `AsyncTask` implements `TaskLifecycle` with
  `busy` = the tasks of threads at `entry` or `body`. `StartedInv` (whatever is in
  the queue, in `start()` or found by `cancel_tasks` is a started task) shows that
  cancelling never touches a free address; `OneExecutor` shows that a thread that
  lets go of a task leaves it free.

*srpc.* The invariant has layers, each proved with the ones before it.

* **`QueuesSoundHolds`**: `sproto`'s and srpc.c's shifts, slot by slot. `PushProps`, `PopFirst`
  and their kin say what the loops over the slots leave behind; the count of
  allocated slots is compared with the cardinality of the slots with memory.
* **`OutStreamHolds`**, from `OutInv`. `DataInv` has that the out buffer is empty between
  steps: a frame fits into it (`OutAppendWhole`), so a pass of `srpc_iterate` either
  hands the whole frame to the kernel or records that a write was cut short.
* **`InFramedHolds`**, from `WireInv` and `AlignInv`. Every unit that the kernel or the in
  buffer holds has a position in what the peer sent, and positions increase
  (`WireInv`). The same positions bound the calls of `on_version_error()`: every such
  call, the one that is owed included (`Spent`), has cost the peer the head of a packet
  that is gone from the stream. Until the stream is given up the units are *all* the
  units from some packet on
  (`AlignInv`: there is a k such that unit i has position 2k + i). A packet of another
  version gives it up: the passes that `on_version_error` still makes (`nested` > 0)
  may read behind a gap.
* **`HandledOnceHolds`**, from `HandledInv`: what was handled and what is queued are
  packets that are entirely gone from the stream, with different numbers.
* **`NoSleepOnWorkHolds`**, from `WorkInv`: `more` (`raise_event` of `srpc_iterate`) is set
  before the handler runs and used after it. When it is not set there is no
  frame in the buffer all the time, and the thread comes to wait without the event
  only if the out queue is empty as well; a caller that adds to it raises the event
  with the same step.
* **`AcceptedHasRrIdHolds`**: the counter skips 0 when it wraps.

*Connections and registration.*

* **`HeldIsAliveHolds`**, from `LifeInv`: whoever has an object has it together
  with its connection or while that waits in `expire`; a connection has its object
  in no other phase; a registered one has it until `release`.
* **`OneOnlineHolds`, `ListedOrTerminatedHolds`**. They need each other: `add()`
  removes *all* previous objects and terminates *one*, which is enough because
  `OneOnline` leaves at most one. `LifeInv` shows that no expired entry of the
  list comes to life again.
* **`PendingBoundHolds`**, from `PendingInv`: counted connections plus loops that
  have allowed one and not counted it stay below limit + loops.
* **`LockedStaysOutHolds`**. `LockedStaysOut` needs that the flag read before the
  transaction is still the stored one. `DeviceInv` has it: a device that was found is
  there with the same flag, as the update never takes it away; a transaction has
  inserted its device if and only if none was found, and no two insert one device.
  `LockedInv` extends the property to the answers that are on their way.
* **`RegisteredIsStoredHolds`, `NoPartialDeviceHolds`**, from `ChannelInv`: the
  channels handled so far are ones the transaction sees, what a snapshot shows is
  never removed, so at the commit every announced channel is stored. The count at the
  end of `add_channels()`, which may fail, is not needed.
* **`LimitBoundHolds`**, from `LimitInv`: devices plus sessions cleared to add one stay
  below limit + sessions; a session is cleared by a count below the limit, and a
  commit turns a cleared session into a device.

*Scenes.* All three rest on `ActInv`: only the thread of a taken task is at work for it,
only scenes execute operations, and none on a scene among its callers.

* **`QueueSoundHolds`**: a task enters the queue when it starts and leaves it, as the
  first or by a filter, with the step that ends or cancels it.
* **`PathsBoundedHolds`**: the path of a task is the path of its caller with one more
  scene; `Allowed` has looked for that scene in all but the last place.
* **`InterruptedStopsHolds`**, an action property: popping an operation that follows
  within a second does not change what begins with the first later one
  (`PopKeepsLater`), and a cancelled task's `_execute` pops no other.

*Client updates.*

* **`NothingForgottenHolds`**, from `SeenInv`. Its three parts say who will see a mark that
  nobody may overlook: of a location, the flag, an answer that is on its way, or a
  thread at the locations; of an item, also a writer before its flag or the
  loop with the item ahead of it or with a pack, whose answer comes back
  (`LocationSeen`, `ItemSeen`); and the loop never leaves the lists with a pack
  (`LoopInv`). TLC checked the three on the instance of `clientsync_lists` before.
* **`KnownForwardHolds`**, an action property, from `ChainInv`: for every item and scene, what
  the client knows, the packs on their way in their order, the pack that is being
  made and the stored value tell of no older state each than the one before it.
  `KeysInv` says whose pack may contain what.

`Filter` of `Lists` is used where SelectSeq would be expected: the latter is defined by
a recursion the prover does not expand. `FilterProps` characterises `Filter` by
positions, for every sequence.

*Only model-checked:* liveness, as the prover does not treat fairness and ENABLED
(`ShutdownCompletes`, `CancelIsNotified`, `AcceptedIsWritten`, `TerminatedEnds`, `PendingEnds`,
`RejectIsTemporary`, `EveryoneAnswered`, `EverythingEnds`, `ComesToRest`). Every invariant and
every action property of the passing runs is proved. The properties of the runs that
expect a violation are false of the code, for the reasons under *Findings*.

## 6. Not modelled, and the plan

What would come next, in this order:

1. **User**: `supla_user_devices::add` with its channel fragments, the destructor of a
   device and the authkey cache. Properties: the fragments are those of the online
   object; no offline notice after the online one. Composes with `Connections` and
   `Registration`.
2. **Registration of clients**, whose ladder is the one of devices with one row and
   the client's access id.
3. **Triggers, push throttling, access tokens**: operators and small machines.
4. **Scheduler daemon**: executions, workers, retries, expiry and zombies.
5. **Connecting and reconnecting of the client library, MQTT publisher.**

Proofs to come are those about these modules; the safety properties of the present ones
are proved.

Hazards that no property covers carry a note in `PROJECT.json`: a failing
`pthread_create`, the window between the last `shared_ptr` and the end of a
destructor, the data race on the connection's `shared_ptr`, the two locks of a user's
devices, the authkey cache and the scheduler.

Left aside for good: SQL and the DAO classes (outcomes are choices), JSON and
MQTT payloads, the formatting of IPC answers, the encoding of the calls in srpc.c,
loggers and analyzers (sequential, numeric), vendored code (date, astro,
crypt_blowfish, MQTT-C, cJSON), the Android bindings, build files and tests. Together
these are by far the most of the repository's lines; the modules cover the
concurrent core.
