----------------------------- MODULE Connections -----------------------------
(***************************************************************************)
(* The connections of supla-server: the accept loops and the limit on      *)
(* pending registrations, the life of a supla_connection and its thread,   *)
(* the device or client object it registers, the list of the objects that  *)
(* are online (supla_connection_objects), and the threads that take        *)
(* objects from that list and use them.                                    *)
(*                                                                         *)
(* A member of Conn is one connection with its thread and its object; it   *)
(* is never used again.  A weak_ptr is the Conn itself: it is expired once *)
(* neither the connection nor a Holder has a shared_ptr to the object.     *)
(* The list is the set of its weak_ptrs: nothing depends on their order,   *)
(* except that add() terminates the last previous object it met, which is  *)
(* any one of them here.  The id of an object follows from its guid, so    *)
(* objects are compared by their guid.  The object is never in the list    *)
(* already when it is added: a registered object that registers again is   *)
(* terminated.                                                             *)
(*                                                                         *)
(* What a handler does with the calls it receives is left out, except      *)
(* registration; eh_wait() ends at the latest when its time-out does.      *)
(***************************************************************************)
EXTENDS Naturals, FiniteSets

CONSTANTS
  Loop,      \* the accept loops: ssl and tcp
  Conn,      \* connections
  Guid,      \* the guids of one user's devices
  Sleeper,   \* guids of devices with SUPLA_DEVICE_FLAG_SLEEP_MODE_ENABLED
  Origin,    \* of "local" and "foreign": the addresses connections come from
  Holder,    \* threads that call get(), for_each(), terminate(id), ...
  Setting,   \* configured limits, with what the peer of each connection does:
             \* it registers, it stays silent or there is none
  None

ASSUME ConnectionsAssumption ==
  /\ IsFiniteSet(Loop) /\ IsFiniteSet(Conn)
  /\ Setting \subseteq [limit : Nat,
                         peer : [Conn -> {"none", "silent", "registers"}]]
  /\ Sleeper \subseteq Guid
  /\ Origin \subseteq {"local", "foreign"}
  /\ None \notin Conn \union Guid

VARIABLES
  setting,     \* a member of Setting: it does not change
  lpc,         \* [Loop -> LoopPc]: "local" and "foreign" are allowed connections
  cpc,         \* [Conn -> ConnPc]
  foreign,     \* connections that do not come from a local address
  pending,     \* reg_pending_arr
  object,      \* [Conn -> BOOLEAN]: the connection has its shared_ptr
  guid,        \* [Conn -> Guid or None]: of a registered object
  valid,       \* [Conn -> BOOLEAN]: the values of a sleeping device are valid
  terminated,  \* [Conn -> BOOLEAN]: the thread is to end
  objects,     \* SUBSET Conn: the weak_ptrs of the list
  list,        \* [Holder -> SUBSET Conn]: what is left of a copy of it
  hold,        \* [Holder -> Conn or None]: the shared_ptr a thread has
  alert,       \* age of reg_limit_exceeded_alert_time
  exceeded,    \* age of reg_limit_exceeded_time
  reject_all   \* reject_all_new_connections

ovars == <<object, guid, valid, objects>>
hvars == <<list, hold>>
rvars == <<alert, exceeded, reject_all>>
vars  == <<setting, lpc, cpc, foreign, pending, ovars, terminated, hvars, rvars>>

LoopPc == {"accept", "local", "foreign"}
ConnPc == {"none", "ssl", "loop", "auth", "add", "done", "close", "sleep",
           "release", "expire", "delete", "gone"}

----------------------------------------------------------------------------
\* CFG_LIMIT_CONCURRENT_REGISTRATIONS, 0 is "no limit"
Limit == setting.limit

\* The registration of c succeeded: set_registered(true).
Registered(c) == guid[c] # None

\* No thread but its own has a shared_ptr to the object of c, and nobody has.
Unused(c)  == \A h \in Holder : hold[h] # c
Expired(c) == ~object[c] /\ Unused(c)

\* is_sleeping_object()
Sleeping(c) == guid[c] \in Sleeper /\ valid[c]

LimitReached == Limit > 0 /\ Cardinality(pending) >= Limit

Move(c, from, to) == cpc[c] = from /\ cpc' = [cpc EXCEPT ![c] = to]

Init ==
  /\ setting \in Setting
  /\ lpc = [l \in Loop |-> "accept"]
  /\ cpc = [c \in Conn |-> "none"]
  /\ foreign = {} /\ pending = {}
  /\ object = [c \in Conn |-> FALSE] /\ guid = [c \in Conn |-> None]
  /\ valid = [c \in Conn |-> FALSE]
  /\ terminated = [c \in Conn |-> FALSE]
  /\ objects = {}
  /\ list = [h \in Holder |-> {}] /\ hold = [h \in Holder |-> None]
  /\ alert = "none" /\ exceeded = "none" /\ reject_all = FALSE

----------------------------------------------------------------------------
(* The accept loops *)

\* Mutant of is_connection_allowed: one pending registration too many.
is_connection_allowed_one_more(ip) ==
  /\ ~reject_all
  /\ (Limit > 0 /\ Cardinality(pending) > Limit) => ip = "local"

\* is_connection_allowed()
is_connection_allowed(ip) == ~reject_all /\ (LimitReached => ip = "local")

\* Bound: a connection is only accepted if there is a peer left for it.
ConnLeft ==
  Cardinality({l \in Loop : lpc[l] \in {"local", "foreign"}})
    < Cardinality({c \in Conn : cpc[c] = "none" /\ setting.peer[c] # "none"})

\* A connection is accepted and allowed; one that is not is closed at once.
Accept(l, ip) ==
  /\ lpc[l] = "accept" /\ ConnLeft
  /\ is_connection_allowed(ip)
  /\ lpc' = [lpc EXCEPT ![l] = ip]
  /\ UNCHANGED <<setting, cpc, foreign, pending, ovars, terminated, hvars, rvars>>

\* The supla_connection is constructed and its thread started.
NewConnection(l, c) ==
  /\ lpc[l] \in {"local", "foreign"} /\ Move(c, "none", "ssl")
  /\ setting.peer[c] # "none"
  /\ lpc' = [lpc EXCEPT ![l] = "accept"]
  /\ foreign' = IF lpc[l] = "foreign" THEN foreign \union {c} ELSE foreign
  /\ pending' = pending \union {c}
  /\ UNCHANGED <<setting, ovars, terminated, hvars, rvars>>

\* At the end of the server the accept loops terminate and join the threads
\* of their connections.
StopThread(c) ==
  /\ cpc[c] \notin {"none", "gone"} /\ ~terminated[c]
  /\ terminated' = [terminated EXCEPT ![c] = TRUE]
  /\ UNCHANGED <<setting, lpc, cpc, foreign, pending, ovars, hvars, rvars>>

----------------------------------------------------------------------------
(* The limit on pending registrations *)

\* Mutant of log_limits: the rejection is not taken back.
log_limits_keep_rejecting ==
  /\ IF LimitReached
       THEN /\ alert' = IF alert = "long" \/ alert = "none" THEN "recent" ELSE alert
            /\ reject_all' = (reject_all \/ alert = "long")
            /\ exceeded' = "recent"
       ELSE /\ exceeded = "past"
            /\ alert' = "none" /\ exceeded' = "none" /\ UNCHANGED reject_all
  /\ UNCHANGED <<setting, lpc, cpc, foreign, pending, ovars, terminated, hvars>>

\* log_limits(), every second: everything is rejected when the limit has been
\* reached for 600 s, until it has not been reached for 10 s.
log_limits ==
  /\ IF LimitReached
       THEN /\ alert' = IF alert = "long" \/ alert = "none" THEN "recent" ELSE alert
            /\ reject_all' = (reject_all \/ alert = "long")
            /\ exceeded' = "recent"
       ELSE /\ exceeded = "past"
            /\ alert' = "none" /\ exceeded' = "none" /\ reject_all' = FALSE
  /\ UNCHANGED <<setting, lpc, cpc, foreign, pending, ovars, terminated, hvars>>

\* 600 s pass since reg_limit_exceeded_alert_time, 10 s since
\* reg_limit_exceeded_time.
AlertAges ==
  /\ alert = "recent" /\ alert' = "long"
  /\ UNCHANGED <<setting, lpc, cpc, foreign, pending, ovars, terminated, hvars, exceeded,
                 reject_all>>
ExceededAges ==
  /\ exceeded = "recent" /\ exceeded' = "past"
  /\ UNCHANGED <<setting, lpc, cpc, foreign, pending, ovars, terminated, hvars, alert,
                 reject_all>>

----------------------------------------------------------------------------
(* The thread of a connection: execute() *)

SslAccepted(c) ==
  /\ Move(c, "ssl", "loop")
  /\ UNCHANGED <<setting, lpc, foreign, pending, ovars, terminated, hvars, rvars>>

SslFailed(c) ==
  /\ Move(c, "ssl", "delete")
  /\ terminated' = [terminated EXCEPT ![c] = TRUE]
  /\ UNCHANGED <<setting, lpc, foreign, pending, ovars, hvars, rvars>>

\* The loop ends because the thread is terminated ...
LoopEnds(c) ==
  /\ terminated[c] /\ Move(c, "loop", "close")
  /\ UNCHANGED <<setting, lpc, foreign, pending, ovars, terminated, hvars, rvars>>

\* ... because srpc_iterate() fails ...
IterateFails(c) ==
  /\ Move(c, "loop", "close")
  /\ UNCHANGED <<setting, lpc, foreign, pending, ovars, terminated, hvars, rvars>>

\* ... because nothing was registered within REGISTER_WAIT_TIMEOUT ...
RegisterTimeout(c) ==
  /\ ~Registered(c) /\ Move(c, "loop", "close")
  /\ terminated' = [terminated EXCEPT ![c] = TRUE]
  /\ UNCHANGED <<setting, lpc, foreign, pending, ovars, hvars, rvars>>

\* ... or because nothing was heard for too long.  A sleeping device is not
\* terminated for that.
ActivityTimeout(c) ==
  /\ Registered(c) /\ Move(c, "loop", "close")
  /\ terminated' = [terminated EXCEPT ![c] = @ \/ ~Sleeping(c)]
  /\ UNCHANGED <<setting, lpc, foreign, pending, ovars, hvars, rvars>>

\* The fifth call that no handler knows terminates the thread.
UnhandledCalls(c) ==
  /\ cpc[c] = "loop"
  /\ terminated' = [terminated EXCEPT ![c] = TRUE]
  /\ UNCHANGED <<setting, lpc, cpc, foreign, pending, ovars, hvars, rvars>>

\* A registration call: the object is created; a second one terminates.
Register(c) ==
  /\ cpc[c] = "loop" /\ setting.peer[c] = "registers"
  /\ object' = [object EXCEPT ![c] = TRUE]
  /\ IF Registered(c)
       THEN terminated' = [terminated EXCEPT ![c] = TRUE] /\ UNCHANGED cpc
       ELSE Move(c, "loop", "auth") /\ UNCHANGED terminated
  /\ UNCHANGED <<setting, lpc, foreign, pending, guid, valid, objects, hvars, rvars>>

\* The database refuses it, or does not.
AuthFails(c) ==
  /\ Move(c, "auth", "done")
  /\ UNCHANGED <<setting, lpc, foreign, pending, ovars, terminated, hvars, rvars>>

AuthSucceeds(c, g) ==
  /\ Move(c, "auth", "add")
  /\ guid' = [guid EXCEPT ![c] = g]
  /\ valid' = [valid EXCEPT ![c] = g \in Sleeper]
  /\ UNCHANGED <<setting, lpc, foreign, pending, object, terminated, objects, hvars,
                 rvars>>

\* The objects in the list that the object of c replaces.
Previous(c) == {p \in objects \ {c} : ~Expired(p) /\ guid[p] = guid[c]}

\* Mutants of AddObject: the previous object stays in the list, or is removed
\* and forgotten.
AddObjectKeepPrevious(c) ==
  /\ Move(c, "add", "done")
  /\ objects' = {p \in objects : ~Expired(p)} \union {c}
  /\ terminated' = [p \in Conn |-> terminated[p] \/ p \in Previous(c)]
  /\ UNCHANGED <<setting, lpc, foreign, pending, object, guid, valid, hvars, rvars>>
AddObjectForget(c) ==
  /\ Move(c, "add", "done")
  /\ objects' = {p \in objects \ Previous(c) : ~Expired(p)} \union {c}
  /\ UNCHANGED <<setting, lpc, foreign, pending, object, guid, valid, terminated, hvars,
                 rvars>>

\* supla_connection_objects::add(): expired objects and previous ones leave
\* the list, the new one enters it, and one previous object is terminated.
AddObject(c) ==
  /\ Move(c, "add", "done")
  /\ objects' = {p \in objects \ Previous(c) : ~Expired(p)} \union {c}
  /\ \/ Previous(c) = {} /\ UNCHANGED terminated
     \/ \E p \in Previous(c) : terminated' = [terminated EXCEPT ![p] = TRUE]
  /\ UNCHANGED <<setting, lpc, foreign, pending, object, guid, valid, hvars, rvars>>

\* on_object_registration_done(), after a success and after a failure.
RegistrationDone(c) ==
  /\ Move(c, "done", "loop")
  /\ pending' = pending \ {c}
  /\ UNCHANGED <<setting, lpc, foreign, ovars, terminated, hvars, rvars>>

\* The socket is closed.  A device that sleeps keeps its object.
Close(c) ==
  /\ Move(c, "close", IF ~object[c] THEN "delete"
                      ELSE IF Sleeping(c) THEN "sleep" ELSE "release")
  /\ UNCHANGED <<setting, lpc, foreign, pending, ovars, terminated, hvars, rvars>>

\* The values of a sleeping device lose their validity.
ValidityEnds(c) ==
  /\ valid[c] /\ valid' = [valid EXCEPT ![c] = FALSE]
  /\ UNCHANGED <<setting, lpc, cpc, foreign, pending, object, guid, terminated, objects,
                 hvars, rvars>>

\* It sleeps until then, or until a new connection of the device replaces it.
SleepEnds(c) ==
  /\ terminated[c] \/ ~valid[c]
  /\ Move(c, "sleep", "release")
  /\ UNCHANGED <<setting, lpc, foreign, pending, ovars, terminated, hvars, rvars>>

\* Mutant of Release: the connection waits with its own shared_ptr.
ReleaseKeep(c) ==
  /\ Move(c, "release", "expire")
  /\ UNCHANGED <<setting, lpc, foreign, pending, ovars, terminated, hvars, rvars>>

\* The connection gives up its object ...
Release(c) ==
  /\ Move(c, "release", "expire")
  /\ object' = [object EXCEPT ![c] = FALSE]
  /\ UNCHANGED <<setting, lpc, foreign, pending, guid, valid, terminated, objects, hvars,
                 rvars>>

\* Mutants of Delete: nobody waits for the last shared_ptr, or the connection
\* stays in reg_pending_arr.
DeleteAtOnce(c) ==
  /\ cpc[c] \in {"expire", "delete"}
  /\ cpc' = [cpc EXCEPT ![c] = "gone"]
  /\ pending' = pending \ {c}
  /\ UNCHANGED <<setting, lpc, foreign, ovars, terminated, hvars, rvars>>
DeletePending(c) ==
  /\ cpc[c] = "delete" \/ (cpc[c] = "expire" /\ Expired(c))
  /\ cpc' = [cpc EXCEPT ![c] = "gone"]
  /\ UNCHANGED <<setting, lpc, foreign, pending, ovars, terminated, hvars, rvars>>

\* ... waits until nobody else has it, and is deleted.
Delete(c) ==
  /\ cpc[c] = "delete" \/ (cpc[c] = "expire" /\ Expired(c))
  /\ cpc' = [cpc EXCEPT ![c] = "gone"]
  /\ pending' = pending \ {c}
  /\ UNCHANGED <<setting, lpc, foreign, ovars, terminated, hvars, rvars>>

----------------------------------------------------------------------------
(* Threads that look for objects in the list *)

\* get_all(): the list is copied.
GetAll(h) ==
  /\ list[h] = {} /\ hold[h] = None /\ objects # {}
  /\ list' = [list EXCEPT ![h] = objects]
  /\ UNCHANGED <<setting, lpc, cpc, foreign, pending, ovars, terminated, hold, rvars>>

\* The next weak_ptr of the copy is locked.
LockNext(h, c) ==
  /\ hold[h] = None /\ c \in list[h]
  /\ list' = [list EXCEPT ![h] = @ \ {c}]
  /\ hold' = IF Expired(c) THEN hold ELSE [hold EXCEPT ![h] = c]
  /\ UNCHANGED <<setting, lpc, cpc, foreign, pending, ovars, terminated, rvars>>

\* terminate(id), reconnect_all(): the object's thread is terminated.
TerminateHeld(h) ==
  /\ hold[h] # None
  /\ terminated' = [terminated EXCEPT ![hold[h]] = TRUE]
  /\ hold' = [hold EXCEPT ![h] = None]
  /\ UNCHANGED <<setting, lpc, cpc, foreign, pending, ovars, list, rvars>>

\* The object is given up, and the rest of the copy may be too.
ReleaseHeld(h) ==
  /\ hold[h] # None
  /\ hold' = [hold EXCEPT ![h] = None]
  /\ list' \in {list, [list EXCEPT ![h] = {}]}
  /\ UNCHANGED <<setting, lpc, cpc, foreign, pending, ovars, terminated, rvars>>

\* There is no connection: the server idles.
Idle == (\A c \in Conn : cpc[c] \in {"none", "gone"}) /\ UNCHANGED vars

----------------------------------------------------------------------------
\* Steps a connection's thread takes whatever its peer does.
LoopExit(c) == LoopEnds(c) \/ RegisterTimeout(c)
Proceed(c) ==
  \/ SslAccepted(c) \/ SslFailed(c)
  \/ AuthFails(c) \/ (\E g \in Guid : AuthSucceeds(c, g)) \/ AddObject(c)
  \/ RegistrationDone(c) \/ Close(c) \/ SleepEnds(c) \/ Release(c) \/ Delete(c)

\* Steps that depend on its peer.
Peer(c) == IterateFails(c) \/ ActivityTimeout(c) \/ UnhandledCalls(c) \/ Register(c)

Lookup(h) ==
  \/ (\E c \in Conn : LockNext(h, c)) \/ TerminateHeld(h) \/ ReleaseHeld(h)

Next ==
  \/ \E l \in Loop :
       (\E ip \in Origin : Accept(l, ip)) \/ \E c \in Conn : NewConnection(l, c)
  \/ log_limits \/ AlertAges \/ ExceededAges
  \/ \E c \in Conn : LoopExit(c) \/ Proceed(c) \/ Peer(c) \/ StopThread(c) \/ ValidityEnds(c)
  \/ \E h \in Holder : GetAll(h) \/ Lookup(h)
  \/ Idle

Spec == Init /\ [][Next]_vars

\* Every thread runs and time passes.  The conditions of the loop of execute()
\* are evaluated in each iteration, whatever the peer sends, so they are seen
\* in the end; a thread that has an object gives it up.  The wait for the last
\* shared_ptr is a poll: if it is gone again and again, one of the polls is
\* assumed to meet such a moment.
Fairness ==
  /\ \A c \in Conn :
       /\ SF_vars(LoopExit(c)) /\ SF_vars(Delete(c))
       /\ WF_vars(Proceed(c)) /\ WF_vars(ValidityEnds(c))
  /\ \A h \in Holder : WF_vars(Lookup(h))
  /\ WF_vars(log_limits) /\ WF_vars(ExceededAges)

FairSpec == Spec /\ Fairness

----------------------------------------------------------------------------
(* Properties *)

TypeOK ==
  /\ setting \in Setting
  /\ lpc \in [Loop -> LoopPc]
  /\ cpc \in [Conn -> ConnPc]
  /\ foreign \subseteq Conn /\ pending \subseteq Conn
  /\ \A c \in pending : cpc[c] \notin {"none", "gone"}
  /\ object \in [Conn -> BOOLEAN] /\ guid \in [Conn -> Guid \union {None}]
  /\ valid \in [Conn -> BOOLEAN] /\ terminated \in [Conn -> BOOLEAN]
  /\ objects \subseteq Conn
  /\ list \in [Holder -> SUBSET Conn] /\ hold \in [Holder -> Conn \union {None}]
  /\ alert \in {"none", "recent", "long"}
  /\ exceeded \in {"none", "recent", "past"}
  /\ reject_all \in BOOLEAN

\* Connections that do not come from a local address never push the number of
\* pending registrations further above the limit than the accept loops, which
\* check it and add to it without a lock, can make it.
PendingBound ==
  Limit > 0 => Cardinality(pending \cap foreign) < Limit + Cardinality(Loop)

\* At most one object of a guid is online: a device that connects again
\* replaces its previous object in the list.
OneOnline ==
  \A c, d \in objects :
    ~Expired(c) /\ ~Expired(d) /\ guid[c] = guid[d] => c = d

\* No connection is left behind: an object that was added and is alive is in
\* the list, where others find it, or its thread has been told to end.
ListedOrTerminated ==
  \A c \in Conn :
    Registered(c) /\ cpc[c] # "add" /\ ~Expired(c) => c \in objects \/ terminated[c]

\* Nobody has an object whose connection is deleted: a thread that found an
\* object in the list can use its connection and its sthread.
HeldIsAlive == \A h \in Holder : hold[h] # None => cpc[hold[h]] # "gone"

\* A thread that is terminated ends, the one of a sleeping device included,
\* unless the users of its object never stop overlapping: nothing in the code
\* keeps new ones away while the thread waits for the last of them.
TerminatedEnds ==
  \A c \in Conn :
    []<>Unused(c) => (terminated[c] /\ cpc[c] # "none" ~> cpc[c] = "gone")

\* A connection does not wait for a registration for ever.
PendingEnds == \A c \in Conn : c \in pending ~> c \notin pending

\* The rejection of all new connections is lifted again.
RejectIsTemporary == reject_all ~> ~reject_all
=============================================================================
