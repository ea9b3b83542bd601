----------------------------- MODULE Registration -----------------------------
(***************************************************************************)
(* The registration of a user's devices: supla_abstract_register_device    *)
(* and its transactions on the database, run by the threads of several     *)
(* connections at once.                                                    *)
(*                                                                         *)
(* The database is external.  It is modelled as the code uses it: a read   *)
(* inside of a transaction sees the snapshot taken by its first read and   *)
(* the transaction's own rows; a row another open transaction has inserted *)
(* under the same key is waited for; a second row under a key is refused   *)
(* (UNIQUE_USER_GUID, UNIQUE_CHANNEL); a statement may fail, and then the  *)
(* code takes 0 for what it has read.                                      *)
(*                                                                         *)
(* The channels of a device are a set of <<number, type>> in the database  *)
(* and a sequence of them in a registration.  Type 0 is "no channel".      *)
(*                                                                         *)
(* Left out: functions, flags and icons of channels, the report of         *)
(* conflicts, the codes that wish for something on success (CFG_MODE, ...),*)
(* a START TRANSACTION or COMMIT that fails.                               *)
(***************************************************************************)
EXTENDS Naturals, Sequences, FiniteSets

CONSTANTS
  Session,     \* connections with their threads
  Guid,        \* of the devices of one user
  Location,    \* of the user
  Open,        \* the locations that are enabled
  Requests,    \* what a device may register with
  Stored,      \* [Guid -> Device or None] and ...
  StoredWith,  \* ... [Guid -> its channels], in the database at first
  Limit,       \* limit_iodev of the user
  MaxRegistrations,  \* Bound: registrations
  None

Channel == Nat \X Nat
Device == [location : Location, original : Location \union {None},
           enabled : BOOLEAN, blocked : BOOLEAN, locked : BOOLEAN]
\* A registration with a location and its password (..._C) or an e-mail and
\* an authkey (..._G), which has no location.
Request == [guid : Guid, location : Location \union {None},
            channels : Seq(Channel), locked : BOOLEAN]

\* The results that can be sent.
Code == {"TRUE", "GUID_ERROR", "AUTHKEY_ERROR", "TEMPORARILY_UNAVAILABLE",
         "BAD_CREDENTIALS", "REGISTRATION_DISABLED", "DEVICE_LIMITEXCEEDED",
         "NO_LOCATION_AVAILABLE", "DEVICE_DISABLED", "LOCATION_DISABLED",
         "LOCATION_CONFLICT", "CHANNEL_CONFLICT", "DEVICE_LOCKED"}

ASSUME RegistrationAssumption ==
  /\ IsFiniteSet(Session) /\ IsFiniteSet(Guid) /\ Session # {}
  /\ Open \subseteq Location /\ None \notin Location
  /\ Requests \subseteq Request
  /\ \A r \in Requests : r.location # None => ~r.locked
  /\ Stored \in [Guid -> Device \union {None}] /\ None \notin Device
  /\ StoredWith \in [Guid -> SUBSET Channel]
  /\ \A g \in Guid : Stored[g] = None => StoredWith[g] = {}
  /\ Limit \in Nat /\ MaxRegistrations \in Nat
  /\ Cardinality({g \in Guid : Stored[g] # None}) < Limit + Cardinality(Session)

VARIABLES
  device,     \* [Guid -> Device or None], committed
  channels,   \* [Guid -> SUBSET Channel], committed
  pc,         \* [Session -> Pc]
  req,        \* [Session -> Request or None]
  found,      \* [Session -> Device or None]: device_id and its variables
  location,   \* [Session -> Location or None]: location_id
  seen,       \* [Session -> Nat]: the number of devices in the snapshot
  snapshot,   \* [Session -> SUBSET Channel]: the channels in the snapshot
  inserted,   \* sessions whose transaction has inserted their device
  added,      \* [Session -> SUBSET Channel]: channels it has inserted
  processed,  \* [Session -> Nat]: processed_count
  answer,     \* [Session -> Code or None]: the result that was sent
  registrations \* number of registrations so far

db    == <<device, channels>>
tvars == <<seen, snapshot, inserted, added, processed>>
rvars == <<req, registrations>>
vars  == <<db, pc, rvars, found, location, tvars, answer>>

Pc == {"idle", "connect", "auth", "find", "begin", "limit", "insert", "check",
       "channels", "count", "finish", "commit", "locked", "success", "done", "registered"}

Go(s, from, to) == pc[s] = from /\ pc' = [pc EXCEPT ![s] = to]

Init ==
  /\ device = Stored /\ channels = StoredWith
  /\ pc = [s \in Session |-> "idle"] /\ req = [s \in Session |-> None]
  /\ found = [s \in Session |-> None] /\ location = [s \in Session |-> None]
  /\ seen = [s \in Session |-> 0] /\ snapshot = [s \in Session |-> {}]
  /\ inserted = {} /\ added = [s \in Session |-> {}]
  /\ processed = [s \in Session |-> 0]
  /\ answer = [s \in Session |-> None]
  /\ registrations = 0

----------------------------------------------------------------------------
\* send_result(): the transaction is rolled back, which the end of the
\* connection to the database would do as well, and the result is sent.
send_result(s, code) ==
  /\ pc' = [pc EXCEPT ![s] = "done"]
  /\ inserted' = inserted \ {s} /\ added' = [added EXCEPT ![s] = {}]
  /\ answer' = [answer EXCEPT ![s] = code]
  /\ UNCHANGED <<db, rvars, found, location, seen, snapshot, processed>>

\* A step that fails at pc = step, for whatever reason the code gives.
Fails(s, step, code) == pc[s] = step /\ send_result(s, code)

\* A device registers.  An object that is registered already is terminated
\* (see Connections).
Register(s, r) ==
  /\ registrations < MaxRegistrations /\ Go(s, "idle", "connect")
  /\ registrations' = registrations + 1
  /\ req' = [req EXCEPT ![s] = r]
  /\ location' = [location EXCEPT ![s] = r.location]
  /\ UNCHANGED <<db, found, tvars, answer>>

\* The guid or the authkey is not valid, or there is no database.
Connect(s) ==
  \/ /\ Go(s, "connect", "auth")
     /\ UNCHANGED <<db, rvars, found, location, tvars, answer>>
  \/ \E code \in {"GUID_ERROR", "AUTHKEY_ERROR", "TEMPORARILY_UNAVAILABLE"} :
       Fails(s, "connect", code)

\* Mutant of device_auth: bad credentials are not answered.
device_auth_silent(s) ==
  /\ \/ Go(s, "auth", "find") \/ Go(s, "auth", "done")
  /\ UNCHANGED <<db, rvars, found, location, tvars, answer>>

device_auth(s) ==
  \/ /\ Go(s, "auth", "find")
     /\ UNCHANGED <<db, rvars, found, location, tvars, answer>>
  \/ Fails(s, "auth", "BAD_CREDENTIALS")

\* get_device_id() and get_device_variables(): a device that cannot be looked
\* up is taken for a new one.
FindDevice(s) ==
  \/ pc[s] = "find" /\ \E d \in {device[req[s].guid], None} :
       /\ Go(s, "find", "begin")
       /\ found' = [found EXCEPT ![s] = d]
       /\ location' = [location EXCEPT ![s] =
            IF @ = None /\ d # None THEN d.location ELSE @]
       /\ UNCHANGED <<db, rvars, tvars, answer>>
  \/ /\ pc[s] = "find" /\ device[req[s].guid] # None
     /\ Fails(s, "find", "TEMPORARILY_UNAVAILABLE")

\* START TRANSACTION and its first read.
Begin(s) ==
  /\ Go(s, "begin", IF found[s] = None THEN "limit" ELSE "check")
  /\ seen' = [seen EXCEPT ![s] = Cardinality({g \in Guid : device[g] # None})]
  /\ snapshot' = [snapshot EXCEPT ![s] = channels[req[s].guid]]
  /\ UNCHANGED <<db, rvars, found, location, inserted, added, processed, answer>>

----------------------------------------------------------------------------
(* add_device() *)

\* Mutant of LimitLeft: the limit is off by one.
LimitLeftOneMore(s) == Limit + 1 - seen[s] > 0

LimitLeft(s) == Limit - seen[s] > 0

\* An enabled location is asked for, then one that is not.
add_device(s) ==
  \/ /\ LimitLeft(s) /\ Go(s, "limit", "insert")
     /\ IF location[s] # None THEN UNCHANGED location
        ELSE \E l \in Location : location' = [location EXCEPT ![s] = l]
     /\ UNCHANGED <<db, rvars, found, tvars, answer>>
  \/ \E code \in {"REGISTRATION_DISABLED", "DEVICE_LIMITEXCEEDED"} :
       Fails(s, "limit", code)
  \/ /\ LimitLeft(s) /\ location[s] = None
     /\ Fails(s, "limit", "NO_LOCATION_AVAILABLE")

\* The row of a new device.  A device with an authkey has no original location.
NewDevice(s) ==
  [location |-> location[s], original |-> req[s].location, enabled |-> TRUE,
   blocked |-> FALSE, locked |-> req[s].locked]

\* Another open transaction has inserted this device.
DeviceAwaited(s) ==
  \E o \in inserted \ {s} : req[o].guid = req[s].guid

\* Mutant of Insert: outside of the transaction.
InsertAutocommit(s) ==
  \/ /\ Go(s, "insert", "check")
     /\ ~DeviceAwaited(s) /\ device[req[s].guid] = None
     /\ device' = [device EXCEPT ![req[s].guid] = NewDevice(s)]
     /\ inserted' = inserted \union {s}
     /\ UNCHANGED <<channels, rvars, found, location, seen, snapshot, added,
                    processed, answer>>
  \/ Fails(s, "insert", "TEMPORARILY_UNAVAILABLE")

\* supla_add_iodevice
Insert(s) ==
  \/ /\ Go(s, "insert", "check")
     /\ ~DeviceAwaited(s) /\ device[req[s].guid] = None
     /\ inserted' = inserted \union {s}
     /\ UNCHANGED <<db, rvars, found, location, seen, snapshot, added,
                    processed, answer>>
  \/ Fails(s, "insert", "TEMPORARILY_UNAVAILABLE")

----------------------------------------------------------------------------
\* location_enabled: of the device's location, or of a new one's.
LocationEnabled(s) ==
  (IF found[s] = None THEN location[s] ELSE found[s].location) \in Open

LocationMatches(s) ==
  found[s] # None => location[s] \in {found[s].location, found[s].original}

CheckDevice(s) ==
  LET disabled == found[s] # None /\ ~found[s].enabled IN
  \/ disabled /\ Fails(s, "check", "DEVICE_DISABLED")
  \/ ~disabled /\ ~LocationEnabled(s) /\ Fails(s, "check", "LOCATION_DISABLED")
  \/ /\ ~disabled /\ LocationEnabled(s) /\ ~LocationMatches(s)
     /\ Fails(s, "check", "LOCATION_CONFLICT")
  \/ /\ ~disabled /\ LocationEnabled(s) /\ LocationMatches(s)
     /\ Go(s, "check", "channels")
     /\ UNCHANGED <<db, rvars, found, location, tvars, answer>>

----------------------------------------------------------------------------
(* add_channels() *)

\* The channels of the device the transaction sees.
Visible(s) == snapshot[s] \union added[s]

Numbers(set) == {c[1] : c \in set}

\* A row with this number is in the way: one that was committed after the
\* snapshot, or of another open transaction.
InTheWay(s, c) ==
  \/ c[1] \in Numbers(channels[req[s].guid])
  \/ \E o \in Session \ {s} :
       added[o] # {} /\ req[o].guid = req[s].guid /\ c[1] \in Numbers(added[o])

\* Mutant of AddChannel: a channel that is not allowed is skipped.
AddChannelSkip(s, c) ==
  /\ \/ (c \in Visible(s) \/ (found[s] # None /\ found[s].blocked)) /\ UNCHANGED added
     \/ /\ c[1] \notin Numbers(Visible(s))
        /\ ~(found[s] # None /\ found[s].blocked) /\ ~InTheWay(s, c)
        /\ added' = [added EXCEPT ![s] = @ \union {c}]
  /\ processed' = [processed EXCEPT ![s] = @ + 1] /\ UNCHANGED pc

\* The channel is there, with the same type, or it is added.
AddChannel(s, c) ==
  /\ \/ c \in Visible(s) /\ UNCHANGED added
     \/ /\ c[1] \notin Numbers(Visible(s))
        /\ ~(found[s] # None /\ found[s].blocked) /\ ~InTheWay(s, c)
        /\ added' = [added EXCEPT ![s] = @ \union {c}]
  /\ processed' = [processed EXCEPT ![s] = @ + 1] /\ UNCHANGED pc

\* The next channel of the registration.
NextChannel(s) ==
  LET k == processed[s] + 1 IN
  /\ pc[s] = "channels" /\ k <= Len(req[s].channels)
  /\ IF req[s].channels[k][2] # 0 THEN AddChannel(s, req[s].channels[k])
     ELSE /\ Go(s, "channels", "count") /\ UNCHANGED added
          /\ processed' = [processed EXCEPT ![s] = k]
  /\ UNCHANGED <<db, rvars, found, location, seen, snapshot, inserted, answer>>

\* Its type differs, it must not or cannot be added.  One that cannot be
\* looked up is added a second time, which the database refuses.
ChannelConflict(s) ==
  LET k == processed[s] + 1 IN
  /\ pc[s] = "channels" /\ k <= Len(req[s].channels) /\ req[s].channels[k][2] # 0
  /\ Fails(s, "channels", "CHANNEL_CONFLICT")

ChannelsDone(s) ==
  /\ Go(s, "channels", "count") /\ processed[s] = Len(req[s].channels)
  /\ UNCHANGED <<db, rvars, found, location, tvars, answer>>

CountChannels(s) ==
  \/ /\ processed[s] \in {Cardinality(Visible(s)), 0} /\ Go(s, "count", "finish")
     /\ UNCHANGED <<db, rvars, found, location, tvars, answer>>
  \/ Fails(s, "count", "CHANNEL_CONFLICT")

----------------------------------------------------------------------------
(* The end of register_device() *)

\* A device that was there is updated; on_new_device() otherwise.
Finish(s) ==
  \/ /\ Go(s, "finish", "commit")
     /\ UNCHANGED <<db, rvars, found, location, tvars, answer>>
  \/ found[s] # None /\ Fails(s, "finish", "TEMPORARILY_UNAVAILABLE")

\* What supla_update_iodevice writes: flags are never taken away, and channels
\* may be added again.
Updated(s, d) ==
  [d EXCEPT !.locked = d.locked \/ found[s].locked,
            !.blocked = FALSE,
            !.original = IF req[s].location = None THEN None
                         ELSE IF location[s] = found[s].location THEN location[s]
                         ELSE found[s].original]

\* Mutant of Locked: the device says whether it is.
LockedAnnounced(s) == req[s].locked

Locked(s) == IF found[s] = None THEN req[s].locked ELSE found[s].locked

Commit(s) ==
  LET g == req[s].guid IN
  /\ Go(s, "commit", IF Locked(s) THEN "locked" ELSE "success")
  /\ device' = [device EXCEPT ![g] =
                  IF found[s] = None THEN NewDevice(s) ELSE Updated(s, @)]
  /\ channels' = [channels EXCEPT ![g] = @ \union added[s]]
  /\ inserted' = inserted \ {s} /\ added' = [added EXCEPT ![s] = {}]
  /\ UNCHANGED <<rvars, found, location, seen, snapshot, processed, answer>>

\* The device is online (see Connections) before the result is sent, or it is
\* locked and stays out.
Answer(s) ==
  \/ Fails(s, "success", "TRUE")
  \/ Fails(s, "locked", "DEVICE_LOCKED")

\* on_object_registration_done(): the device may try again if it failed.  The
\* variables of the handler end with it.
Done(s) ==
  /\ Go(s, "done", IF answer[s] = "TRUE" THEN "registered" ELSE "idle")
  /\ found' = [found EXCEPT ![s] = None] /\ location' = [location EXCEPT ![s] = None]
  /\ seen' = [seen EXCEPT ![s] = 0] /\ snapshot' = [snapshot EXCEPT ![s] = {}]
  /\ processed' = [processed EXCEPT ![s] = 0]
  /\ answer' = [answer EXCEPT ![s] = None]
  /\ UNCHANGED <<db, rvars, inserted, added>>

\* The connection ends; another one takes its place.
Disconnected(s) ==
  /\ Go(s, "registered", "idle")
  /\ UNCHANGED <<db, rvars, found, location, tvars, answer>>

Step(s) ==
  \/ Connect(s) \/ device_auth(s) \/ FindDevice(s) \/ Begin(s) \/ add_device(s)
  \/ Insert(s) \/ CheckDevice(s) \/ NextChannel(s) \/ ChannelConflict(s)
  \/ ChannelsDone(s) \/ CountChannels(s) \/ Finish(s) \/ Commit(s) \/ Answer(s)
  \/ Done(s)

Rest ==
  /\ registrations = MaxRegistrations /\ \A s \in Session : pc[s] = "idle"
  /\ UNCHANGED vars

Next ==
  \/ \E s \in Session :
       \/ Step(s) \/ Disconnected(s)
       \/ \E r \in Requests : Register(s, r)
  \/ Rest

Spec == Init /\ [][Next]_vars

\* Every thread runs; a statement that waits for a lock ends, as a lock wait
\* has a time-out.
FairSpec == Spec /\ \A s \in Session : WF_vars(Step(s))

----------------------------------------------------------------------------
(* Properties *)

TypeOK ==
  /\ device \in [Guid -> Device \union {None}]
  /\ channels \in [Guid -> SUBSET Channel]
  /\ pc \in [Session -> Pc] /\ req \in [Session -> Requests \union {None}]
  /\ found \in [Session -> Device \union {None}]
  /\ location \in [Session -> Location \union {None}]
  /\ seen \in [Session -> Nat] /\ snapshot \in [Session -> SUBSET Channel]
  /\ inserted \subseteq Session /\ added \in [Session -> SUBSET Channel]
  /\ processed \in [Session -> Nat] /\ registrations \in Nat
  /\ answer \in [Session -> Code \union {None}]

\* The channels of a registration, up to one that is none.
Announced(r) ==
  {r.channels[k] : k \in {i \in DOMAIN r.channels :
                            \A j \in 1 .. i : r.channels[j][2] # 0}}

\* A device is never in the database with a part of its channels: all that it
\* announced in some registration are there.
NoPartialDevice ==
  \A g \in Guid : device[g] # None =>
    \/ Stored[g] # None /\ StoredWith[g] \subseteq channels[g]
    \/ \E r \in Requests : r.guid = g /\ Announced(r) \subseteq channels[g]

\* A device that is online, or was told that it is registered, is in the
\* database with every channel it announced, each with its type, whatever
\* other connections registered meanwhile.
RegisteredIsStored ==
  \A s \in Session : pc[s] \in {"success", "registered"} =>
    /\ device[req[s].guid] # None
    /\ Announced(req[s]) \subseteq channels[req[s].guid]

\* A locked device stays out, whatever it announces and whichever of its
\* connections locked it.
LockedStaysOut ==
  \A s \in Session : pc[s] \in {"success", "registered"} =>
    ~device[req[s].guid].locked

\* Registrations that run at the same time can exceed the limit of devices,
\* by less than there are threads.
LimitBound ==
  Cardinality({g \in Guid : device[g] # None}) < Limit + Cardinality(Session)

\* Every registration is answered.
EveryoneAnswered ==
  \A s \in Session : pc[s] = "connect" ~> answer[s] # None
=============================================================================
