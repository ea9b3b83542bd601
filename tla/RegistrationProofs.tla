-------------------------- MODULE RegistrationProofs --------------------------
(***************************************************************************)
(* Proofs about Registration, for any number of connections, devices,      *)
(* locations and registrations, any contents of the database and any limit.*)
(***************************************************************************)
EXTENDS Registration, FiniteSetTheorems, TLAPS

\* The steps of a registration once its device is in the database or inserted
\* by its transaction, and the steps at which no device has been looked up.
Inside  == {"check", "channels", "count", "finish", "commit"}
Outside == {"idle", "connect", "auth", "find", "registered"}

\* What holds of one registration.  A device that was found is still there,
\* locked or not as it was; a transaction has inserted its device if and only
\* if none was found, and then nobody else has stored it.
SessionInv(s) ==
  /\ pc[s] # "idle" => req[s] \in Requests
  /\ pc[s] \in Outside => found[s] = None
  /\ pc[s] \in {"insert"} \union Inside => location[s] # None
  /\ pc[s] = "begin" /\ found[s] # None => location[s] # None
  /\ found[s] # None => /\ device[req[s].guid] # None
                        /\ device[req[s].guid].locked = found[s].locked
  /\ s \in inserted => /\ pc[s] \in Inside /\ found[s] = None
                       /\ device[req[s].guid] = None
  /\ pc[s] \in Inside /\ found[s] = None => s \in inserted

\* Two open transactions never insert one device.
InsertInv == \A s, t \in inserted : req[s].guid = req[t].guid => s = t

DeviceInv == InsertInv /\ \A s \in Session : SessionInv(s)

\* The device of this session is online, or was told that it is registered.
Accepted(s) ==
  pc[s] \in {"success", "registered"} \/ (pc[s] = "done" /\ answer[s] = "TRUE")

LockedInv ==
  \A s \in Session : Accepted(s) => /\ device[req[s].guid] # None
                                   /\ ~device[req[s].guid].locked

\* The first n channels of a registration are channels the transaction sees.
Covered(s, n) ==
  \A j \in 1 .. n : /\ req[s].channels[j][2] # 0
                    /\ req[s].channels[j] \in Visible(s)

\* What add_channels() has achieved: nothing the snapshot shows is ever gone, so
\* what the transaction sees is in the database once it is committed.
ChannelInv(s) ==
  /\ pc[s] \in Outside \union {"begin", "limit", "insert", "check"} => processed[s] = 0
  /\ pc[s] \in {"limit", "insert"} \union Inside =>
       snapshot[s] \subseteq channels[req[s].guid]
  /\ pc[s] = "channels" =>
       processed[s] <= Len(req[s].channels) /\ Covered(s, processed[s])
  /\ pc[s] \in {"count", "finish", "commit"} => Announced(req[s]) \subseteq Visible(s)
  /\ Accepted(s) => Announced(req[s]) \subseteq channels[req[s].guid]

\* The devices in the database, and the sessions that may add one.
Devices == {g \in Guid : device[g] # None}
Cleared == {s \in Session : /\ found[s] = None
                            /\ \/ pc[s] \in {"insert"} \union Inside
                               \/ pc[s] = "limit" /\ seen[s] < Limit}

LimitInv == Cardinality(Devices) + Cardinality(Cleared) < Limit + Cardinality(Session)

----------------------------------------------------------------------------
(* The shape of a step *)

\* A registration that fails, in whatever step.
Failing(s) == \E code \in Code : send_result(s, code)

Moves(s) == Step(s) \/ Disconnected(s) \/ \E r \in Requests : Register(s, r)

\* The variables of the other registrations stay as they are.
Others(s) ==
  /\ \A t \in Session \ {s} :
       /\ pc'[t] = pc[t] /\ req'[t] = req[t] /\ found'[t] = found[t]
       /\ location'[t] = location[t] /\ seen'[t] = seen[t]
       /\ snapshot'[t] = snapshot[t] /\ added'[t] = added[t]
       /\ processed'[t] = processed[t] /\ answer'[t] = answer[t]
  /\ inserted' \ {s} = inserted \ {s}

LEMMA FailOthers ==
  ASSUME TypeOK, NEW s \in Session, NEW code, send_result(s, code)
  PROVE  Others(s)
BY DEF TypeOK, Others, send_result, db, rvars

LEMMA MoveOthers ==
  ASSUME TypeOK, NEW s \in Session, Moves(s)
  PROVE  Others(s)
<1> USE FailOthers DEF Fails
<1>1. CASE Connect(s) \/ device_auth(s) \/ FindDevice(s)
  <2>1. \/ \E code : send_result(s, code)
        \/ UNCHANGED <<rvars, tvars, answer>>
           /\ (\E to : pc' = [pc EXCEPT ![s] = to])
           /\ (UNCHANGED found \/ \E d : found' = [found EXCEPT ![s] = d])
           /\ (UNCHANGED location \/ \E l : location' = [location EXCEPT ![s] = l])
    BY <1>1 DEF Connect, device_auth, FindDevice, Go
  <2> QED
    BY <2>1 DEF TypeOK, Others, rvars, tvars
<1>2. CASE Begin(s) \/ add_device(s) \/ Insert(s) \/ CheckDevice(s)
  <2>1. CASE Begin(s)
    BY <2>1 DEF TypeOK, Others, Begin, Go, rvars
  <2>2. CASE add_device(s)
    BY <2>2 DEF TypeOK, Others, add_device, Go, rvars, tvars
  <2>3. CASE Insert(s)
    BY <2>3 DEF TypeOK, Others, Insert, Go, rvars
  <2>4. CASE CheckDevice(s)
    BY <2>4 DEF TypeOK, Others, CheckDevice, Go, rvars, tvars
  <2> QED
    BY <1>2, <2>1, <2>2, <2>3, <2>4
<1>3. CASE NextChannel(s) \/ ChannelConflict(s) \/ ChannelsDone(s) \/ CountChannels(s)
  <2>1. CASE NextChannel(s)
    BY <2>1 DEF TypeOK, Others, NextChannel, AddChannel, Go, rvars
  <2>2. CASE ChannelConflict(s) \/ ChannelsDone(s) \/ CountChannels(s)
    BY <2>2 DEF TypeOK, Others, ChannelConflict, ChannelsDone, CountChannels, Go,
       rvars, tvars
  <2> QED
    BY <1>3, <2>1, <2>2
<1>4. CASE Finish(s) \/ Commit(s) \/ Answer(s) \/ Done(s)
  BY <1>4 DEF TypeOK, Others, Finish, Commit, Answer, Done, Go, rvars, tvars
<1>5. CASE Disconnected(s)
  BY <1>5 DEF TypeOK, Others, Disconnected, Go, rvars, tvars
<1>6. ASSUME NEW r \in Requests, Register(s, r) PROVE Others(s)
  BY <1>6 DEF TypeOK, Others, Register, Go, rvars, tvars
<1> QED
  BY <1>1, <1>2, <1>3, <1>4, <1>5, <1>6 DEF Moves, Step

----------------------------------------------------------------------------
(* Type correctness and the devices *)

LEMMA RequestType ==
  ASSUME NEW r \in Requests
  PROVE  /\ r.guid \in Guid /\ r.location \in Location \union {None}
         /\ r.channels \in Seq(Channel) /\ r.locked \in BOOLEAN
BY RegistrationAssumption DEF Request

LEMMA FailType ==
  ASSUME TypeOK, NEW s \in Session, NEW code \in Code, send_result(s, code)
  PROVE  TypeOK'
BY DEF TypeOK, send_result, Pc, db, rvars

LEMMA FailDevice ==
  ASSUME TypeOK, NEW s \in Session, SessionInv(s), pc[s] # "idle",
         NEW code \in Code, send_result(s, code)
  PROVE  SessionInv(s)'
BY DEF TypeOK, SessionInv, send_result, Inside, Outside, db, rvars

\* A step of s that stores nothing keeps what holds of the others.
LEMMA KeepDevice ==
  ASSUME TypeOK, NEW s \in Session, NEW t \in Session \ {s}, Others(s), UNCHANGED device,
         SessionInv(t)
  PROVE  SessionInv(t)'
<1>1. t \in inserted' <=> t \in inserted
  BY DEF Others
<1> QED
  BY <1>1 DEF SessionInv, Others

\* Steps of s that neither insert nor store a device.
Quietly(s) ==
  /\ UNCHANGED device /\ inserted' \subseteq inserted
  /\ s \in inserted' => req'[s] = req[s]

LEMMA QuietDevice ==
  ASSUME TypeOK, NEW s \in Session, Others(s), Quietly(s), DeviceInv, SessionInv(s)'
  PROVE  DeviceInv'
<1>1. \A t \in Session : SessionInv(t)'
  BY KeepDevice DEF Quietly, DeviceInv
<1>2. InsertInv'
  BY DEF TypeOK, InsertInv, DeviceInv, Quietly, Others
<1> QED
  BY <1>1, <1>2 DEF DeviceInv

LEMMA FailsKeeps ==
  ASSUME TypeOK, DeviceInv, NEW s \in Session, pc[s] # "idle", Failing(s)
  PROVE  TypeOK' /\ DeviceInv'
<1> PICK code \in Code : send_result(s, code)
  BY DEF Failing
<1>1. SessionInv(s)' /\ TypeOK' /\ Others(s)
  BY FailType, FailDevice, FailOthers DEF DeviceInv
<1>2. Quietly(s)
  BY DEF Quietly, send_result, db, rvars
<1> QED
  BY <1>1, <1>2, QuietDevice

LEMMA BeginningKeeps ==
  ASSUME TypeOK, DeviceInv, NEW s \in Session, ~Failing(s),
         Connect(s) \/ device_auth(s) \/ \E r \in Requests : Register(s, r)
  PROVE  TypeOK' /\ DeviceInv'
<1>1. SessionInv(s) /\ Others(s)
  BY MoveOthers DEF DeviceInv, Moves, Step
<1>2. CASE Connect(s) \/ device_auth(s)
  <2>1. /\ pc[s] \in {"connect", "auth"}
        /\ \E to \in {"auth", "find"} : pc' = [pc EXCEPT ![s] = to]
        /\ UNCHANGED <<db, rvars, found, location, tvars, answer>>
    BY <1>2 DEF Connect, device_auth, Fails, Failing, Code, Go
  <2>2. TypeOK'
    BY <2>1 DEF TypeOK, Pc, db, rvars, tvars
  <2>3. SessionInv(s)' /\ Quietly(s)
    BY <1>1, <2>1 DEF TypeOK, SessionInv, Quietly, Inside, Outside, db, rvars, tvars
  <2> QED
    BY <1>1, <2>2, <2>3, QuietDevice
<1>3. ASSUME NEW r \in Requests, Register(s, r) PROVE TypeOK' /\ DeviceInv'
  <2>1. TypeOK'
    BY <1>3, RequestType DEF TypeOK, Register, Go, Pc, db, tvars
  <2>2. SessionInv(s)' /\ Quietly(s)
    BY <1>1, <1>3 DEF TypeOK, SessionInv, Register, Go, Quietly, Inside, Outside, db, tvars
  <2> QED
    BY <1>1, <2>1, <2>2, QuietDevice
<1> QED
  BY <1>2, <1>3

LEMMA FindKeeps ==
  ASSUME TypeOK, DeviceInv, NEW s \in Session, FindDevice(s), ~Failing(s)
  PROVE  TypeOK' /\ DeviceInv'
<1>1. SessionInv(s) /\ Others(s)
  BY MoveOthers DEF DeviceInv, Moves, Step
<1>2. PICK d \in {device[req[s].guid], None} :
        /\ Go(s, "find", "begin")
        /\ found' = [found EXCEPT ![s] = d]
        /\ location' = [location EXCEPT ![s] =
             IF @ = None /\ d # None THEN d.location ELSE @]
        /\ UNCHANGED <<db, rvars, tvars, answer>>
  BY DEF FindDevice, Fails, Failing, Code
<1>3. req[s] \in Requests /\ req[s].guid \in Guid
  BY <1>1, <1>2, RequestType DEF SessionInv, Go
<1>4. d \in Device \union {None} /\ (d # None => d.location \in Location)
  BY <1>3 DEF TypeOK, Device
<1>5. TypeOK'
  BY <1>2, <1>4 DEF TypeOK, Go, Pc, db, rvars, tvars
<1>6. SessionInv(s)' /\ Quietly(s)
  BY <1>1, <1>2, <1>3, <1>4, RegistrationAssumption DEF TypeOK, SessionInv, Go, Quietly,
     Inside, Outside, db, rvars, tvars
<1> QED
  BY <1>1, <1>5, <1>6, QuietDevice

LEMMA DevicesFinite ==
  ASSUME TypeOK
  PROVE  /\ IsFiniteSet(Devices) /\ Cardinality(Devices) \in Nat
         /\ IsFiniteSet(Cleared) /\ Cardinality(Cleared) \in Nat
         /\ Cardinality(Cleared) <= Cardinality(Session) /\ Cardinality(Session) \in Nat
BY RegistrationAssumption, FS_Subset, FS_CardinalityType, Devices \subseteq Guid,
   Cleared \subseteq Session DEF Devices, Cleared

LEMMA TransactionKeeps ==
  ASSUME TypeOK, DeviceInv, NEW s \in Session, ~Failing(s),
         Begin(s) \/ add_device(s) \/ CheckDevice(s)
  PROVE  TypeOK' /\ DeviceInv'
<1>1. SessionInv(s) /\ Others(s)
  BY MoveOthers DEF DeviceInv, Moves, Step
<1>2. CASE Begin(s)
  <2>1. Cardinality(Devices) \in Nat /\ channels[req[s].guid] \in SUBSET Channel
    BY <1>1, <1>2, DevicesFinite, RequestType DEF SessionInv, Begin, Go, TypeOK
  <2>2. TypeOK'
    BY <1>2, <2>1 DEF TypeOK, Begin, Go, Devices, Pc, db, rvars
  <2>3. SessionInv(s)' /\ Quietly(s)
    BY <1>1, <1>2 DEF TypeOK, SessionInv, Begin, Go, Quietly, Inside, Outside, db, rvars
  <2> QED
    BY <1>1, <2>2, <2>3, QuietDevice
<1>3. CASE add_device(s)
  <2>1. /\ Go(s, "limit", "insert")
        /\ \E l \in Location : location' = [location EXCEPT ![s] = l]
        /\ UNCHANGED <<db, rvars, found, tvars, answer>>
    BY <1>3 DEF TypeOK, add_device, Fails, Failing, Code
  <2>2. TypeOK'
    BY <2>1 DEF TypeOK, Go, Pc, db, rvars, tvars
  <2>3. SessionInv(s)' /\ Quietly(s)
    BY <1>1, <2>1, RegistrationAssumption DEF TypeOK, SessionInv, Go, Quietly, Inside,
       Outside, db, rvars, tvars
  <2> QED
    BY <1>1, <2>2, <2>3, QuietDevice
<1>4. CASE CheckDevice(s)
  <2>1. Go(s, "check", "channels") /\ UNCHANGED <<db, rvars, found, location, tvars, answer>>
    BY <1>4 DEF CheckDevice, Fails, Failing, Code
  <2>2. TypeOK'
    BY <2>1 DEF TypeOK, Go, Pc, db, rvars, tvars
  <2>3. SessionInv(s)' /\ Quietly(s)
    BY <1>1, <2>1 DEF TypeOK, SessionInv, Go, Quietly, Inside, Outside, db, rvars, tvars
  <2> QED
    BY <1>1, <2>2, <2>3, QuietDevice
<1> QED
  BY <1>2, <1>3, <1>4

LEMMA InsertKeeps ==
  ASSUME TypeOK, DeviceInv, NEW s \in Session, Insert(s), ~Failing(s)
  PROVE  TypeOK' /\ DeviceInv'
<1>1. SessionInv(s) /\ Others(s)
  BY MoveOthers DEF DeviceInv, Moves, Step
<1>2. /\ Go(s, "insert", "check") /\ ~DeviceAwaited(s) /\ device[req[s].guid] = None
      /\ inserted' = inserted \union {s}
      /\ UNCHANGED <<db, rvars, found, location, seen, snapshot, added, processed, answer>>
  BY DEF Insert, Fails, Failing, Code
<1>3. TypeOK'
  BY <1>2 DEF TypeOK, Go, Pc, db, rvars
<1>4. SessionInv(s)'
  BY <1>1, <1>2 DEF TypeOK, SessionInv, Go, Inside, Outside, db, rvars
<1>5. \A t \in Session : SessionInv(t)'
  BY <1>1, <1>2, <1>4, KeepDevice DEF DeviceInv, db
<1>6. InsertInv'
  BY <1>2 DEF InsertInv, DeviceInv, DeviceAwaited, rvars
<1> QED
  BY <1>3, <1>5, <1>6 DEF DeviceInv

\* Steps that only add channels to the transaction.
LEMMA ChannelsKeep ==
  ASSUME TypeOK, DeviceInv, NEW s \in Session, ~Failing(s),
         NextChannel(s) \/ ChannelConflict(s) \/ ChannelsDone(s) \/ CountChannels(s) \/ Finish(s)
  PROVE  TypeOK' /\ DeviceInv'
<1>1. SessionInv(s) /\ Others(s)
  BY MoveOthers DEF DeviceInv, Moves, Step
<1>2. pc[s] \in Inside /\ req[s] \in Requests
  BY <1>1 DEF SessionInv, NextChannel, ChannelConflict, ChannelsDone, CountChannels, Finish,
     Fails, Failing, Code, Go, Inside
<1>3. CASE NextChannel(s)
  <2> DEFINE k == processed[s] + 1
  <2>1. k \in Nat /\ req[s].channels[k] \in Channel
    BY <1>2, <1>3, RequestType DEF NextChannel, TypeOK
  <2>2. /\ \E to \in Inside : pc' = [pc EXCEPT ![s] = to]
        /\ added' = added \/ added' = [added EXCEPT ![s] = @ \union {req[s].channels[k]}]
        /\ processed' = [processed EXCEPT ![s] = k]
        /\ UNCHANGED <<db, rvars, found, location, seen, snapshot, inserted, answer>>
    <3>1. pc = [pc EXCEPT ![s] = pc[s]]
      BY DEF TypeOK
    <3> QED
      BY <1>2, <1>3, <3>1 DEF NextChannel, AddChannel, Go, Inside
  <2> HIDE DEF k
  <2>3. TypeOK'
    BY <2>1, <2>2 DEF TypeOK, Inside, Pc, db, rvars
  <2>4. SessionInv(s)' /\ Quietly(s)
    BY <1>1, <1>2, <2>2 DEF TypeOK, SessionInv, Quietly, Inside, Outside, db, rvars
  <2> QED
    BY <1>1, <2>3, <2>4, QuietDevice
<1>4. CASE ~NextChannel(s)
  <2>1. /\ \E to \in Inside : pc' = [pc EXCEPT ![s] = to]
        /\ UNCHANGED <<db, rvars, found, location, tvars, answer>>
    BY <1>4 DEF ChannelConflict, ChannelsDone, CountChannels, Finish, Fails, Failing, Code,
       Go, Inside
  <2>2. TypeOK'
    BY <2>1 DEF TypeOK, Inside, Pc, db, rvars, tvars
  <2>3. SessionInv(s)' /\ Quietly(s)
    BY <1>1, <1>2, <2>1 DEF TypeOK, SessionInv, Quietly, Inside, Outside, db, rvars, tvars
  <2> QED
    BY <1>1, <2>2, <2>3, QuietDevice
<1> QED
  BY <1>3, <1>4

LEMMA EndKeeps ==
  ASSUME TypeOK, DeviceInv, NEW s \in Session, Done(s) \/ Disconnected(s)
  PROVE  TypeOK' /\ DeviceInv'
<1>1. SessionInv(s) /\ Others(s)
  BY MoveOthers DEF DeviceInv, Moves, Step
<1>2. TypeOK'
  BY DEF TypeOK, Done, Disconnected, Go, Pc, db, rvars, tvars
<1>3. SessionInv(s)' /\ Quietly(s)
  BY <1>1 DEF TypeOK, SessionInv, Done, Disconnected, Go, Quietly, Inside, Outside, db, rvars,
     tvars
<1> QED
  BY <1>1, <1>2, <1>3, QuietDevice

\* A new device is committed.
LEMMA CommitNew ==
  ASSUME TypeOK, DeviceInv, NEW s \in Session, Commit(s), found[s] = None
  PROVE  TypeOK' /\ DeviceInv'
<1> DEFINE g == req[s].guid
<1>1. SessionInv(s) /\ Others(s) /\ pc[s] = "commit"
  BY MoveOthers DEF DeviceInv, Moves, Step, Commit, Go
<1>2. /\ req[s] \in Requests /\ g \in Guid /\ s \in inserted
      /\ device[g] = None /\ location[s] \in Location
  BY <1>1, RequestType DEF SessionInv, Inside, TypeOK
<1>3. NewDevice(s) \in Device /\ device' = [device EXCEPT ![g] = NewDevice(s)]
  <2>1. req[s].location \in Location \union {None} /\ req[s].locked \in BOOLEAN
    BY <1>2, RequestType
  <2>2. NewDevice(s) \in Device
    BY <1>2, <2>1 DEF NewDevice, Device
  <2> QED
    BY <2>2 DEF Commit
<1>4. channels' \in [Guid -> SUBSET Channel]
  BY <1>2 DEF Commit, TypeOK
<1>5. TypeOK'
  BY <1>3, <1>4 DEF TypeOK, Commit, Go, Pc, rvars
<1>6. SessionInv(s)'
  BY <1>1, <1>2 DEF TypeOK, SessionInv, Commit, Go, Inside, Outside, rvars
<1>7. ASSUME NEW t \in Session \ {s} PROVE SessionInv(t)'
  <2>1. SessionInv(t)
    BY DEF DeviceInv
  <2>2. t \in inserted' <=> t \in inserted
    BY <1>1 DEF Others
  <2>3. found[t] # None \/ t \in inserted => req[t].guid # g
    BY <1>2, <2>1 DEF SessionInv, DeviceInv, InsertInv
  <2>4. found[t] # None \/ t \in inserted => device'[req[t].guid] = device[req[t].guid]
    <3>1. found[t] # None \/ t \in inserted => req[t].guid \in Guid
      BY <2>1, RequestType DEF SessionInv, Inside, Outside
    <3> QED
      BY <1>3, <2>3, <3>1 DEF TypeOK
  <2> QED
    BY <1>1, <2>1, <2>2, <2>4 DEF SessionInv, Others
<1>8. InsertInv'
  BY DEF InsertInv, DeviceInv, Commit, rvars
<1> QED
  BY <1>5, <1>6, <1>7, <1>8 DEF DeviceInv

\* What an update writes is a device, locked if and only if it was.
LEMMA UpdatedDevice ==
  ASSUME TypeOK, DeviceInv, NEW s \in Session, pc[s] = "commit", found[s] # None
  PROVE  /\ req[s] \in Requests /\ req[s].guid \in Guid
         /\ device[req[s].guid] \in Device
         /\ Updated(s, device[req[s].guid]) \in Device
         /\ Updated(s, device[req[s].guid]).locked = device[req[s].guid].locked
<1> DEFINE d == device[req[s].guid]
<1>1. SessionInv(s)
  BY DEF DeviceInv
<1>2. /\ req[s] \in Requests /\ req[s].guid \in Guid /\ location[s] \in Location
      /\ d # None /\ d.locked = found[s].locked
  BY <1>1, RequestType DEF SessionInv, Inside, TypeOK
<1>3. d \in Device /\ found[s] \in Device
  BY <1>2 DEF TypeOK
<1>4. d.locked \in BOOLEAN /\ found[s].original \in Location \union {None}
  BY <1>3 DEF Device
<1>5. (d.locked \/ found[s].locked) = d.locked
  BY <1>2, <1>4
<1> DEFINE l == d.locked \/ found[s].locked
           o == IF req[s].location = None THEN None
                ELSE IF location[s] = found[s].location THEN location[s]
                ELSE found[s].original
<1>6. l \in BOOLEAN /\ o \in Location \union {None}
  BY <1>2, <1>4
<1>7. Updated(s, d) = [d EXCEPT !.locked = l, !.blocked = FALSE, !.original = o]
  BY DEF Updated
<1> HIDE DEF l, o, d
<1>8. Updated(s, d) \in Device /\ Updated(s, d).locked = l
  BY <1>3, <1>6, <1>7 DEF Device
<1> QED
  BY <1>2, <1>3, <1>5, <1>8 DEF d, l

LEMMA CommitOld ==
  ASSUME TypeOK, DeviceInv, NEW s \in Session, Commit(s), found[s] # None
  PROVE  TypeOK' /\ DeviceInv'
<1> DEFINE g == req[s].guid
           u == Updated(s, device[g])
<1>1. SessionInv(s) /\ Others(s) /\ pc[s] = "commit"
  BY MoveOthers DEF DeviceInv, Moves, Step, Commit, Go
<1>2. /\ req[s] \in Requests /\ g \in Guid /\ device[g] # None
      /\ u \in Device /\ u # None /\ u.locked = device[g].locked
  BY <1>1, UpdatedDevice, RegistrationAssumption DEF SessionInv
<1>3. device' = [device EXCEPT ![g] = u]
  BY DEF Commit
<1> HIDE DEF u
<1>4. channels' \in [Guid -> SUBSET Channel]
  BY <1>2 DEF Commit, TypeOK
<1>5. TypeOK'
  BY <1>2, <1>3, <1>4 DEF TypeOK, Commit, Go, Pc, rvars
<1>6. SessionInv(s)'
  BY <1>1, <1>2, <1>3 DEF TypeOK, SessionInv, Commit, Go, Inside, Outside, rvars
<1>7. ASSUME NEW t \in Session \ {s} PROVE SessionInv(t)'
  <2>1. SessionInv(t)
    BY DEF DeviceInv
  <2>2. t \in inserted' <=> t \in inserted
    BY <1>1 DEF Others
  <2>3. found[t] # None \/ t \in inserted => req[t].guid \in Guid
    BY <2>1, RequestType DEF SessionInv, Inside, Outside
  <2>4. t \in inserted => device'[req[t].guid] = None
    BY <1>2, <1>3, <2>1, <2>3 DEF SessionInv, TypeOK
  <2>5. found[t] # None => /\ device'[req[t].guid] # None
                           /\ device'[req[t].guid].locked = found[t].locked
    BY <1>2, <1>3, <2>1, <2>3 DEF SessionInv, TypeOK
  <2> QED
    BY <1>1, <2>1, <2>2, <2>4, <2>5 DEF SessionInv, Others
<1>8. InsertInv'
  BY DEF InsertInv, DeviceInv, Commit, rvars
<1> QED
  BY <1>5, <1>6, <1>7, <1>8 DEF DeviceInv

LEMMA InitDevice == Init => TypeOK /\ DeviceInv
BY RegistrationAssumption DEF Init, TypeOK, DeviceInv, SessionInv, InsertInv, Pc, Inside, Outside

LEMMA StepDevice == TypeOK /\ DeviceInv /\ [Next]_vars => TypeOK' /\ DeviceInv'
<1> SUFFICES ASSUME TypeOK, DeviceInv, [Next]_vars PROVE TypeOK' /\ DeviceInv'
  OBVIOUS
<1>1. ASSUME NEW s \in Session, Step(s) PROVE TypeOK' /\ DeviceInv'
  <2>1. CASE Failing(s)
    <3>1. pc[s] # "idle"
      BY <1>1 DEF Step, Connect, device_auth, FindDevice, Begin, add_device, Insert,
         CheckDevice, NextChannel, ChannelConflict, ChannelsDone, CountChannels, Finish,
         Commit, Answer, Done, Fails, Go
    <3> QED
      BY <2>1, <3>1, FailsKeeps
  <2>2. CASE ~Failing(s)
    <3>1. ~Answer(s)
      BY <2>2 DEF Answer, Fails, Failing, Code
    <3> QED
      BY <1>1, <2>2, <3>1, BeginningKeeps, FindKeeps, TransactionKeeps, InsertKeeps,
         ChannelsKeep, CommitNew, CommitOld, EndKeeps DEF Step
  <2> QED
    BY <2>1, <2>2
<1>2. ASSUME NEW s \in Session, NEW r \in Requests, Register(s, r)
      PROVE  TypeOK' /\ DeviceInv'
  <2>1. ~Failing(s)
    BY <1>2 DEF Failing, send_result, Register, Go, TypeOK
  <2> QED
    BY <1>2, <2>1, BeginningKeeps
<1>3. CASE Rest \/ UNCHANGED vars
  <2>1. UNCHANGED vars
    BY <1>3 DEF Rest
  <2> QED
    BY <2>1 DEF vars, db, rvars, tvars, TypeOK, DeviceInv, InsertInv, SessionInv
<1> QED
  BY <1>1, <1>2, <1>3, EndKeeps DEF Next

\* The variables of the registrations keep their types: what an update or an
\* insertion writes is a device.
THEOREM TypeCorrect == Spec => []TypeOK
BY InitDevice, StepDevice, PTL DEF Spec

LEMMA DevicesSound == Spec => [](TypeOK /\ DeviceInv)
BY InitDevice, StepDevice, PTL DEF Spec

----------------------------------------------------------------------------
(* Locked devices *)

\* Only a commit stores anything, and only a commit lets a device in.
LEMMA OnlyCommit ==
  ASSUME TypeOK, NEW s \in Session, Moves(s), ~Commit(s)
  PROVE  UNCHANGED db /\ (Accepted(s)' => Accepted(s) /\ req'[s] = req[s])
<1> USE DEF TypeOK, Accepted
<1>1. ASSUME NEW code, code # "TRUE", send_result(s, code)
      PROVE  UNCHANGED db /\ ~Accepted(s)'
  BY <1>1 DEF send_result
<1>2. CASE Answer(s)
  BY <1>2 DEF Answer, Fails, send_result, rvars
<1>3. CASE Done(s) \/ Disconnected(s)
  BY <1>3 DEF Done, Disconnected, Go, rvars
<1>4. ASSUME NEW r \in Requests, Register(s, r) PROVE UNCHANGED db /\ ~Accepted(s)'
  BY <1>4 DEF Register, Go
<1>5. CASE Connect(s) \/ device_auth(s) \/ FindDevice(s)
  BY <1>1, <1>5 DEF Connect, device_auth, FindDevice, Fails, Go
<1>6. CASE Begin(s) \/ add_device(s) \/ Insert(s) \/ CheckDevice(s)
  BY <1>1, <1>6 DEF Begin, add_device, Insert, CheckDevice, Fails, Go
<1>7. CASE NextChannel(s)
  BY <1>7 DEF NextChannel, AddChannel, Go
<1>8. CASE ChannelConflict(s) \/ ChannelsDone(s) \/ CountChannels(s) \/ Finish(s)
  BY <1>1, <1>8 DEF ChannelConflict, ChannelsDone, CountChannels, Finish, Fails, Go
<1> QED
  BY <1>2, <1>3, <1>4, <1>5, <1>6, <1>7, <1>8 DEF Moves, Step

LEMMA OthersAccepted ==
  ASSUME NEW s \in Session, NEW t \in Session \ {s}, Others(s)
  PROVE  (Accepted(t)' <=> Accepted(t)) /\ req'[t] = req[t]
BY DEF Others, Accepted

LEMMA CommitLocked ==
  ASSUME TypeOK, DeviceInv, LockedInv, NEW s \in Session, Commit(s)
  PROVE  LockedInv'
<1> DEFINE g == req[s].guid
<1>1. SessionInv(s) /\ Others(s) /\ pc[s] = "commit" /\ req' = req
  BY MoveOthers DEF DeviceInv, Moves, Step, Commit, Go, rvars
<1>2. /\ req[s] \in Requests /\ g \in Guid
      /\ found[s] = None => device[g] = None
      /\ found[s] # None => device[g] # None /\ device[g].locked = found[s].locked
  BY <1>1, RequestType DEF SessionInv, Inside
<1> DEFINE d == IF found[s] = None THEN NewDevice(s) ELSE Updated(s, device[g])
<1>3. device' = [device EXCEPT ![g] = d]
  BY DEF Commit
<1>4. d # None /\ d.locked = Locked(s)
  <2>1. CASE found[s] = None
    <3>1. d = NewDevice(s) /\ d.locked = req[s].locked
      BY <2>1 DEF NewDevice
    <3>2. location[s] \in Location /\ req[s].location \in Location \union {None}
          /\ req[s].locked \in BOOLEAN
      BY <1>1, <1>2, RequestType DEF SessionInv, Inside, TypeOK
    <3>3. NewDevice(s) \in Device
      BY <3>2 DEF NewDevice, Device
    <3> QED
      BY <2>1, <3>1, <3>3, RegistrationAssumption DEF Locked
  <2>2. CASE found[s] # None
    BY <1>1, <1>2, <2>2, UpdatedDevice, RegistrationAssumption DEF Locked
  <2> QED
    BY <2>1, <2>2
<1>5. Accepted(s)' => ~Locked(s)
  BY <1>1 DEF Accepted, Commit, Go, TypeOK
<1>6. ASSUME NEW t \in Session \ {s}, Accepted(t)
      PROVE  device'[req[t].guid] # None /\ ~device'[req[t].guid].locked
  <2>1. device[req[t].guid] # None /\ ~device[req[t].guid].locked
    BY <1>6 DEF LockedInv
  <2>2. CASE req[t].guid = g
    <3>1. found[s] # None /\ Locked(s) = device[g].locked
      BY <1>2, <2>1, <2>2 DEF Locked
    <3> QED
      BY <1>2, <1>3, <1>4, <2>1, <2>2, <3>1 DEF TypeOK
  <2>3. CASE req[t].guid # g
    BY <1>3, <2>1, <2>3 DEF TypeOK
  <2> QED
    BY <2>2, <2>3
<1> HIDE DEF d
<1>7. Accepted(s)' => device'[g] # None /\ ~device'[g].locked
  BY <1>2, <1>3, <1>4, <1>5 DEF TypeOK
<1> QED
  BY <1>1, <1>6, <1>7, OthersAccepted DEF LockedInv

LEMMA StepLocked == TypeOK /\ DeviceInv /\ LockedInv /\ [Next]_vars => LockedInv'
<1> SUFFICES ASSUME TypeOK, DeviceInv, LockedInv, [Next]_vars PROVE LockedInv'
  OBVIOUS
<1>1. ASSUME NEW s \in Session, Moves(s) PROVE LockedInv'
  <2>1. CASE Commit(s)
    BY <2>1, CommitLocked
  <2>2. CASE ~Commit(s)
    BY <1>1, <2>2, OnlyCommit, MoveOthers, OthersAccepted DEF LockedInv, db
  <2> QED
    BY <2>1, <2>2
<1>2. CASE Rest \/ UNCHANGED vars
  <2>1. UNCHANGED vars
    BY <1>2 DEF Rest
  <2> QED
    BY <2>1 DEF vars, db, rvars, LockedInv, Accepted
<1> QED
  BY <1>1, <1>2 DEF Next, Moves

\* A locked device stays out, whatever it announces and in whatever order the
\* registrations of its connections run: the flag that was read before the
\* transaction is still the flag in the database when it is committed.
THEOREM LockedStaysOutHolds == Spec => []LockedStaysOut
<1>1. Init => LockedInv
  BY DEF Init, LockedInv, Accepted
<1>2. LockedInv => LockedStaysOut
  BY DEF LockedInv, LockedStaysOut, Accepted
<1> QED
  BY <1>1, <1>2, StepLocked, DevicesSound, PTL DEF Spec

----------------------------------------------------------------------------
(* Channels *)

LEMMA KeepChannels ==
  ASSUME TypeOK, DeviceInv, NEW s \in Session, NEW t \in Session \ {s}, Others(s),
         \A g \in Guid : channels[g] \subseteq channels'[g], ChannelInv(t)
  PROVE  ChannelInv(t)'
<1>1. pc[t] # "idle" => req[t].guid \in Guid
  BY RequestType DEF DeviceInv, SessionInv
<1>2. (Accepted(t)' <=> Accepted(t)) /\ (Accepted(t) => pc[t] # "idle")
  BY OthersAccepted DEF Accepted
<1>3. Visible(t)' = Visible(t) /\ \A n \in Nat : Covered(t, n)' <=> Covered(t, n)
  BY DEF Others, Visible, Covered
<1>4. processed[t] \in Nat
  BY DEF TypeOK
<1> QED
  BY <1>1, <1>2, <1>3, <1>4 DEF ChannelInv, Others, Inside, Outside

\* The channels up to one that is none, once they are all covered.
LEMMA AnnouncedCovered ==
  ASSUME TypeOK, NEW s \in Session, req[s] \in Requests, NEW n \in Nat, Covered(s, n),
         n = Len(req[s].channels)
           \/ (n + 1 <= Len(req[s].channels) /\ req[s].channels[n + 1][2] = 0)
  PROVE  Announced(req[s]) \subseteq Visible(s)
<1> DEFINE cs == req[s].channels
<1>1. cs \in Seq(Channel)
  BY RequestType
<1>2. ASSUME NEW i \in DOMAIN cs, \A j \in 1 .. i : cs[j][2] # 0
      PROVE  cs[i] \in Visible(s)
  <2>1. i \in 1 .. Len(cs)
    BY <1>1
  <2>2. i <= n
    BY <1>1, <1>2, <2>1
  <2> QED
    BY <2>1, <2>2 DEF Covered
<1> QED
  BY <1>2 DEF Announced

LEMMA NextChannelKeeps ==
  ASSUME TypeOK, DeviceInv, NEW s \in Session, ChannelInv(s), NextChannel(s)
  PROVE  ChannelInv(s)'
<1> DEFINE k == processed[s] + 1
           cs == req[s].channels
<1>1. /\ pc[s] = "channels" /\ req[s] \in Requests /\ req' = req /\ k \in Nat
      /\ snapshot' = snapshot /\ channels' = channels /\ k <= Len(cs)
      /\ processed' = [processed EXCEPT ![s] = k] /\ processed'[s] = k
  BY DEF NextChannel, AddChannel, Go, DeviceInv, SessionInv, TypeOK, rvars, db
<1>2. Covered(s, k - 1) /\ k - 1 = processed[s]
  BY <1>1 DEF ChannelInv, TypeOK
<1>3. CASE cs[k][2] = 0
  <2>1. pc'[s] = "count" /\ added' = added
    BY <1>3 DEF NextChannel, Go, TypeOK
  <2>2. Announced(req[s]) \subseteq Visible(s)
    BY <1>1, <1>2, <1>3, AnnouncedCovered DEF TypeOK
  <2> QED
    BY <1>1, <2>1, <2>2 DEF ChannelInv, Visible, Accepted, Inside, Outside
<1>4. CASE cs[k][2] # 0
  <2>1. /\ pc' = pc
        /\ \/ cs[k] \in Visible(s) /\ added' = added
           \/ added' = [added EXCEPT ![s] = @ \union {cs[k]}]
    BY <1>4 DEF NextChannel, AddChannel
  <2>2. Visible(s) \subseteq Visible(s)' /\ cs[k] \in Visible(s)'
    BY <1>1, <2>1 DEF Visible, TypeOK
  <2>3. \A j \in 1 .. k : cs[j][2] # 0 /\ cs[j] \in Visible(s)'
    <3> SUFFICES ASSUME NEW j \in 1 .. k PROVE cs[j][2] # 0 /\ cs[j] \in Visible(s)'
      OBVIOUS
    <3>1. CASE j = k
      BY <1>4, <2>2, <3>1
    <3>2. CASE j # k
      <4>1. j \in 1 .. k - 1
        BY <1>1, <3>2
      <4> QED
        BY <1>2, <2>2, <4>1 DEF Covered
    <3> QED
      BY <3>1, <3>2
  <2>4. Covered(s, processed[s])'
    BY <1>1, <2>3 DEF Covered
  <2>5. processed'[s] <= Len(req'[s].channels)
    BY <1>1
  <2> QED
    BY <1>1, <2>1, <2>4, <2>5 DEF ChannelInv, Accepted, Inside, Outside
<1> QED
  BY <1>3, <1>4

LEMMA MoverChannels ==
  ASSUME TypeOK, DeviceInv, NEW s \in Session, ChannelInv(s), Moves(s), ~Commit(s)
  PROVE  ChannelInv(s)'
<1> USE DEF TypeOK
<1>0. UNCHANGED db /\ (Accepted(s)' => Accepted(s) /\ req'[s] = req[s])
  BY OnlyCommit
<1>1. Accepted(s)' => Announced(req'[s]) \subseteq channels'[req'[s].guid]
  BY <1>0 DEF ChannelInv, db
<1>2. ASSUME NEW code, send_result(s, code) PROVE ChannelInv(s)'
  BY <1>1, <1>2 DEF send_result, ChannelInv, Inside, Outside
<1>3. CASE Answer(s) \/ ChannelConflict(s)
  BY <1>2, <1>3 DEF Answer, ChannelConflict, Fails
<1>4. CASE Done(s) \/ Disconnected(s)
  BY <1>1, <1>4 DEF Done, Disconnected, Go, ChannelInv, Inside, Outside, tvars
<1>5. ASSUME NEW r \in Requests, Register(s, r) PROVE ChannelInv(s)'
  BY <1>1, <1>5 DEF Register, Go, ChannelInv, Inside, Outside, tvars
<1>6. CASE Connect(s) \/ device_auth(s) \/ FindDevice(s)
  BY <1>1, <1>2, <1>6 DEF Connect, device_auth, FindDevice, Fails, Go, ChannelInv, Inside,
     Outside, tvars
<1>7. CASE Begin(s)
  BY <1>1, <1>7 DEF Begin, Go, ChannelInv, Inside, Outside, db, rvars
<1>8. CASE add_device(s) \/ Insert(s)
  BY <1>1, <1>2, <1>8 DEF add_device, Insert, Fails, Go, ChannelInv, Inside, Outside, db,
     rvars, tvars
<1>9. CASE CheckDevice(s)
  <2>1. CASE \E code : send_result(s, code)
    BY <1>2, <2>1
  <2>2. CASE ~\E code : send_result(s, code)
    <3>1. Go(s, "check", "channels") /\ UNCHANGED <<db, rvars, found, location, tvars, answer>>
      BY <1>9, <2>2 DEF CheckDevice, Fails
    <3>2. Len(req[s].channels) \in Nat
      BY <3>1, RequestType DEF DeviceInv, SessionInv, Go
    <3> QED
      BY <1>1, <3>1, <3>2 DEF Go, ChannelInv, Covered, Inside, Outside, db, rvars, tvars
  <2> QED
    BY <2>1, <2>2
<1>10. CASE NextChannel(s)
  BY <1>10, NextChannelKeeps
<1>11. CASE ChannelsDone(s)
  <2>1. Announced(req[s]) \subseteq Visible(s)
    BY <1>11, AnnouncedCovered DEF ChannelsDone, Go, ChannelInv, DeviceInv, SessionInv
  <2> QED
    BY <1>1, <1>11, <2>1 DEF ChannelsDone, Go, ChannelInv, Visible, Inside, Outside, db,
       rvars, tvars
<1>12. CASE CountChannels(s) \/ Finish(s)
  BY <1>1, <1>2, <1>12 DEF CountChannels, Finish, Fails, Go, ChannelInv, Visible, Inside,
     Outside, db, rvars, tvars
<1> QED
  BY <1>3, <1>4, <1>5, <1>6, <1>7, <1>8, <1>9, <1>10, <1>11, <1>12 DEF Moves, Step

\* A transaction that is committed: what it saw is in the database.
LEMMA CommitChannels ==
  ASSUME TypeOK, DeviceInv, NEW s \in Session, Commit(s), ChannelInv(s)
  PROVE  /\ \A g \in Guid : channels[g] \subseteq channels'[g]
         /\ Announced(req[s]) \subseteq channels'[req[s].guid]
         /\ ChannelInv(s)'
<1> DEFINE g == req[s].guid
<1>1. req[s] \in Requests /\ g \in Guid /\ pc[s] = "commit" /\ req' = req
  BY RequestType DEF Commit, Go, DeviceInv, SessionInv, rvars
<1>2. channels' = [channels EXCEPT ![g] = @ \union added[s]]
  BY DEF Commit
<1>3. \A h \in Guid : channels[h] \subseteq channels'[h]
  BY <1>1, <1>2 DEF TypeOK
<1>4. Visible(s) \subseteq channels'[g]
  BY <1>1, <1>2 DEF TypeOK, ChannelInv, Visible, Inside
<1>5. Announced(req[s]) \subseteq channels'[g]
  BY <1>1, <1>4 DEF ChannelInv
<1>6. pc'[s] \in {"locked", "success"}
  BY DEF Commit, Go, TypeOK
<1>7. ChannelInv(s)'
  BY <1>1, <1>5, <1>6 DEF ChannelInv, Inside, Outside
<1> QED
  BY <1>3, <1>5, <1>7

LEMMA StepChannels ==
  ASSUME TypeOK, DeviceInv, [Next]_vars, \A s \in Session : ChannelInv(s)
  PROVE  \A s \in Session : ChannelInv(s)'
<1>1. ASSUME NEW s \in Session, Moves(s) PROVE \A t \in Session : ChannelInv(t)'
  <2>1. Others(s)
    BY <1>1, MoveOthers
  <2>2. /\ \A g \in Guid : channels[g] \subseteq channels'[g]
        /\ ChannelInv(s)'
    <3>1. CASE Commit(s)
      BY <3>1, CommitChannels
    <3>2. CASE ~Commit(s)
      BY <1>1, <3>2, OnlyCommit, MoverChannels DEF db
    <3> QED
      BY <3>1, <3>2
  <2>3. ASSUME NEW t \in Session \ {s} PROVE ChannelInv(t)'
    BY <2>1, <2>2, KeepChannels
  <2> QED
    BY <2>2, <2>3
<1>2. CASE Rest \/ UNCHANGED vars
  <2>1. UNCHANGED vars
    BY <1>2 DEF Rest
  <2> QED
    BY <2>1 DEF vars, db, rvars, tvars, ChannelInv, Covered, Visible, Accepted
<1> QED
  BY <1>1, <1>2 DEF Next, Moves

ChannelsInv == \A s \in Session : ChannelInv(s)

LEMMA ChannelsSound == Spec => []ChannelsInv
<1>1. Init => ChannelsInv
  BY DEF Init, ChannelsInv, ChannelInv, Accepted, Inside
<1>2. TypeOK /\ DeviceInv /\ ChannelsInv /\ [Next]_vars => ChannelsInv'
  BY StepChannels DEF ChannelsInv
<1> QED
  BY <1>1, <1>2, TypeCorrect, DevicesSound, PTL DEF Spec

\* A device that is online is in the database with every channel it announced:
\* a channel its transaction saw was in the snapshot, from which nothing is ever
\* removed, or is written by its own commit.
THEOREM RegisteredIsStoredHolds == Spec => []RegisteredIsStored
<1>1. Init => LockedInv
  BY DEF Init, LockedInv, Accepted
<1>2. LockedInv /\ ChannelsInv => RegisteredIsStored
  BY DEF LockedInv, ChannelsInv, ChannelInv, RegisteredIsStored, Accepted
<1> QED
  BY <1>1, <1>2, ChannelsSound, StepLocked, DevicesSound, PTL DEF Spec

LEMMA StepPartial ==
  ASSUME TypeOK, DeviceInv, ChannelsInv, NoPartialDevice, [Next]_vars
  PROVE  NoPartialDevice'
<1>1. ASSUME NEW s \in Session, Commit(s) PROVE NoPartialDevice'
  <2> DEFINE g == req[s].guid
  <2>1. /\ \A h \in Guid : channels[h] \subseteq channels'[h]
        /\ Announced(req[s]) \subseteq channels'[g]
    BY <1>1, CommitChannels DEF ChannelsInv
  <2>2. req[s] \in Requests /\ g \in Guid
    BY <1>1, RequestType DEF Commit, Go, DeviceInv, SessionInv
  <2>3. \A h \in Guid \ {g} : device'[h] = device[h]
    BY <1>1 DEF Commit, TypeOK
  <2>4. ASSUME NEW h \in Guid, device'[h] # None, h # g
        PROVE  \/ Stored[h] # None /\ StoredWith[h] \subseteq channels'[h]
               \/ \E r \in Requests : r.guid = h /\ Announced(r) \subseteq channels'[h]
    <3>1. device[h] # None
      BY <2>3, <2>4
    <3> QED
      BY <2>1, <3>1 DEF NoPartialDevice
  <2>5. \E r \in Requests : r.guid = g /\ Announced(r) \subseteq channels'[g]
    BY <2>1, <2>2
  <2> QED
    BY <2>4, <2>5 DEF NoPartialDevice
<1>2. ASSUME NEW s \in Session, Moves(s) PROVE NoPartialDevice'
  <2>1. CASE ~Commit(s)
    BY <1>2, <2>1, OnlyCommit DEF db, NoPartialDevice
  <2> QED
    BY <1>1, <2>1
<1>3. CASE Rest \/ UNCHANGED vars
  BY <1>3 DEF Rest, vars, db, NoPartialDevice
<1> QED
  BY <1>2, <1>3 DEF Next, Moves

\* A device is never in the database with a part of its channels.
THEOREM NoPartialDeviceHolds == Spec => []NoPartialDevice
<1>1. Init => NoPartialDevice
  BY DEF Init, NoPartialDevice
<1>2. TypeOK /\ DeviceInv /\ ChannelsInv /\ NoPartialDevice /\ [Next]_vars => NoPartialDevice'
  BY StepPartial
<1> QED
  BY <1>1, <1>2, ChannelsSound, DevicesSound, TypeCorrect, PTL DEF Spec

----------------------------------------------------------------------------
(* The limit of devices *)

\* A session is cleared to add a device by the count its snapshot shows.
LEMMA MoverCleared ==
  ASSUME TypeOK, NEW s \in Session, Moves(s), ~Commit(s), s \in Cleared'
  PROVE  s \in Cleared \/ Cardinality(Devices) < Limit
<1> USE DEF TypeOK, Cleared, Inside
<1>1. ASSUME NEW code, send_result(s, code) PROVE FALSE
  BY <1>1 DEF send_result
<1>2. CASE Answer(s) \/ ChannelConflict(s)
  BY <1>1, <1>2 DEF Answer, ChannelConflict, Fails
<1>3. CASE Done(s) \/ Disconnected(s) \/ \E r \in Requests : Register(s, r)
  BY <1>3 DEF Done, Disconnected, Register, Go
<1>4. CASE Connect(s) \/ device_auth(s) \/ FindDevice(s)
  BY <1>1, <1>4 DEF Connect, device_auth, FindDevice, Fails, Go
<1>5. CASE Begin(s)
  BY <1>5 DEF Begin, Go, Devices
<1>6. CASE add_device(s)
  <2>1. seen[s] < Limit /\ pc[s] = "limit" /\ UNCHANGED found
    BY <1>1, <1>6, RegistrationAssumption DEF add_device, Fails, Go, LimitLeft
  <2> QED
    BY <2>1
<1>7. CASE Insert(s) \/ CheckDevice(s)
  BY <1>1, <1>7 DEF Insert, CheckDevice, Fails, Go
<1>8. CASE NextChannel(s) \/ ChannelsDone(s)
  BY <1>8 DEF NextChannel, AddChannel, ChannelsDone, Go
<1>9. CASE CountChannels(s) \/ Finish(s)
  BY <1>1, <1>9 DEF CountChannels, Finish, Fails, Go
<1> QED
  BY <1>2, <1>3, <1>4, <1>5, <1>6, <1>7, <1>8, <1>9 DEF Moves, Step

LEMMA OthersCleared ==
  ASSUME NEW s \in Session, Others(s)
  PROVE  Cleared' \ {s} = Cleared \ {s}
BY DEF Others, Cleared

LEMMA CommitLimit ==
  ASSUME TypeOK, DeviceInv, NEW s \in Session, Commit(s), Others(s), LimitInv,
         IsFiniteSet(Devices'), IsFiniteSet(Cleared'), Cardinality(Devices') \in Nat,
         Cardinality(Cleared') \in Nat
  PROVE  LimitInv'
<1> DEFINE g == req[s].guid
<1>1. /\ pc[s] = "commit" /\ pc'[s] \in {"locked", "success"} /\ g \in Guid
      /\ Devices' \subseteq Devices \union {g}
  BY RequestType DEF Commit, Go, TypeOK, DeviceInv, SessionInv, Devices
<1>2. s \notin Cleared' /\ Cleared' = Cleared \ {s}
  BY <1>1, OthersCleared DEF Cleared, Inside
<1>3. CASE found[s] = None
  <2>1. s \in Cleared
    BY <1>1, <1>3 DEF Cleared, Inside
  <2>2. Cardinality(Cleared') = Cardinality(Cleared) - 1
    BY <1>2, <2>1, DevicesFinite, FS_RemoveElement
  <2>3. /\ IsFiniteSet(Devices \union {g})
        /\ Cardinality(Devices \union {g}) <= Cardinality(Devices) + 1
        /\ Cardinality(Devices \union {g}) \in Nat
    <3> HIDE DEF g
    <3>1. /\ IsFiniteSet(Devices \union {g})
          /\ Cardinality(Devices \union {g})
               = IF g \in Devices THEN Cardinality(Devices) ELSE Cardinality(Devices) + 1
      BY DevicesFinite, FS_AddElement
    <3> QED
      BY <3>1, DevicesFinite
  <2>4. Cardinality(Devices') <= Cardinality(Devices) + 1
    BY <1>1, <2>3, DevicesFinite, FS_Subset
  <2> QED
    BY <2>2, <2>4, DevicesFinite, RegistrationAssumption DEF LimitInv
<1>4. CASE found[s] # None
  <2>1. Devices' \subseteq Devices
    BY <1>1, <1>4 DEF DeviceInv, SessionInv, Devices
  <2>2. /\ Cardinality(Devices') <= Cardinality(Devices)
        /\ Cardinality(Cleared') <= Cardinality(Cleared)
    BY <1>2, <2>1, DevicesFinite, FS_Subset
  <2> QED
    BY <2>2, DevicesFinite, RegistrationAssumption DEF LimitInv
<1> QED
  BY <1>3, <1>4

LEMMA StepLimit ==
  ASSUME TypeOK, TypeOK', DeviceInv, LimitInv, [Next]_vars
  PROVE  LimitInv'
<1>0. /\ IsFiniteSet(Devices') /\ Cardinality(Devices') \in Nat
      /\ IsFiniteSet(Cleared') /\ Cardinality(Cleared') \in Nat
      /\ Cardinality(Cleared') <= Cardinality(Session) /\ Cardinality(Session) \in Nat
  <2>1. Devices' \subseteq Guid /\ Cleared' \subseteq Session
    BY DEF Devices, Cleared
  <2> QED
    BY <2>1, RegistrationAssumption, FS_Subset, FS_CardinalityType
<1>1. ASSUME NEW s \in Session, Moves(s) PROVE LimitInv'
  <2>1. Others(s) /\ Cleared' \ {s} = Cleared \ {s}
    BY <1>1, MoveOthers, OthersCleared
  <2>2. CASE Commit(s)
    BY <1>0, <2>1, <2>2, CommitLimit
  <2>3. CASE ~Commit(s)
    <3>1. Devices' = Devices
      BY <1>1, <2>3, OnlyCommit DEF Devices, db
    <3>2. CASE Cardinality(Devices) < Limit
      BY <1>0, <3>1, <3>2, DevicesFinite, RegistrationAssumption DEF LimitInv
    <3>3. CASE ~(Cardinality(Devices) < Limit)
      <4>1. Cleared' \subseteq Cleared
        BY <1>1, <2>1, <2>3, <3>3, MoverCleared
      <4>2. Cardinality(Cleared') <= Cardinality(Cleared)
        BY <4>1, DevicesFinite, FS_Subset
      <4> QED
        BY <1>0, <3>1, <4>2, DevicesFinite, RegistrationAssumption DEF LimitInv
    <3> QED
      BY <3>2, <3>3
  <2> QED
    BY <2>2, <2>3
<1>2. CASE Rest \/ UNCHANGED vars
  <2>1. Devices' = Devices /\ Cleared' = Cleared
    <3>1. UNCHANGED vars
      BY <1>2 DEF Rest
    <3> QED
      BY <3>1 DEF vars, db, tvars, Devices, Cleared
  <2> QED
    BY <2>1 DEF LimitInv
<1> QED
  BY <1>1, <1>2 DEF Next, Moves

\* The limit is read before the device is inserted, so it can be exceeded, but
\* by less than there are registrations running: every device above the limit
\* was cleared by a session that had seen fewer.
THEOREM LimitBoundHolds == Spec => []LimitBound
<1>1. Init => LimitInv
  <2> SUFFICES ASSUME Init PROVE LimitInv
    OBVIOUS
  <2>1. Cleared = {} /\ Devices = {g \in Guid : Stored[g] # None}
    BY DEF Init, Cleared, Inside, Devices
  <2>2. Cardinality(Cleared) = 0
    BY <2>1, FS_EmptySet
  <2>3. Cardinality(Devices) \in Nat
    BY InitDevice, DevicesFinite
  <2> QED
    BY <2>1, <2>2, <2>3, RegistrationAssumption DEF LimitInv
<1>2. TypeOK /\ TypeOK' /\ DeviceInv /\ LimitInv /\ [Next]_vars => LimitInv'
  BY StepLimit
<1>3. TypeOK /\ LimitInv => LimitBound
  <2> SUFFICES ASSUME TypeOK, LimitInv PROVE LimitBound
    OBVIOUS
  <2> QED
    BY DevicesFinite, RegistrationAssumption DEF LimitInv, LimitBound, Devices
<1> QED
  BY <1>1, <1>2, <1>3, DevicesSound, PTL DEF Spec
=============================================================================
