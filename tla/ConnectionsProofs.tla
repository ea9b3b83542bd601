-------------------------- MODULE ConnectionsProofs --------------------------
(***************************************************************************)
(* Proofs about Connections, for any number of accept loops, connections,  *)
(* devices and threads that use the list, and for any limit.               *)
(***************************************************************************)
EXTENDS Connections, FiniteSetTheorems, TLAPS

----------------------------------------------------------------------------
(* Type correctness *)

LEMMA InitType == Init => TypeOK
<1> SUFFICES ASSUME Init PROVE TypeOK
  OBVIOUS
<1>1. object \in [Conn -> BOOLEAN] /\ valid \in [Conn -> BOOLEAN]
      /\ terminated \in [Conn -> BOOLEAN]
  BY Zenon DEF Init
<1>2. lpc \in [Loop -> LoopPc] /\ cpc \in [Conn -> ConnPc]
  BY DEF Init, LoopPc, ConnPc
<1>3. guid \in [Conn -> Guid \union {None}] /\ list \in [Holder -> SUBSET Conn]
      /\ hold \in [Holder -> Conn \union {None}]
  BY DEF Init
<1> QED
  BY <1>1, <1>2, <1>3 DEF Init, TypeOK

LEMMA AcceptType ==
  ASSUME TypeOK, NEW l \in Loop,
         (\E ip \in Origin : Accept(l, ip)) \/ \E c \in Conn : NewConnection(l, c)
  PROVE  TypeOK'
<1>1. ASSUME NEW ip \in Origin, Accept(l, ip) PROVE TypeOK'
  <2>1. ip \in LoopPc
    BY ConnectionsAssumption DEF LoopPc
  <2> QED
    BY <1>1, <2>1 DEF TypeOK, Accept, ovars, hvars, rvars
<1>2. ASSUME NEW c \in Conn, NewConnection(l, c) PROVE TypeOK'
  BY <1>2 DEF TypeOK, NewConnection, Move, ovars, hvars, rvars, LoopPc, ConnPc
<1> QED
  BY <1>1, <1>2

LEMMA LimitType ==
  ASSUME TypeOK, log_limits \/ AlertAges \/ ExceededAges
  PROVE  TypeOK'
BY DEF TypeOK, log_limits, AlertAges, ExceededAges, ovars, hvars, rvars

LEMMA ThreadType ==
  ASSUME TypeOK, NEW c \in Conn,
         LoopExit(c) \/ Proceed(c) \/ Peer(c) \/ StopThread(c) \/ ValidityEnds(c)
  PROVE  TypeOK'
<1> USE DEF TypeOK, Move, ovars, hvars, rvars, ConnPc
<1>1. CASE LoopEnds(c) \/ RegisterTimeout(c)
  <2>1. CASE LoopEnds(c)
    BY <2>1 DEF LoopEnds
  <2>2. CASE RegisterTimeout(c)
    BY <2>2 DEF RegisterTimeout
  <2> QED
    BY <1>1, <2>1, <2>2
<1>2. CASE SslAccepted(c) \/ SslFailed(c) \/ AuthFails(c)
  BY <1>2 DEF SslAccepted, SslFailed, AuthFails
<1>3. ASSUME NEW g \in Guid, AuthSucceeds(c, g) PROVE TypeOK'
  BY <1>3 DEF AuthSucceeds
<1>4. CASE AddObject(c)
  BY <1>4 DEF AddObject
<1>5. CASE RegistrationDone(c) \/ Close(c) \/ SleepEnds(c)
  BY <1>5 DEF RegistrationDone, Close, SleepEnds
<1>6. CASE Release(c) \/ Delete(c)
  BY <1>6 DEF Release, Delete
<1>7. CASE IterateFails(c) \/ ActivityTimeout(c) \/ UnhandledCalls(c)
  BY <1>7 DEF IterateFails, ActivityTimeout, UnhandledCalls
<1>8. CASE Register(c)
  BY <1>8 DEF Register
<1>9. CASE StopThread(c) \/ ValidityEnds(c)
  BY <1>9 DEF StopThread, ValidityEnds
<1> QED
  BY <1>1, <1>2, <1>3, <1>4, <1>5, <1>6, <1>7, <1>8, <1>9 DEF LoopExit, Proceed, Peer

LEMMA HolderType ==
  ASSUME TypeOK, NEW h \in Holder, GetAll(h) \/ Lookup(h)
  PROVE  TypeOK'
<1> USE DEF TypeOK, ovars, rvars
<1>1. CASE GetAll(h)
  BY <1>1 DEF GetAll
<1>2. ASSUME NEW c \in Conn, LockNext(h, c) PROVE TypeOK'
  BY <1>2 DEF LockNext
<1>3. CASE TerminateHeld(h)
  BY <1>3 DEF TerminateHeld
<1>4. CASE ReleaseHeld(h)
  BY <1>4 DEF ReleaseHeld
<1> QED
  BY <1>1, <1>2, <1>3, <1>4 DEF Lookup

LEMMA StutterType == ASSUME TypeOK, UNCHANGED vars PROVE TypeOK'
BY DEF TypeOK, vars, ovars, hvars, rvars

LEMMA StepType == TypeOK /\ [Next]_vars => TypeOK'
BY AcceptType, LimitType, ThreadType, HolderType, StutterType DEF Next, Idle

\* The variables of accept loops, connections, the list and its users always
\* have their types, and only existing connections are pending.
THEOREM TypeCorrect == Spec => []TypeOK
BY InitType, StepType, PTL DEF Spec

----------------------------------------------------------------------------
(* Who is alive *)

\* What relates the state of a connection's thread to its object: the parts
\* of it that HeldIsAlive, OneOnline and ListedOrTerminated need.
HeldHasOwner == \A h \in Holder :
  hold[h] # None => object[hold[h]] \/ cpc[hold[h]] = "expire"
OwnerRuns == \A c \in Conn :
  object[c] => cpc[c] \notin {"none", "ssl", "expire", "delete", "gone"}
ListedIsRegistered == \A c \in objects : Registered(c) /\ cpc[c] # "add"
AuthRegisters == \A c \in Conn :
  /\ cpc[c] \in {"none", "ssl", "auth"} => ~Registered(c)
  /\ cpc[c] = "add" => Registered(c)
RegisteredOwns == \A c \in Conn :
  /\ cpc[c] \in {"auth", "add"} => object[c]
  /\ Registered(c) /\ cpc[c] \in {"done", "loop", "close", "sleep", "release"} => object[c]

LifeInv ==
  /\ TypeOK
  /\ HeldHasOwner
  /\ OwnerRuns
  /\ ListedIsRegistered
  /\ AuthRegisters
  /\ RegisteredOwns

LEMMA InitLife == Init => LifeInv
<1> SUFFICES ASSUME Init PROVE LifeInv
  OBVIOUS
<1>1. TypeOK
  BY InitType
<1> QED
  BY <1>1 DEF Init, LifeInv, HeldHasOwner, OwnerRuns, ListedIsRegistered, AuthRegisters,
     RegisteredOwns, Registered

\* A holder changes neither the objects nor the threads, and gets an object
\* only while somebody has it.
LEMMA HolderLife ==
  ASSUME LifeInv, NEW h \in Holder, GetAll(h) \/ Lookup(h)
  PROVE  LifeInv'
<1> USE DEF LifeInv
<1>1. TypeOK'
  BY HolderType
<1>2. UNCHANGED <<cpc, object, guid, objects>>
  BY DEF Lookup, GetAll, LockNext, TerminateHeld, ReleaseHeld, ovars
<1>3. OwnerRuns' /\ ListedIsRegistered' /\ AuthRegisters' /\ RegisteredOwns'
  BY <1>2 DEF OwnerRuns, ListedIsRegistered, AuthRegisters, RegisteredOwns, Registered
<1>4. HeldHasOwner'
  <2>1. CASE GetAll(h)
    BY <1>2, <2>1 DEF GetAll, HeldHasOwner
  <2>2. ASSUME NEW c \in Conn, LockNext(h, c) PROVE HeldHasOwner'
    <3>1. CASE Expired(c)
      BY <1>2, <2>2, <3>1 DEF LockNext, HeldHasOwner
    <3>2. CASE ~Expired(c)
      <4>1. object[c] \/ cpc[c] = "expire"
        BY <3>2, ConnectionsAssumption DEF Expired, Unused, HeldHasOwner
      <4> QED
        BY <1>2, <2>2, <3>2, <4>1 DEF LockNext, HeldHasOwner, TypeOK
    <3> QED
      BY <3>1, <3>2
  <2>3. CASE TerminateHeld(h) \/ ReleaseHeld(h)
    BY <1>2, <2>3 DEF TerminateHeld, ReleaseHeld, HeldHasOwner, TypeOK
  <2> QED
    BY <2>1, <2>2, <2>3 DEF Lookup
<1> QED
  BY <1>1, <1>3, <1>4

\* Steps that leave objects, threads and holders alone.
LEMMA StutterLife ==
  ASSUME LifeInv, TypeOK', UNCHANGED <<cpc, object, guid, objects, hold>>
  PROVE  LifeInv'
BY DEF LifeInv, HeldHasOwner, OwnerRuns, ListedIsRegistered, AuthRegisters,
   RegisteredOwns, Registered

\* The steps of a connection's thread, and the one that creates it.
LEMMA ThreadLife ==
  ASSUME LifeInv, TypeOK', NEW c \in Conn,
         \/ \E l \in Loop : NewConnection(l, c)
         \/ LoopExit(c) \/ Proceed(c) \/ Peer(c) \/ StopThread(c) \/ ValidityEnds(c)
  PROVE  LifeInv'
<1> USE DEF LifeInv, TypeOK, Move, ovars, hvars, HeldHasOwner, OwnerRuns,
            ListedIsRegistered, AuthRegisters, RegisteredOwns, Registered
<1>1. CASE \E l \in Loop : NewConnection(l, c)
  BY <1>1 DEF NewConnection
<1>2. CASE LoopEnds(c) \/ RegisterTimeout(c) \/ IterateFails(c) \/ ActivityTimeout(c)
  BY <1>2 DEF LoopEnds, RegisterTimeout, IterateFails, ActivityTimeout
<1>3. CASE SslAccepted(c) \/ SslFailed(c)
  BY <1>3 DEF SslAccepted, SslFailed
<1>4. CASE AuthFails(c)
  BY <1>4 DEF AuthFails
<1>5. ASSUME NEW g \in Guid, AuthSucceeds(c, g) PROVE LifeInv'
  BY <1>5, ConnectionsAssumption DEF AuthSucceeds
<1>6. CASE AddObject(c)
  <2>1. objects' \subseteq objects \union {c}
    BY <1>6 DEF AddObject
  <2>2. cpc' = [cpc EXCEPT ![c] = "done"] /\ cpc[c] = "add"
        /\ UNCHANGED <<object, guid, hold>>
    BY <1>6 DEF AddObject
  <2>3. guid[c] # None
    BY <2>2
  <2> QED
    BY <2>1, <2>2, <2>3
<1>7. CASE RegistrationDone(c) \/ SleepEnds(c)
  BY <1>7 DEF RegistrationDone, SleepEnds
<1>8. CASE Close(c)
  BY <1>8 DEF Close
<1>9. CASE Release(c)
  BY <1>9 DEF Release
<1>10. CASE Delete(c)
  BY <1>10 DEF Delete, Expired, Unused
<1>11. CASE Register(c)
  BY <1>11 DEF Register
<1>12. CASE UnhandledCalls(c) \/ StopThread(c) \/ ValidityEnds(c)
  BY <1>12 DEF UnhandledCalls, StopThread, ValidityEnds
<1> QED
  BY <1>1, <1>2, <1>3, <1>4, <1>5, <1>6, <1>7, <1>8, <1>9, <1>10, <1>11, <1>12
     DEF LoopExit, Proceed, Peer

LEMMA StepLife == LifeInv /\ [Next]_vars => LifeInv'
<1> SUFFICES ASSUME LifeInv, [Next]_vars PROVE LifeInv'
  OBVIOUS
<1>1. TypeOK'
  BY StepType DEF LifeInv
<1>2. ASSUME NEW l \in Loop, NEW ip \in Origin, Accept(l, ip) PROVE LifeInv'
  BY <1>1, <1>2, StutterLife DEF Accept, ovars, hvars
<1>3. CASE log_limits \/ AlertAges \/ ExceededAges
  BY <1>1, <1>3, StutterLife DEF log_limits, AlertAges, ExceededAges, ovars, hvars
<1>4. CASE Idle \/ UNCHANGED vars
  BY <1>1, <1>4, StutterLife DEF Idle, vars, ovars, hvars
<1> QED
  BY <1>1, <1>2, <1>3, <1>4, ThreadLife, HolderLife DEF Next

\* A connection has its object exactly while its thread can use it, a thread that
\* found the object is not the last to know, and only registered objects are
\* listed.
THEOREM LifeCorrect == Spec => []LifeInv
BY InitLife, StepLife, PTL DEF Spec

\* execute() gives up its shared_ptr and then waits for the others to go before
\* the connection is deleted; the object that a thread got from the list
\* therefore has its connection and its sthread for as long as it is used.
THEOREM HeldIsAliveHolds == Spec => []HeldIsAlive
<1>1. LifeInv => HeldIsAlive
  BY DEF LifeInv, TypeOK, HeldHasOwner, OwnerRuns, HeldIsAlive
<1> QED
  BY <1>1, LifeCorrect, PTL

----------------------------------------------------------------------------
(* Who is online *)

\* The two invariants need each other: add() terminates one previous object,
\* and there never is a second one.
OnlineInv == OneOnline /\ ListedOrTerminated

LEMMA InitOnline == Init => OnlineInv
BY DEF Init, OnlineInv, OneOnline, ListedOrTerminated, Registered

\* No expired object of the list comes to life again, so steps that change
\* neither the list nor guids, and revoke no termination, keep OnlineInv.
LEMMA KeepOnline ==
  ASSUME LifeInv, OnlineInv, UNCHANGED <<guid, objects>>,
         \A c \in Conn : Registered(c) /\ Expired(c) => Expired(c)',
         \A c \in Conn : terminated[c] => terminated'[c],
         \A c \in Conn : cpc[c] = "add" => cpc'[c] = "add"
  PROVE  OnlineInv'
<1>1. OneOnline'
  BY DEF LifeInv, TypeOK, ListedIsRegistered, OnlineInv, OneOnline
<1>2. ListedOrTerminated'
  BY DEF OnlineInv, ListedOrTerminated, Registered
<1> QED
  BY <1>1, <1>2 DEF OnlineInv

LEMMA StepOnline == LifeInv /\ OnlineInv /\ [Next]_vars => OnlineInv'
<1> SUFFICES ASSUME LifeInv, OnlineInv, [Next]_vars PROVE OnlineInv'
  OBVIOUS
<1> USE DEF Move, ovars, hvars
<1>0. TypeOK
  BY DEF LifeInv
<1>1. ASSUME NEW c \in Conn, AddObject(c) PROVE OnlineInv'
  <2>1. /\ cpc[c] = "add" /\ cpc' = [cpc EXCEPT ![c] = "done"]
        /\ objects' = {p \in objects \ Previous(c) : ~Expired(p)} \union {c}
        /\ UNCHANGED <<object, guid, hold>>
    BY <1>1 DEF AddObject
  <2>2. \A p \in Conn : Expired(p)' = Expired(p) /\ Registered(p)' = Registered(p)
    BY <2>1 DEF Expired, Unused, Registered
  <2>3. OneOnline'
    BY <1>0, <2>1, <2>2 DEF OneOnline, OnlineInv, Previous, TypeOK
  <2>4. \A p \in Previous(c) : terminated'[p]
    BY <1>0, <1>1 DEF AddObject, Previous, OnlineInv, OneOnline, TypeOK
  <2>5. \A p \in Conn : terminated[p] => terminated'[p]
    BY <1>0, <1>1 DEF AddObject, Previous, TypeOK
  <2>6. ListedOrTerminated'
    BY <1>0, <2>1, <2>2, <2>4, <2>5 DEF OnlineInv, ListedOrTerminated, TypeOK
  <2> QED
    BY <2>3, <2>6 DEF OnlineInv
<1>2. ASSUME NEW c \in Conn, NEW g \in Guid, AuthSucceeds(c, g) PROVE OnlineInv'
  <2>1. c \notin objects
    BY <1>2 DEF AuthSucceeds, LifeInv, AuthRegisters, ListedIsRegistered
  <2>2. \A p \in Conn : Expired(p)' = Expired(p)
    BY <1>2 DEF AuthSucceeds, Expired, Unused
  <2>3. OneOnline'
    BY <1>0, <1>2, <2>1, <2>2 DEF AuthSucceeds, OnlineInv, OneOnline, TypeOK
  <2>4. ListedOrTerminated'
    BY <1>0, <1>2, <2>2 DEF AuthSucceeds, OnlineInv, ListedOrTerminated, Registered, TypeOK
  <2> QED
    BY <2>3, <2>4 DEF OnlineInv
<1>3. ASSUME NEW c \in Conn, Register(c) PROVE OnlineInv'
  <2>1. \A p \in Conn : Registered(p) /\ Expired(p) => Expired(p)'
    BY <1>0, <1>3 DEF Register, LifeInv, RegisteredOwns, Expired, Unused, TypeOK
  <2> QED
    BY <1>0, <1>3, <2>1, KeepOnline DEF Register, TypeOK
<1>4. ASSUME NEW h \in Holder, NEW c \in Conn, LockNext(h, c) PROVE OnlineInv'
  <2>1. \A p \in Conn : Expired(p) => Expired(p)'
    BY <1>0, <1>4 DEF LockNext, Expired, Unused, TypeOK
  <2> QED
    BY <1>0, <1>4, <2>1, KeepOnline DEF LockNext
<1>5. ASSUME NEW h \in Holder, GetAll(h) \/ TerminateHeld(h) \/ ReleaseHeld(h)
      PROVE  OnlineInv'
  <2>1. \A p \in Conn : Expired(p) => Expired(p)'
    BY <1>0, <1>5, ConnectionsAssumption DEF GetAll, TerminateHeld, ReleaseHeld, Expired, Unused, TypeOK
  <2> QED
    BY <1>0, <1>5, <2>1, KeepOnline DEF GetAll, TerminateHeld, ReleaseHeld, TypeOK
<1>6. ASSUME NEW c \in Conn, Release(c) PROVE OnlineInv'
  <2>1. \A p \in Conn : Expired(p) => Expired(p)'
    BY <1>0, <1>6 DEF Release, Expired, Unused, TypeOK
  <2> QED
    BY <1>0, <1>6, <2>1, KeepOnline DEF Release, TypeOK
<1>7. ASSUME UNCHANGED <<object, guid, objects, hold>>,
             \A c \in Conn : terminated[c] => terminated'[c],
             \A c \in Conn : cpc[c] = "add" => cpc'[c] = "add"
      PROVE  OnlineInv'
  BY <1>7, KeepOnline DEF Expired, Unused
<1>8. ASSUME NEW c \in Conn,
             \/ LoopExit(c) \/ SslAccepted(c) \/ SslFailed(c) \/ AuthFails(c)
             \/ RegistrationDone(c) \/ Close(c) \/ SleepEnds(c) \/ Delete(c)
      PROVE  OnlineInv'
  BY <1>0, <1>7, <1>8 DEF LoopExit, LoopEnds, RegisterTimeout, SslAccepted, SslFailed,
     AuthFails, RegistrationDone, Close, SleepEnds, Delete, TypeOK
<1>9. ASSUME NEW c \in Conn,
             \/ IterateFails(c) \/ ActivityTimeout(c) \/ UnhandledCalls(c)
             \/ StopThread(c) \/ ValidityEnds(c) \/ \E l \in Loop : NewConnection(l, c)
      PROVE  OnlineInv'
  BY <1>0, <1>7, <1>9 DEF IterateFails, ActivityTimeout, UnhandledCalls, StopThread,
     ValidityEnds, NewConnection, TypeOK
<1>10. ASSUME \/ log_limits \/ AlertAges \/ ExceededAges \/ Idle \/ UNCHANGED vars
              \/ \E l \in Loop, ip \in Origin : Accept(l, ip)
       PROVE  OnlineInv'
  BY <1>7, <1>10 DEF log_limits, AlertAges, ExceededAges, Idle, vars, Accept
<1> QED
  BY <1>1, <1>2, <1>3, <1>4, <1>5, <1>6, <1>8, <1>9, <1>10
     DEF Next, Proceed, Peer, Lookup

LEMMA OnlineCorrect == Spec => []OnlineInv
BY InitOnline, StepOnline, LifeCorrect, PTL DEF Spec

\* add() leaves at most one living object of a guid in the list, however
\* registrations, releases and look-ups interleave.
THEOREM OneOnlineHolds == Spec => []OneOnline
BY OnlineCorrect, PTL DEF OnlineInv

\* add() forgets no living object: what it removes from the list it
\* terminates, although it terminates only one previous object.
THEOREM ListedOrTerminatedHolds == Spec => []ListedOrTerminated
BY OnlineCorrect, PTL DEF OnlineInv

----------------------------------------------------------------------------
(* How many registrations are pending *)

\* The connections that count against the limit.
Counted == pending \cap foreign
\* The loops that have allowed a foreign connection and not counted it yet.
Allowing == {l \in Loop : lpc[l] = "foreign"}

\* Each loop can be one connection ahead of the count, but the one that was
\* allowed first was allowed below the limit.
PendingInv ==
  /\ \A c \in foreign : cpc[c] # "none"
  /\ Limit > 0 => Cardinality(Counted) + Cardinality(Allowing) < Limit + Cardinality(Loop)

LEMMA LimitIsNat ==
  ASSUME TypeOK PROVE Limit \in Nat
<1>1. setting \in [limit : Nat, peer : [Conn -> {"none", "silent", "registers"}]]
  BY ConnectionsAssumption DEF TypeOK
<1> QED
  BY <1>1 DEF Limit

LEMMA CountedFinite ==
  ASSUME TypeOK
  PROVE  /\ IsFiniteSet(pending) /\ IsFiniteSet(Counted) /\ IsFiniteSet(Allowing)
         /\ Cardinality(pending) \in Nat /\ Cardinality(Counted) \in Nat
         /\ Cardinality(Allowing) \in Nat /\ Cardinality(Loop) \in Nat
         /\ Cardinality(Counted) <= Cardinality(pending)
         /\ Cardinality(Allowing) <= Cardinality(Loop)
<1>1. pending \subseteq Conn /\ Counted \subseteq pending /\ Allowing \subseteq Loop
  BY DEF TypeOK, Counted, Allowing
<1>2. IsFiniteSet(pending)
  BY <1>1, ConnectionsAssumption, FS_Subset
<1> QED
  BY <1>1, <1>2, ConnectionsAssumption, FS_Subset, FS_CardinalityType

LEMMA InitPending == Init => PendingInv
<1> SUFFICES ASSUME Init PROVE PendingInv
  OBVIOUS
<1>1. Counted = {} /\ Allowing = {}
  BY DEF Init, Counted, Allowing
<1>2. Cardinality(Loop) \in Nat
  BY ConnectionsAssumption, FS_CardinalityType
<1>3. Limit \in Nat
  BY ConnectionsAssumption DEF Init, Limit
<1>4. foreign = {} /\ Cardinality(Counted) = 0 /\ Cardinality(Allowing) = 0
  BY <1>1, FS_EmptySet DEF Init
<1> QED
  BY <1>2, <1>3, <1>4 DEF PendingInv

\* Steps that leave the loops alone and add nothing to pending.
LEMMA KeepPending ==
  ASSUME TypeOK, TypeOK', PendingInv, UNCHANGED <<setting, lpc, foreign>>,
         pending' \subseteq pending,
         \A c \in Conn : cpc'[c] = "none" => cpc[c] = "none"
  PROVE  PendingInv'
<1>1. Allowing' = Allowing /\ Counted' \subseteq Counted
  BY DEF Allowing, Counted
<1>2. Cardinality(Counted') <= Cardinality(Counted) /\ Cardinality(Counted') \in Nat
  BY <1>1, CountedFinite, FS_Subset, FS_CardinalityType
<1>3. Limit' = Limit /\ Limit \in Nat
  BY LimitIsNat DEF Limit
<1> QED
  BY <1>1, <1>2, <1>3, CountedFinite DEF PendingInv, TypeOK

LEMMA AcceptPending ==
  ASSUME TypeOK, TypeOK', PendingInv, NEW l \in Loop, NEW ip \in Origin, Accept(l, ip)
  PROVE  PendingInv'
<1>1. UNCHANGED <<cpc, foreign, pending, Limit>>
  BY DEF Accept, Limit
<1>2. Counted' = Counted
  BY <1>1 DEF Counted
<1>3. CASE ip = "local"
  <2>1. Allowing' = Allowing
    BY <1>3 DEF Accept, Allowing, TypeOK
  <2> QED
    BY <1>1, <1>2, <2>1 DEF PendingInv
<1>4. CASE ip = "foreign"
  <2>1. Limit > 0 => ~(Cardinality(pending) >= Limit)
    BY <1>4 DEF Accept, is_connection_allowed, LimitReached
  <2>2. Cardinality(Allowing') <= Cardinality(Loop) /\ Cardinality(Allowing') \in Nat
    <3>1. Allowing' \subseteq Loop
      BY DEF Allowing
    <3> QED
      BY <3>1, ConnectionsAssumption, FS_Subset, FS_CardinalityType
  <2>3. Limit \in Nat
    BY LimitIsNat
  <2> QED
    BY <1>1, <1>2, <2>1, <2>2, <2>3, CountedFinite DEF PendingInv
<1> QED
  BY <1>3, <1>4, ConnectionsAssumption

LEMMA NewPending ==
  ASSUME TypeOK, TypeOK', PendingInv, NEW l \in Loop, NEW c \in Conn, NewConnection(l, c)
  PROVE  PendingInv'
<1> USE DEF NewConnection, Move, TypeOK
<1>0. Limit' = Limit /\ Limit \in Nat
  BY LimitIsNat DEF Limit
<1>1. c \notin foreign
  BY DEF PendingInv
<1>2. \A d \in foreign' : cpc'[d] # "none"
  BY DEF PendingInv
<1>3. CASE lpc[l] = "local"
  <2>1. Counted' = Counted /\ Allowing' = Allowing
    BY <1>1, <1>3 DEF Counted, Allowing
  <2> QED
    BY <1>0, <1>2, <2>1 DEF PendingInv
<1>4. CASE lpc[l] = "foreign"
  <2>1. Counted' = Counted \union {c} /\ c \notin Counted
    BY <1>1, <1>4 DEF Counted
  <2>2. Allowing' = Allowing \ {l} /\ l \in Allowing
    BY <1>4 DEF Allowing
  <2>3. Cardinality(Counted') = Cardinality(Counted) + 1
    BY <2>1, CountedFinite, FS_AddElement
  <2>4. Cardinality(Allowing') = Cardinality(Allowing) - 1
    BY <2>2, CountedFinite, FS_RemoveElement
  <2> QED
    BY <1>0, <1>2, <2>3, <2>4, CountedFinite DEF PendingInv
<1> QED
  BY <1>3, <1>4

LEMMA StepPending == TypeOK /\ PendingInv /\ [Next]_vars => PendingInv'
<1> SUFFICES ASSUME TypeOK, PendingInv, [Next]_vars PROVE PendingInv'
  OBVIOUS
<1>0. TypeOK'
  BY StepType
<1>1. ASSUME UNCHANGED <<setting, lpc, foreign>>, pending' \subseteq pending,
             \A c \in Conn : cpc'[c] = "none" => cpc[c] = "none"
      PROVE  PendingInv'
  BY <1>0, <1>1, KeepPending
<1>2. ASSUME NEW c \in Conn, LoopExit(c) \/ Peer(c) \/ StopThread(c) \/ ValidityEnds(c)
      PROVE  PendingInv'
  BY <1>1, <1>2 DEF LoopExit, LoopEnds, RegisterTimeout, Peer, IterateFails,
     ActivityTimeout, UnhandledCalls, Register, StopThread, ValidityEnds, Move, TypeOK
<1>3. ASSUME NEW c \in Conn, Proceed(c) PROVE PendingInv'
  BY <1>1, <1>3 DEF Proceed, SslAccepted, SslFailed, AuthFails, AuthSucceeds, AddObject,
     RegistrationDone, Close, SleepEnds, Release, Delete, Move, TypeOK
<1>4. ASSUME NEW h \in Holder, GetAll(h) \/ Lookup(h) PROVE PendingInv'
  BY <1>1, <1>4 DEF GetAll, Lookup, LockNext, TerminateHeld, ReleaseHeld
<1>5. CASE log_limits \/ AlertAges \/ ExceededAges \/ Idle \/ UNCHANGED vars
  BY <1>1, <1>5 DEF log_limits, AlertAges, ExceededAges, Idle, vars
<1> QED
  BY <1>0, <1>2, <1>3, <1>4, <1>5, AcceptPending, NewPending DEF Next

\* is_connection_allowed() and the constructor of the connection take no common
\* lock, and still foreign connections exceed the limit by less than the
\* number of accept loops.
THEOREM PendingBoundHolds == Spec => []PendingBound
<1>1. TypeOK /\ PendingInv => PendingBound
  BY CountedFinite, LimitIsNat DEF PendingInv, PendingBound, Counted
<1> QED
  BY <1>1, InitPending, StepPending, TypeCorrect, PTL DEF Spec
=============================================================================
