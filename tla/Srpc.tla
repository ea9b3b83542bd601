-------------------------------- MODULE Srpc --------------------------------
(***************************************************************************)
(* One end of a SUPLA connection inside the server: the frame buffers of   *)
(* proto.c, the queues and srpc_iterate() of srpc.c, and the part of       *)
(* supla_connection that waits, iterates and dispatches what it received.  *)
(*                                                                         *)
(* The connection's thread runs eh_wait() and srpc_iterate(); any thread   *)
(* of the server (Caller) may call srpc_async__call() on the same Tsrpc.   *)
(* srpc->lck protects the Tsrpc, with one exception: srpc_iterate()        *)
(* unlocks before it calls on_remote_call_received() and only then         *)
(* evaluates the arguments of the call, srpc->sdp.rr_id, .call_id and      *)
(* .version.  A caller that fills srpc->sdp meanwhile is seen by these     *)
(* reads, half way through its memset() too (ReadArgument).                *)
(*                                                                         *)
(* A frame is two units on the wire: "head" (tag, version, rr_id, call_id, *)
(* data_size) and "tail" (the data and the second tag); sockets carry them *)
(* one by one, so a frame may be read in parts.  Buffer sizes count units. *)
(* in.size and out.size equal the data_size of their buffer in this build  *)
(* (BUFFER_MIN_SIZE is 0), and begin_tag caches a comparison that is made  *)
(* here when the head is read.  The peer's library numbers its calls like  *)
(* this one.                                                               *)
(***************************************************************************)
EXTENDS SrpcQueue, Integers, Sequences

CONSTANTS
  Caller,     \* other threads that call srpc_async__call()
  None,       \* nobody: the lck is free
  Conn,       \* the connection's own thread
  RrIds,      \* the number of values of rr_id, 2^32 in the code
  OwnRrId,    \* next_rr_id when the behaviour begins, 0 for a new connection
  PeerRrId,   \* the peer's counter then
  Chunk,      \* SRPC_BUFFER_SIZE
  BufferMax,  \* BUFFER_MAX_SIZE
  Nested,     \* srpc_iterate() calls of on_version_error(), 20 in the code
  Kinds,      \* [1 .. MaxIn -> sets of kinds]: what packet n of the peer may be
  MaxIn,      \* bound: packets the peer sends
  MaxOut      \* bound: calls made on this end

\* What a packet can be like: as it should be, without its second tag, with a
\* version out of range or with a data_size beyond SUPLA_MAX_DATA_SIZE.
PacketKind == {"good", "bad", "version", "size"}

ASSUME SrpcAssumption ==
  /\ None \notin Caller /\ Conn \notin Caller /\ Conn # None
  /\ RrIds \in Nat \ {0, 1} /\ Chunk \in Nat \ {0, 1} /\ Chunk < BufferMax
  /\ BufferMax \in Nat /\ Nested \in Nat \ {0} /\ MaxIn \in Nat /\ MaxOut \in Nat
  /\ OwnRrId \in 0..(RrIds - 1) /\ PeerRrId \in 0..(RrIds - 1)
  /\ Kinds \in [1..MaxIn -> SUBSET PacketKind]

VARIABLES
  peer,       \* Seq([rr_id, kind]): packets the peer has begun to send
  half,       \* BOOLEAN: the tail of the last one is still to be sent
  closed_by_peer,
  sock,       \* Seq(unit): what the kernel holds for us
  in,         \* Seq(unit): the in buffer
  out,        \* Seq(unit): the out buffer
  in_queue, out_queue,
  sdp,        \* [rr_id, call_id]: srpc->sdp
  next_rr_id,
  lck,        \* who holds srpc->lck from one step to the next
  pc,         \* where the connection's thread is
  args,       \* [rr_id, call_id]: arguments of on_remote_call_received
  unread,     \* the arguments that are still to be evaluated
  more,       \* raise_event of srpc_iterate
  nested,     \* srpc_iterate() calls on_version_error has still to make
  event,      \* BOOLEAN: the eventfd of eh is readable
  calls,      \* Nat: calls made, a bound
  accepted,   \* Seq(packet): calls put in the out queue, a history
  written,    \* Seq(unit): what the kernel took before it took too little, a history
  lost,       \* BOOLEAN: the kernel took less than it was given, a history
  handled     \* Seq(packet): calls handled, a history

wire  == <<peer, half, closed_by_peer>>
hist  == <<accepted, written, lost, handled>>
local == <<args, unread, more>>
vars  == <<wire, sock, in, out, in_queue, out_queue, sdp, next_rr_id, lck, pc,
           local, nested, event, calls, hist>>

----------------------------------------------------------------------------
NoCall == <<"none", 0>>
Zero   == [rr_id |-> 0, call_id |-> NoCall]

\* Mutants of NextRrId: the counter wraps to 0, or does not wrap.
NextRrIdZero(n)   == (n + 1) % RrIds
NextRrIdNoWrap(n) == n + 1

\* sproto_sdp_init: the counter wraps and never yields 0.
NextRrId(n) == IF (n + 1) % RrIds = 0 THEN 1 ELSE (n + 1) % RrIds

Least(a, b) == IF a < b THEN a ELSE b
First(s, n) == SubSeq(s, 1, n)
Rest(s, n)  == SubSeq(s, n + 1, Len(s))

\* The units of a frame and of a sequence of packets.
Units(p)     == <<[packet |-> p, part |-> "head"], [packet |-> p, part |-> "tail"]>>
Wire(s)      == [i \in 1..(2 * Len(s)) |-> Units(s[(i + 1) \div 2])[2 - (i % 2)]]

\* The packet that is n-th from the peer, and its kind.
PeerPacket(n) == [rr_id |-> peer[n].rr_id, call_id |-> <<"peer", n>>]
Kind(p)       == peer[p.call_id[2]].kind

----------------------------------------------------------------------------
\* A connection with nothing under way: a new one, or one that has been used
\* for as many calls as the counters tell.
Init ==
  /\ peer = <<>> /\ half = FALSE /\ closed_by_peer = FALSE
  /\ sock = <<>> /\ in = <<>> /\ out = <<>>
  /\ in_queue = EmptyQueue /\ out_queue = EmptyQueue
  /\ sdp = Zero /\ next_rr_id = OwnRrId
  /\ lck = None /\ pc = "wait"
  /\ args = Zero /\ unread = {} /\ more = FALSE
  /\ nested = 0 /\ event = FALSE /\ calls = 0
  /\ accepted = <<>> /\ written = <<>> /\ lost = FALSE /\ handled = <<>>

----------------------------------------------------------------------------
(* The peer and the network *)

\* The head of a packet arrives.
PeerHead(k) ==
  /\ ~half /\ ~closed_by_peer /\ Len(peer) < MaxIn /\ k \in Kinds[Len(peer) + 1]
  /\ LET last == IF peer = <<>> THEN PeerRrId ELSE peer[Len(peer)].rr_id
         rr   == NextRrId(last)
         p    == [rr_id |-> rr, call_id |-> <<"peer", Len(peer) + 1>>]
     IN /\ peer' = Append(peer, [rr_id |-> rr, kind |-> k])
        /\ sock' = Append(sock, Units(p)[1])
  /\ half' = TRUE
  /\ UNCHANGED <<closed_by_peer, in, out, in_queue, out_queue, sdp, next_rr_id, lck,
                 pc, local, nested, event, calls, hist>>

\* Its tail arrives.
PeerTail ==
  /\ half /\ ~closed_by_peer
  /\ sock' = Append(sock, Units(PeerPacket(Len(peer)))[2])
  /\ half' = FALSE
  /\ UNCHANGED <<peer, closed_by_peer, in, out, in_queue, out_queue, sdp, next_rr_id,
                 lck, pc, local, nested, event, calls, hist>>

\* The peer closes the connection.
PeerClose ==
  /\ ~closed_by_peer /\ closed_by_peer' = TRUE
  /\ UNCHANGED <<peer, half, sock, in, out, in_queue, out_queue, sdp, next_rr_id, lck,
                 pc, local, nested, event, calls, hist>>

----------------------------------------------------------------------------
(* srpc_async__call, by another thread *)

\* It locks and clears srpc->sdp ...
AsyncBegin(c) ==
  /\ lck = None /\ calls < MaxOut
  /\ lck' = c /\ sdp' = Zero /\ calls' = calls + 1
  /\ UNCHANGED <<wire, sock, in, out, in_queue, out_queue, next_rr_id, pc, local,
                 nested, event, hist>>

\* What the rest of the call does to the Tsrpc: fills sdp, pushes it, raises
\* the event.  Data that are too long or missing and a full queue refuse the
\* call.
Enqueue(p) ==
  /\ next_rr_id' = p.rr_id
  /\ \/ /\ sdp' = [p EXCEPT !.call_id = NoCall]
        /\ UNCHANGED <<out_queue, accepted, event>>
     \/ /\ sdp' = p
        /\ IF CanPush(out_queue)
             THEN /\ out_queue' = Push(out_queue, p)
                  /\ accepted' = Append(accepted, p)
                  /\ event' = TRUE
             ELSE UNCHANGED <<out_queue, accepted, event>>

OwnPacket(n) == [rr_id |-> NextRrId(next_rr_id), call_id |-> <<"own", n>>]

\* ... and unlocks.
AsyncEnd(c) ==
  /\ lck = c /\ lck' = None
  /\ Enqueue(OwnPacket(calls))
  /\ UNCHANGED <<wire, sock, in, out, in_queue, pc, local, nested, calls, written,
                 lost, handled>>

----------------------------------------------------------------------------
(* The connection's thread: eh_wait *)

\* An event or data end the wait; the eventfd is read.
Wake ==
  /\ pc = "wait" /\ (event \/ sock # <<>> \/ closed_by_peer)
  /\ pc' = "in" /\ event' = FALSE
  /\ UNCHANGED <<wire, sock, in, out, in_queue, out_queue, sdp, next_rr_id, lck, local,
                 nested, calls, hist>>

\* The wait times out.
WaitTimeout ==
  /\ pc = "wait" /\ pc' = "in"
  /\ UNCHANGED <<wire, sock, in, out, in_queue, out_queue, sdp, next_rr_id, lck, local,
                 nested, event, calls, hist>>

\* The thread is terminated, or the registration or the activity timed out.
LoopEnds ==
  /\ pc = "wait" /\ pc' = "closed"
  /\ UNCHANGED <<wire, sock, in, out, in_queue, out_queue, sdp, next_rr_id, lck, local,
                 nested, event, calls, hist>>

----------------------------------------------------------------------------
(* srpc_iterate, IN *)

\* srpc_iterate returned.  FALSE closes the connection, but on_version_error
\* does not look at what it gets; when it is through, the iteration that
\* called it returns FALSE.
Return(ok) ==
  /\ nested' = IF nested > 0 THEN nested - 1 ELSE 0
  /\ pc' = IF nested > 1 THEN "in" ELSE IF nested = 1 \/ ~ok THEN "closed" ELSE "wait"

\* What data_read() gets, and the in buffer with it appended.
Amount   == Least(Chunk, Len(sock))
Appended == in \o First(sock, Amount)
Reads    == pc = "in" /\ lck = None /\ (sock = <<>> => ~closed_by_peer)
Fits     == Amount = 0 \/ Len(in) + Amount < BufferMax

\* The outcome of sproto_pop_in_sdp on a buffer.  A buffer that does not start
\* with a tag is an error at once, a version or a data_size out of range as
\* soon as the header is there; the second tag is looked at when the whole
\* frame is.
PopInSdp(buf) ==
  IF buf = <<>> THEN "FALSE"
  ELSE IF buf[1].part = "tail" THEN "DATA_ERROR"
  ELSE IF Kind(buf[1].packet) = "version" THEN "VERSION_ERROR"
  ELSE IF Kind(buf[1].packet) = "size" THEN "DATA_ERROR"
  ELSE IF Len(buf) < 2 THEN "FALSE"
  ELSE IF Kind(buf[1].packet) = "bad" THEN "DATA_ERROR"
  ELSE "TRUE"

\* The end of the stream, or no room for what was read.
IterateClosed ==
  /\ pc = "in" /\ lck = None /\ sock = <<>> /\ closed_by_peer
  /\ Return(FALSE)
  /\ UNCHANGED <<wire, sock, in, out, in_queue, out_queue, sdp, next_rr_id, lck, local,
                 event, calls, hist>>

IterateOverflow ==
  /\ Reads /\ ~Fits
  /\ sock' = Rest(sock, Amount)
  /\ Return(FALSE)
  /\ UNCHANGED <<wire, in, out, in_queue, out_queue, sdp, next_rr_id, lck, local,
                 event, calls, hist>>

\* No complete frame yet: on to OUT, with the lck held.
IterateNothing ==
  /\ Reads /\ Fits /\ PopInSdp(Appended) = "FALSE"
  /\ sock' = Rest(sock, Amount) /\ in' = Appended
  /\ pc' = "out" /\ more' = FALSE /\ lck' = Conn
  /\ UNCHANGED <<wire, out, in_queue, out_queue, sdp, next_rr_id, args, unread,
                 nested, event, calls, hist>>

\* Mutant of IterateReceive: the second tag stays in the buffer.
IterateReceiveKeepTag ==
  /\ Reads /\ Fits /\ PopInSdp(Appended) = "TRUE" /\ CanPush(in_queue)
  /\ sock' = Rest(sock, Amount) /\ in' = Rest(Appended, 1)
  /\ sdp' = Appended[1].packet
  /\ in_queue' = Push(in_queue, Appended[1].packet)
  /\ more' = (in' # <<>>)
  /\ pc' = "args" /\ unread' = {"rr_id", "call_id"} /\ args' = Zero
  /\ UNCHANGED <<wire, out, out_queue, next_rr_id, lck, nested, event, calls, hist>>

\* A frame is complete: the packet is queued and the lck released.
IterateReceive ==
  /\ Reads /\ Fits /\ PopInSdp(Appended) = "TRUE" /\ CanPush(in_queue)
  /\ sock' = Rest(sock, Amount) /\ in' = Rest(Appended, 2)
  /\ sdp' = Appended[1].packet
  /\ in_queue' = Push(in_queue, Appended[1].packet)
  /\ more' = (in' # <<>>)
  /\ pc' = "args" /\ unread' = {"rr_id", "call_id"} /\ args' = Zero
  /\ UNCHANGED <<wire, out, out_queue, next_rr_id, lck, nested, event, calls, hist>>

\* The in queue is full.
IterateQueueFull ==
  /\ Reads /\ Fits /\ PopInSdp(Appended) = "TRUE" /\ ~CanPush(in_queue)
  /\ sock' = Rest(sock, Amount) /\ in' = Rest(Appended, 2)
  /\ sdp' = Appended[1].packet
  /\ Return(FALSE)
  /\ UNCHANGED <<wire, out, in_queue, out_queue, next_rr_id, lck, local, event, calls, hist>>

\* A malformed frame: everything read so far is dropped.
IterateDataError ==
  /\ Reads /\ Fits /\ PopInSdp(Appended) = "DATA_ERROR"
  /\ sock' = Rest(sock, Amount) /\ in' = <<>>
  /\ Return(FALSE)
  /\ UNCHANGED <<wire, out, in_queue, out_queue, sdp, next_rr_id, lck, local, event,
                 calls, hist>>

\* A version out of range: the lck is released and on_version_error is called,
\* in the place of the rest of this iteration.
IterateVersionError ==
  /\ Reads /\ Fits /\ PopInSdp(Appended) = "VERSION_ERROR"
  /\ sock' = Rest(sock, Amount) /\ in' = <<>>
  /\ nested' = Nested + (IF nested > 0 THEN nested - 1 ELSE 0)
  /\ pc' = "version"
  /\ UNCHANGED <<wire, out, in_queue, out_queue, sdp, next_rr_id, lck, local, event,
                 calls, hist>>

\* It makes a call and iterates.
VersionReply ==
  /\ pc = "version" /\ lck = None
  /\ pc' = "in" /\ calls' = calls + 1
  /\ Enqueue(OwnPacket(calls'))
  /\ UNCHANGED <<wire, sock, in, out, in_queue, lck, local, nested, written, lost,
                 handled>>

----------------------------------------------------------------------------
(* on_remote_call_received *)

\* One of its arguments is evaluated, with the lck released.
ReadArgument(f) ==
  /\ pc = "args" /\ f \in unread
  /\ args' = [args EXCEPT ![f] = sdp[f]]
  /\ unread' = unread \ {f}
  /\ pc' = IF unread' = {} THEN "call" ELSE "args"
  /\ UNCHANGED <<wire, sock, in, out, in_queue, out_queue, sdp, next_rr_id, lck, more,
                 nested, event, calls, hist>>

\* Mutant of GetData: the packet stays in the in queue.
GetDataKeep ==
  /\ pc = "call" /\ lck = None
  /\ \E a \in Slots :
       /\ FirstMatch(in_queue, a, args.rr_id)
       /\ sdp' = in_queue.item[a]
       /\ \/ pc' = "out" /\ UNCHANGED handled
          \/ pc' = "handler" /\ handled' = Append(handled, sdp')
  /\ UNCHANGED <<wire, sock, in, out, in_queue, out_queue, next_rr_id, lck, local, nested,
                 event, calls, accepted, written, lost>>

\* srpc_getdata finds the packet with this rr_id; it is handled, or dropped
\* because its data do not fit its call.
GetData ==
  /\ pc = "call" /\ lck = None
  /\ \E a \in Slots :
       /\ FirstMatch(in_queue, a, args.rr_id)
       /\ in_queue' = Pop(in_queue, a)
       /\ sdp' = in_queue.item[a]
       /\ \/ pc' = "out" /\ UNCHANGED handled
          \/ pc' = "handler" /\ handled' = Append(handled, sdp')
  /\ UNCHANGED <<wire, sock, in, out, out_queue, next_rr_id, lck, local, nested, event,
                 calls, accepted, written, lost>>

\* It finds none: nothing is handled.
GetDataNothing ==
  /\ pc = "call" /\ lck = None
  /\ \A a \in Slots : ~FirstMatch(in_queue, a, args.rr_id)
  /\ pc' = "out"
  /\ UNCHANGED <<wire, sock, in, out, in_queue, out_queue, sdp, next_rr_id, lck, local,
                 nested, event, calls, hist>>

\* The handler answers, or does not.
HandlerReply ==
  /\ pc = "handler" /\ lck = None /\ calls < MaxOut
  /\ pc' = "out" /\ calls' = calls + 1
  /\ Enqueue(OwnPacket(calls'))
  /\ UNCHANGED <<wire, sock, in, out, in_queue, lck, local, nested, written, lost, handled>>

HandlerReturn ==
  /\ pc = "handler" /\ pc' = "out"
  /\ UNCHANGED <<wire, sock, in, out, in_queue, out_queue, sdp, next_rr_id, lck, local,
                 nested, event, calls, hist>>

----------------------------------------------------------------------------
(* srpc_iterate, OUT *)

\* Mutant of OutAppend: the second tag is not sent.
OutAppendNoTag(p) == Append(out, Units(p)[1])

\* sproto_out_buffer_append: the head and then the second tag are appended;
\* no room for the head drops the packet, no room for the tag is an error.
OutAppend(p) ==
  LET room == BufferMax - 1 - Len(out) IN out \o First(Units(p), Least(2, room))
AppendFails == BufferMax - 1 - Len(out) = 1

\* Mutants of RaiseEvent: the in buffer, or the out queue, is forgotten.
RaiseEventNoIn(buf, q)    == event' = (event \/ buf # <<>> \/ q.item_count > 0)
RaiseEventNoQueue(buf, q) == event' = (event \/ buf # <<>> \/ more)

\* The event is raised when there is more to do.
RaiseEvent(buf, q) == event' = (event \/ buf # <<>> \/ q.item_count > 0 \/ more)

\* One packet goes to the out buffer, a chunk of it to the kernel, which may
\* take less; the result of data_write() is not looked at.
Send(buf, q) ==
  LET n == Least(Chunk, Len(buf)) IN
  /\ \/ UNCHANGED lost /\ written' = written \o First(buf, IF lost THEN 0 ELSE n)
     \/ n > 0 /\ lost' = TRUE /\ UNCHANGED written
  /\ out' = Rest(buf, n)
  /\ RaiseEvent(out', q)
  /\ Return(TRUE)

IterateOutPacket ==
  /\ pc = "out" /\ lck \notin Caller /\ lck' = None /\ out_queue.item_count > 0
  /\ out_queue' = Pop(out_queue, 0)
  /\ sdp' = out_queue.item[0]
  /\ IF AppendFails
       THEN /\ out' = OutAppend(sdp')
            /\ Return(FALSE)
            /\ UNCHANGED <<written, lost, event>>
       ELSE Send(OutAppend(sdp'), out_queue')
  /\ UNCHANGED <<wire, sock, in, in_queue, next_rr_id, local, calls, accepted, handled>>

IterateOutRest ==
  /\ pc = "out" /\ lck \notin Caller /\ lck' = None /\ out_queue.item_count = 0
  /\ Send(out, out_queue)
  /\ UNCHANGED <<wire, sock, in, in_queue, out_queue, sdp, next_rr_id, local, calls,
                 accepted, handled>>

\* The connection is closed; its end is not modelled here.
Closed == pc = "closed" /\ UNCHANGED vars

----------------------------------------------------------------------------
Iterate ==
  \/ IterateClosed \/ IterateOverflow \/ IterateNothing \/ IterateReceive
  \/ IterateQueueFull \/ IterateDataError \/ IterateVersionError
  \/ VersionReply
  \/ (\E f \in {"rr_id", "call_id"} : ReadArgument(f)) \/ GetData \/ GetDataNothing
  \/ HandlerReply \/ HandlerReturn \/ IterateOutPacket \/ IterateOutRest

Next ==
  \/ (\E k \in PacketKind : PeerHead(k)) \/ PeerTail \/ PeerClose
  \/ \E c \in Caller : AsyncBegin(c) \/ AsyncEnd(c)
  \/ Wake \/ WaitTimeout \/ LoopEnds \/ Iterate \/ Closed

Spec == Init /\ [][Next]_vars

\* The connection's thread runs, and eh_wait() returns when its eventfd or its
\* socket is readable; a call that has begun ends.  The time-outs of eh_wait()
\* (up to two minutes) are not counted on.
Fairness ==
  /\ WF_vars(Wake) /\ WF_vars(Iterate)
  /\ \A c \in Caller : WF_vars(AsyncEnd(c))

FairSpec == Spec /\ Fairness

----------------------------------------------------------------------------
(* Properties *)

Packet == [rr_id : 0..(RrIds - 1),
           call_id : {NoCall} \union ({"peer"} \X (1..MaxIn)) \union
                     ({"own"} \X (1..(MaxIn + MaxOut)))]
Unit   == [packet : Packet, part : {"head", "tail"}]

\* A slot with memory is not a null pointer.
ASSUME NullAssumption == NULL \notin Packet

Queue  == [item : [Slots -> Packet \union {NULL}],
           item_count : 0..QueueSize, alloc_count : 0..255]

TypeOK ==
  /\ peer \in Seq([rr_id : 0..(RrIds - 1), kind : PacketKind])
  /\ Len(peer) <= MaxIn
  /\ half \in BOOLEAN /\ closed_by_peer \in BOOLEAN
  /\ sock \in Seq(Unit) /\ in \in Seq(Unit) /\ out \in Seq(Unit)
  /\ in_queue \in Queue /\ out_queue \in Queue
  /\ sdp \in Packet /\ next_rr_id \in 0..(RrIds - 1)
  /\ lck \in Caller \union {None, Conn}
  /\ pc \in {"wait", "in", "args", "call", "handler", "version", "out",
            "closed"}
  /\ args \in Packet /\ unread \subseteq {"rr_id", "call_id"}
  /\ more \in BOOLEAN /\ nested \in Nat /\ event \in BOOLEAN /\ lost \in BOOLEAN
  /\ calls \in 0..(MaxIn + MaxOut)
  /\ accepted \in Seq(Packet) /\ written \in Seq(Unit)
  /\ handled \in Seq(Packet)

\* The queues own the memory they use: every queued packet has a slot with
\* memory, what is allocated is counted, and the count (an unsigned char)
\* does not run away although push counts a slot that had memory again.
QueueSound(q) ==
  /\ \A i \in Slots : i < q.item_count => q.item[i] # NULL
  /\ Cardinality(Allocated(q)) <= q.alloc_count
  /\ q.alloc_count <= q.item_count + MinAllocCount
QueuesSound == QueueSound(in_queue) /\ QueueSound(out_queue)

\* Every call that srpc_async__call() accepted is on its way to the peer, once
\* and in order: what the kernel took, the out buffer and the out queue make
\* up the frames of the accepted calls, as long as no write was cut short.
OutStream ==
  ~lost => written \o out \o Wire(Items(out_queue)) = Wire(accepted)

\* The in buffer starts at a frame and its units follow each other, however
\* the frames were cut by the network, until the stream is given up.
InFramed ==
  nested = 0 /\ pc # "closed" =>
    \A i \in 1..Len(in) :
      /\ in[i].part = IF i % 2 = 1 THEN "head" ELSE "tail"
      /\ in[i].packet.call_id[2] = in[1].packet.call_id[2] + (i - 1) \div 2

\* No call of the peer is handled twice, even when a stray rr_id takes one
\* that was left behind out of the in queue.
HandledOnce ==
  \A i, j \in 1..Len(handled) : handled[i] = handled[j] => i = j

\* The connection's thread never sleeps over work: when nothing is going to
\* wake it there is no complete frame in the in buffer and nothing to send.
NoSleepOnWork ==
  pc = "wait" /\ ~event /\ sock = <<>> =>
    PopInSdp(in) = "FALSE" /\ out = <<>> /\ out_queue.item_count = 0

\* No accepted call has rr_id 0: the caller would take the result of
\* srpc_async__call() for a failure.
AcceptedHasRrId == \A i \in 1..Len(accepted) : accepted[i].rr_id # 0

\* on_remote_call_received is called with the rr_id and the call_id of the
\* packet that was received.
DispatchMatches ==
  pc = "call" =>
    in_queue.item_count > 0 /\ args = in_queue.item[in_queue.item_count - 1]

\* An accepted call reaches the kernel without the help of a time-out, unless
\* the connection is closed or a write is cut short.
AcceptedIsWritten ==
  \A k \in 1..MaxOut :
    Len(accepted) >= k ~> Len(written) >= 2 * k \/ lost \/ pc = "closed"
=============================================================================
