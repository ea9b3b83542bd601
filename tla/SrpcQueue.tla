------------------------------ MODULE SrpcQueue ------------------------------
(***************************************************************************)
(* Tsrpc_Queue of srpc.c: a fixed array of slots, each of which may own    *)
(* the memory of a packet.  A slot that is popped keeps its memory for the *)
(* next push as long as no more than SRPC_QUEUE_MIN_ALLOC_COUNT are        *)
(* counted; the server is built with 0, the microcontrollers with 1 or 2.  *)
(* malloc() is taken to succeed.                                           *)
(***************************************************************************)
EXTENDS Naturals, FiniteSets

CONSTANTS
  QueueSize,      \* SRPC_QUEUE_SIZE
  MinAllocCount,  \* SRPC_QUEUE_MIN_ALLOC_COUNT
  NULL            \* a slot without memory

ASSUME QueueAssumption ==
  /\ QueueSize \in Nat \ {0} /\ MinAllocCount \in Nat
  /\ QueueSize + MinAllocCount < 256

Slots == 0..(QueueSize - 1)

\* After memset() in srpc_init.
EmptyQueue == [item |-> [i \in Slots |-> NULL], item_count |-> 0, alloc_count |-> 0]

CanPush(q) == q.item_count < QueueSize

\* srpc_queue_push: memory is allocated if the slot has none, and counted in
\* both cases; alloc_count is an unsigned char.
Push(q, sdp) ==
  [item        |-> [q.item EXCEPT ![q.item_count] = sdp],
   item_count  |-> q.item_count + 1,
   alloc_count |-> (q.alloc_count + 1) % 256]

\* The items srpc_queue_pop may return: the first one for rr_id 0, else the
\* first one with this rr_id.
Matches(q, a, rr_id) == rr_id = 0 \/ q.item[a].rr_id = rr_id
FirstMatch(q, a, rr_id) ==
  /\ a < q.item_count /\ Matches(q, a, rr_id)
  /\ \A b \in Slots : b < a => ~Matches(q, b, rr_id)

\* Mutant of Pop: the memory is freed, whatever alloc_count says.
PopFreeUncounted(q, a) ==
  LET last == q.item_count - 1 IN
  [item        |-> [i \in Slots |-> IF i < a THEN q.item[i]
                                    ELSE IF i < last THEN q.item[i + 1]
                                    ELSE IF i = last THEN q.item[a] ELSE q.item[i]],
   item_count  |-> last,
   alloc_count |-> IF q.alloc_count > 0 THEN q.alloc_count - 1 ELSE 0]

\* srpc_queue_pop for the item at a: its memory is freed or goes to the slot
\* behind the last item.
Pop(q, a) ==
  LET frees == q.alloc_count > MinAllocCount
      last  == q.item_count - 1
  IN [item        |-> [i \in Slots |-> IF i < a THEN q.item[i]
                                       ELSE IF i < last THEN q.item[i + 1]
                                       ELSE IF i = last THEN IF frees THEN NULL ELSE q.item[a]
                                       ELSE q.item[i]],
      item_count  |-> last,
      alloc_count |-> IF frees THEN q.alloc_count - 1 ELSE q.alloc_count]

\* The packets of a queue, in order.
Items(q) == [i \in 1..q.item_count |-> q.item[i - 1]]

Allocated(q) == {i \in Slots : q.item[i] # NULL}
=============================================================================
