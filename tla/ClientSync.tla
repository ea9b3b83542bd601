----------------------------- MODULE ClientSync -----------------------------
(***************************************************************************)
(* How supla-server keeps the lists of one connected client up to date:    *)
(* the objects the client has access to and their marks, the loop of       *)
(* supla_client::iterate() that sends them in packs, the client library    *)
(* that takes a pack and asks for the next one, and the threads that       *)
(* change the objects meanwhile.                                           *)
(*                                                                         *)
(* There are three kinds of objects, each with a protocol of its own.      *)
(*   Location: a location waits in an array until it is sent and is popped *)
(*     from it under the lock of the array (supla_client_locations).       *)
(*   Item: a channel, channel value, extended value, channel group,        *)
(*     relation or group value has a mark that is set by the threads that  *)
(*     change it and removed once it is in a pack; the lock of the array   *)
(*     is not held (supla_client_objcontainer).  Each data type of a       *)
(*     container's scope is a list of its own here.  A channel is sent     *)
(*     with its value: while it is marked its value is not.                *)
(*   Scene: a scene, or the state of a scene, has a change indicator.  A   *)
(*     transaction of the updater collects them under the lock of the list *)
(*     and ends without it, in the client's thread or in the thread of     *)
(*     whoever started, ended or renamed the scene (supla_dobjects).       *)
(*                                                                         *)
(* A value is the number of changes of its object.  Client is the thread   *)
(* of the client's connection: it runs srpc_iterate(), hence get_next(),   *)
(* and iterate() in turns.                                                 *)
(*                                                                         *)
(* Left out: channel relations and channel states, which are supla_dobjects*)
(* of an updater only Client uses; events and other calls, which could     *)
(* fill the out queue of srpc; the EOL flags of a pack.                    *)
(***************************************************************************)
EXTENDS Lists

CONSTANTS
  Locations,   \* sequence of locations
  ItemLists,   \* sequence of sequences of items, in the order they are sent
  SceneLists,  \* <<scenes, states of scenes>>, a sequence of objects each
  Record,      \* [values of channels -> their channels]: who carries a value too
  Single,      \* lists of items an old client gets one by one, not in packs
  Absent,      \* extended values no device has reported
  Expiring,    \* values that lose their validity
  Writer,      \* threads that change objects
  Client,      \* the thread of the client's connection
  PackMax,     \* the MAXCOUNT of the packs
  MaxChanges,  \* Bound: changes of objects
  None

Location == Elements(Locations)
Item     == UNION {Elements(ItemLists[i]) : i \in DOMAIN ItemLists}
Scene    == UNION {Elements(SceneLists[i]) : i \in DOMAIN SceneLists}
Object   == Location \union Item \union Scene
Thread   == Writer \union {Client}

ASSUME ClientSyncAssumption ==
  /\ Locations \in Seq(Location)
  /\ ItemLists \in Seq(Seq(Item)) /\ SceneLists \in Seq(Seq(Scene))
  /\ Location \cap Item = {} /\ Location \cap Scene = {} /\ Item \cap Scene = {}
  /\ \E V \in SUBSET Item : Record \in [V -> Item \ V]
  /\ Single \subseteq DOMAIN ItemLists
  /\ Absent \subseteq Item /\ Expiring \subseteq Item
  /\ Client \notin Writer
  /\ PackMax \in Nat \ {0} /\ MaxChanges \in Nat
  /\ None \notin Nat

VARIABLES
  value,     \* [Object -> Nat]: what the server knows
  changes,   \* number of changes so far
  marked,    \* locations in the array, marked items, changed scenes
  need,      \* remote_lists_need_to_be_updated
  pc,        \* [Thread -> Pc]
  wobj,      \* [Writer -> Object or None]: the object a writer is changing
  at,        \* <<i, k>>: where do_remote_update is, object k of list i
  pack,      \* [Thread -> sequence of entries]: a pack being made
  upack,     \* the pack of the scenes' updater, [list, items] or None
  started,   \* transaction_started
  down,      \* packs on their way to the client
  up,        \* number of get_next calls on their way to the server
  known      \* [Object -> Nat or None]: what the client knows

svars == <<upack, started>>
nvars == <<down, up, known>>
vars  == <<value, changes, marked, need, pc, wobj, at, pack, svars, nvars>>

Pc == {"wait", "mark", "cover", "need", "locations", "sendloc", "items", "unmark",
       "send", "scenes", "ending", "drop", "end"}

Go(t, from, to) == pc[t] = from /\ pc' = [pc EXCEPT ![t] = to]

\* The first n elements of a sequence, or all of them.
Take(seq, n) == SubSeq(seq, 1, IF Len(seq) < n THEN Len(seq) ELSE n)

\* The objects of a list that are marked, in the order of the list.
Marked(list) == Filter(list, marked)

\* What proto_get() and convert() put into a pack: the object's data, and a
\* channel's value with the channel.
Entry(o) ==
  [x \in {o} \union {v \in DOMAIN Record : Record[v] = o} |-> value[x]]

Entries(list) == [k \in DOMAIN list |-> Entry(list[k])]

\* The values in m that need no mark as their channel has one.
Covered(m) == {v \in m \cap DOMAIN Record : Record[v] \in m}

\* The lists are loaded and marked; the client is registered.
Init ==
  /\ value = [o \in Object |-> 0] /\ changes = 0
  /\ marked = Object \ Covered(Object) /\ need = TRUE
  /\ pc = [t \in Thread |-> "wait"] /\ wobj = [w \in Writer |-> None]
  /\ at = <<1, 1>> /\ pack = [t \in Thread |-> <<>>]
  /\ upack = None /\ started = FALSE
  /\ down = <<>> /\ up = 0 /\ known = [o \in Object |-> None]

----------------------------------------------------------------------------
(* Threads that change an object *)

Changed(o) ==
  /\ value' = [value EXCEPT ![o] = @ + 1] /\ changes' = changes + 1

\* A device reports a value, a channel is renamed: the value is stored ...
ChangeItem(w, o) ==
  /\ changes < MaxChanges /\ Go(w, "wait", "mark")
  /\ wobj' = [wobj EXCEPT ![w] = o]
  /\ Changed(o)
  /\ UNCHANGED <<marked, need, at, pack, svars, nvars>>

\* ... the item is marked ...
MarkItem(w) ==
  /\ wobj[w] \in Item /\ Go(w, "mark", "cover")
  /\ marked' = marked \union {wobj[w]}
  /\ UNCHANGED <<value, changes, need, wobj, at, pack, svars, nvars>>

\* ... and a value loses its mark to its channel's, ...
CoverItem(w) ==
  LET own == {wobj[w]} \union {v \in DOMAIN Record : Record[v] = wobj[w]} IN
  /\ Go(w, "cover", "need")
  /\ marked' = marked \ (Covered(marked) \cap own)
  /\ wobj' = [wobj EXCEPT ![w] = None]
  /\ UNCHANGED <<value, changes, need, at, pack, svars, nvars>>

\* Mutant of remote_update_lists: the flag is not set.
remote_update_lists_lost(w) ==
  /\ Go(w, "need", "wait")
  /\ UNCHANGED <<value, changes, marked, need, wobj, at, pack, svars, nvars>>

\* ... and the client's thread is told.
remote_update_lists(w) ==
  /\ Go(w, "need", "wait")
  /\ need' = TRUE
  /\ UNCHANGED <<value, changes, marked, wobj, at, pack, svars, nvars>>

\* set_location_caption(): a location that was sent enters the array again.
AddLocation(w, o) ==
  /\ changes < MaxChanges /\ o \notin marked /\ Go(w, "wait", "locations")
  /\ Changed(o)
  /\ marked' = marked \union {o}
  /\ UNCHANGED <<need, wobj, at, pack, svars, nvars>>

\* One that is still there gets its new caption, unless it leaves the array
\* before the array is locked again.
FindLocation(w, o) ==
  /\ changes < MaxChanges /\ o \in marked /\ Go(w, "wait", "mark")
  /\ wobj' = [wobj EXCEPT ![w] = o]
  /\ UNCHANGED <<value, changes, marked, need, at, pack, svars, nvars>>

SetCaption(w) ==
  /\ wobj[w] \in Location /\ Go(w, "mark", "locations")
  /\ Changed(wobj[w])
  /\ wobj' = [wobj EXCEPT ![w] = None]
  /\ UNCHANGED <<marked, need, at, pack, svars, nvars>>

\* A scene starts, ends or is renamed.
ChangeScene(w, o) ==
  /\ changes < MaxChanges /\ Go(w, "wait", "scenes")
  /\ Changed(o)
  /\ marked' = marked \union {o}
  /\ UNCHANGED <<need, wobj, at, pack, svars, nvars>>

\* update_expired(), in the client's thread.
ExpireItem(o) ==
  /\ changes < MaxChanges /\ pc[Client] = "wait"
  /\ Changed(o)
  /\ marked' = (marked \union {o}) \ Covered(marked \union {o})
  /\ need' = TRUE
  /\ UNCHANGED <<pc, wobj, at, pack, svars, nvars>>

----------------------------------------------------------------------------
(* supla_client::iterate() *)

Send(p) == down' = Append(down, p)

\* remote_lists_need_to_be_updated is read and reset.
Iterate ==
  /\ need /\ Go(Client, "wait", "locations")
  /\ need' = FALSE
  /\ UNCHANGED <<value, changes, marked, wobj, at, pack, svars, nvars>>

\* supla_client_locations::remote_update(): a pack of locations leaves the
\* array ...
PopLocations(t) ==
  LET popped == Take(Marked(Locations), PackMax) IN
  /\ Go(t, "locations", IF popped # <<>> THEN "sendloc"
                        ELSE IF t = Client THEN "items" ELSE "wait")
  /\ marked' = marked \ Elements(popped)
  /\ pack' = [pack EXCEPT ![t] = Entries(popped)]
  /\ at' = IF t = Client THEN <<1, 1>> ELSE at
  /\ UNCHANGED <<value, changes, need, wobj, svars, nvars>>

\* ... and is sent.
SendLocations(t) ==
  /\ Go(t, "sendloc", "wait")
  /\ Send(pack[t])
  /\ pack' = [pack EXCEPT ![t] = <<>>]
  /\ UNCHANGED <<value, changes, marked, need, wobj, at, svars, up, known>>

\* The object do_remote_update looks at.
Here == ItemLists[at[1]][at[2]]
InList == at[1] <= Len(ItemLists) /\ at[2] <= Len(ItemLists[at[1]])

\* An item is skipped: it has no mark, no data, or the pack is full.
SkipItem ==
  /\ pc[Client] = "items" /\ InList
  /\ \/ Here \notin marked \/ Here \in Absent
     \/ at[1] \notin Single /\ Len(pack[Client]) >= PackMax
  /\ at' = <<at[1], at[2] + 1>>
  /\ UNCHANGED <<value, changes, marked, need, pc, wobj, pack, svars, nvars>>

\* get_data_for_remote(): its data is put into the pack ...  A client that
\* gets one value at a time has room for one, which the next one overwrites.
CollectItem ==
  /\ InList /\ Here \in marked \ Absent
  /\ at[1] \in Single \/ Len(pack[Client]) < PackMax
  /\ Go(Client, "items", "unmark")
  /\ pack' = [pack EXCEPT ![Client] =
       Append(IF at[1] \in Single THEN <<>> ELSE @, Entry(Here))]
  /\ UNCHANGED <<value, changes, marked, need, wobj, at, svars, nvars>>

\* Mutant of UnmarkItem: the mark stays.
UnmarkItemKeep ==
  /\ Go(Client, "unmark", "items")
  /\ at' = <<at[1], at[2] + 1>>
  /\ UNCHANGED <<value, changes, marked, need, wobj, pack, svars, nvars>>

\* ... and then it loses its mark.
UnmarkItem ==
  /\ Go(Client, "unmark", "items")
  /\ marked' = marked \ {Here}
  /\ at' = <<at[1], at[2] + 1>>
  /\ UNCHANGED <<value, changes, need, wobj, pack, svars, nvars>>

\* The end of a list: the pack is sent and iterate() returns, or the next
\* list follows.
EndOfList ==
  /\ at[1] <= Len(ItemLists) /\ at[2] > Len(ItemLists[at[1]])
  /\ \/ /\ pack[Client] # <<>> /\ Go(Client, "items", "send")
        /\ UNCHANGED at
     \/ /\ pack[Client] = <<>> /\ pc[Client] = "items"
        /\ at' = <<at[1] + 1, 1>> /\ UNCHANGED pc
  /\ UNCHANGED <<value, changes, marked, need, wobj, pack, svars, nvars>>

\* Mutant of SendItems: the newest pack overtakes the ones before it.
SendItemsFirst ==
  /\ Go(Client, "send", "wait")
  /\ down' = <<pack[Client]>> \o down
  /\ pack' = [pack EXCEPT ![Client] = <<>>]
  /\ UNCHANGED <<value, changes, marked, need, wobj, at, svars, up, known>>

SendItems ==
  /\ Go(Client, "send", "wait")
  /\ Send(pack[Client])
  /\ pack' = [pack EXCEPT ![Client] = <<>>]
  /\ UNCHANGED <<value, changes, marked, need, wobj, at, svars, up, known>>

ItemsDone ==
  /\ at[1] > Len(ItemLists) /\ Go(Client, "items", "scenes")
  /\ UNCHANGED <<value, changes, marked, need, wobj, at, pack, svars, nvars>>

----------------------------------------------------------------------------
(* supla_dobjects::update_remote() of the scenes, in any thread *)

\* The list a new transaction is about: the scenes if one has changed, or
\* the states.
FirstChanged ==
  CHOOSE i \in DOMAIN SceneLists :
    /\ Marked(SceneLists[i]) # <<>>
    /\ \A j \in 1 .. i - 1 : Marked(SceneLists[j]) = <<>>

\* The transaction: while the list is locked the changed scenes are put into
\* the pack and lose their indicator.  If another thread's transaction has not
\* ended its pack is used, if that still exists.
UpdateScenes(t) ==
  LET begins == ~started /\ marked \cap Scene # {}
      open   == IF begins THEN [list |-> FirstChanged, items |-> <<>>] ELSE upack
      added  == IF open = None \/ ~(started \/ begins) THEN <<>>
                ELSE Take(Marked(SceneLists[open.list]), PackMax - Len(open.items))
  IN /\ Go(t, "scenes", "ending")
     /\ started' = (started \/ begins)
     /\ upack' = IF open = None THEN None
                 ELSE [open EXCEPT !.items = @ \o Entries(added)]
     /\ marked' = marked \ Elements(added)
     /\ UNCHANGED <<value, changes, need, wobj, at, pack, nvars>>

\* end_transaction(), without the lock: the pack is sent ...
EndTransaction(t) ==
  /\ Go(t, "ending", IF started THEN "drop" ELSE "wait")
  /\ IF started /\ upack # None THEN Send(upack.items) ELSE UNCHANGED down
  /\ UNCHANGED <<value, changes, marked, need, wobj, at, pack, svars, up, known>>

\* ... deleted ...
DropPack(t) ==
  /\ Go(t, "drop", "end")
  /\ upack' = None
  /\ UNCHANGED <<value, changes, marked, need, wobj, at, pack, started, nvars>>

\* ... and transaction_started is reset.
TransactionEnded(t) ==
  /\ Go(t, "end", "wait")
  /\ started' = FALSE
  /\ UNCHANGED <<value, changes, marked, need, wobj, at, pack, upack, nvars>>

----------------------------------------------------------------------------
(* The client library, and get_next() in the client's thread *)

\* What is known once the pack p has arrived: a later entry of an object
\* overrides an earlier one.
Learn(p) ==
  [o \in Object |->
     LET own == {k \in DOMAIN p : o \in DOMAIN p[k]} IN
     IF own = {} THEN known[o]
     ELSE p[CHOOSE k \in own : \A j \in own : j <= k][o]]

ReceivePack ==
  /\ down # <<>>
  /\ known' = Learn(Head(down)) /\ down' = Tail(down)
  /\ up' = up + 1
  /\ UNCHANGED <<value, changes, marked, need, pc, wobj, at, pack, svars>>

get_next ==
  /\ up > 0 /\ pc[Client] = "wait"
  /\ up' = up - 1 /\ need' = TRUE
  /\ UNCHANGED <<value, changes, marked, pc, wobj, at, pack, svars, down, known>>

----------------------------------------------------------------------------
\* Nothing is on its way and no thread is at work.
Quiet ==
  ~need /\ down = <<>> /\ up = 0 /\ \A t \in Thread : pc[t] = "wait"

Rest == Quiet /\ UNCHANGED vars

Write(w) ==
  \/ \E o \in Item : ChangeItem(w, o)
  \/ \E o \in Location : AddLocation(w, o) \/ FindLocation(w, o)
  \/ \E o \in Scene : ChangeScene(w, o)

Work(t) ==
  \/ PopLocations(t) \/ SendLocations(t)
  \/ UpdateScenes(t) \/ EndTransaction(t) \/ DropPack(t) \/ TransactionEnded(t)

Finish(w) ==
  \/ MarkItem(w) \/ CoverItem(w) \/ SetCaption(w) \/ remote_update_lists(w)
  \/ Work(w)

Loop ==
  \/ Iterate \/ SkipItem \/ CollectItem \/ UnmarkItem \/ EndOfList \/ SendItems
  \/ ItemsDone \/ Work(Client) \/ get_next

Next ==
  \/ \E w \in Writer : Write(w) \/ Finish(w)
  \/ \E o \in Expiring : ExpireItem(o)
  \/ Loop \/ ReceivePack \/ Rest

Spec == Init /\ [][Next]_vars

\* Every thread runs and the client handles what it receives.
FairSpec ==
  /\ Spec
  /\ \A w \in Writer : WF_vars(Finish(w))
  /\ WF_vars(Loop) /\ WF_vars(ReceivePack)

----------------------------------------------------------------------------
(* Properties *)

\* An entry of a pack.
EntryOf == UNION {[X -> Nat] : X \in SUBSET Object}

TypeOK ==
  /\ value \in [Object -> Nat] /\ changes \in Nat
  /\ marked \subseteq Object /\ need \in BOOLEAN
  /\ pc \in [Thread -> Pc] /\ wobj \in [Writer -> Object \union {None}]
  /\ at \in Nat \X Nat
  /\ pack \in [Thread -> Seq(EntryOf)]
  /\ upack = None \/ upack \in [list : DOMAIN SceneLists, items : Seq(EntryOf)]
  /\ started \in BOOLEAN
  /\ down \in Seq(Seq(EntryOf)) /\ up \in Nat
  /\ known \in [Object -> Nat \union {None}]

\* A mark is never forgotten: when nothing is on its way and no thread is at
\* work, every location and item that has data has been put into a pack.  It
\* takes the flag, the get_next the client answers each pack with and the
\* lists the loop did not reach to see to it.
NothingForgotten == Quiet => marked \subseteq Scene \union Absent

\* The client's view of a channel or of a scene never goes back to an older
\* value.  (A location's may: its packs are sent by two threads.)
KnownForward ==
  [][\A o \in Item \union Scene :
       known[o] # None => known'[o] # None /\ known'[o] >= known[o]]_vars

\* The exchange of packs and get_next calls comes to an end.
ComesToRest == <>[]Quiet

\* When nothing is on its way, the client knows the last value of every
\* channel it was not sent one by one.
LastValueArrives ==
  Quiet =>
    \A i \in DOMAIN ItemLists \ Single :
      \A o \in Elements(ItemLists[i]) \ Absent : known[o] = value[o]
=============================================================================
