-------------------------- MODULE ClientSyncProofs --------------------------
(***************************************************************************)
(* Proofs about ClientSync, for any lists of objects, any threads and any  *)
(* size of a pack: types, no mark is forgotten, and what the client knows  *)
(* of an item or a scene never goes back.                                  *)
(***************************************************************************)
EXTENDS ClientSync, ListsProofs

Packs == Seq(EntryOf)
UPack == [list : DOMAIN SceneLists, items : Packs]

----------------------------------------------------------------------------
(* Lists and entries *)

LEMMA ObjectType ==
  /\ Location \subseteq Object /\ Item \subseteq Object /\ Scene \subseteq Object
  /\ \A o \in Object : o \in Location \/ o \in Item \/ o \in Scene
  /\ \A v \in DOMAIN Record : v \in Item /\ Record[v] \in Item /\ Record[v] \notin DOMAIN Record
<1>1. PICK V \in SUBSET Item : Record \in [V -> Item \ V]
  BY ClientSyncAssumption
<1>2. DOMAIN Record = V /\ \A v \in V : Record[v] \in Item \ V
  BY <1>1
<1> QED
  BY <1>1, <1>2 DEF Object

\* What is put into a pack for o: o, and the values of a channel o.
LEMMA EntryType ==
  ASSUME value \in [Object -> Nat], NEW o \in Object
  PROVE  /\ Entry(o) \in EntryOf /\ o \in DOMAIN Entry(o)
         /\ \A x \in DOMAIN Entry(o) : Entry(o)[x] = value[x]
         /\ o \in Item => DOMAIN Entry(o) \subseteq Item
         /\ o \notin Item => DOMAIN Entry(o) = {o}
<1> DEFINE X == {o} \union {v \in DOMAIN Record : Record[v] = o}
<1>1. Entry(o) = [x \in X |-> value[x]]
  BY DEF Entry
<1>2. X \subseteq Object /\ (o \in Item => X \subseteq Item) /\ (o \notin Item => X = {o}) /\ o \in X
  BY ObjectType
<1> HIDE DEF X
<1>3. \A x \in X : value[x] \in Nat
  BY <1>2
<1>4. Entry(o) \in [X -> Nat]
  BY <1>1, <1>3
<1>5. Entry(o) \in EntryOf
  BY <1>2, <1>4 DEF EntryOf
<1> QED
  BY <1>1, <1>2, <1>5

LEMMA EntriesType ==
  ASSUME value \in [Object -> Nat], NEW list \in Seq(Object)
  PROVE  /\ Entries(list) \in Packs /\ Len(Entries(list)) = Len(list)
         /\ DOMAIN Entries(list) = DOMAIN list
         /\ \A k \in DOMAIN list : list[k] \in Object /\ Entries(list)[k] = Entry(list[k])
<1>1. Len(list) \in Nat /\ DOMAIN list = 1..Len(list) /\ \A k \in 1..Len(list) : list[k] \in Object
  OBVIOUS
<1>2. Entries(list) = [k \in 1..Len(list) |-> Entry(list[k])]
  BY <1>1 DEF Entries
<1>3. \A k \in 1..Len(list) : Entry(list[k]) \in EntryOf
  BY <1>1, EntryType
<1>4. Entries(list) \in Seq(EntryOf)
  BY <1>1, <1>2, <1>3
<1>5. Len(Entries(list)) = Len(list)
  BY <1>1, <1>2, <1>4
<1> QED
  BY <1>1, <1>2, <1>4, <1>5 DEF Packs

\* An entry tells a number of each of its objects.
LEMMA EntryNumber ==
  ASSUME NEW e \in EntryOf, NEW o \in DOMAIN e
  PROVE  e[o] \in Nat /\ o \in Object
BY DEF EntryOf

LEMMA TakeProps ==
  ASSUME NEW T, NEW seq \in Seq(T), NEW n \in Int
  PROVE  /\ Take(seq, n) \in Seq(T) /\ Elements(Take(seq, n)) \subseteq Elements(seq)
         /\ n >= 1 /\ seq # <<>> => Take(seq, n) # <<>>
<1> DEFINE m == IF Len(seq) < n THEN Len(seq) ELSE n
           s == SubSeq(seq, 1, m)
<1>1. Len(seq) \in Nat /\ DOMAIN seq = 1..Len(seq)
  OBVIOUS
<1>2. m \in Int /\ m <= Len(seq) /\ (n >= 1 /\ Len(seq) >= 1 => m >= 1)
  BY <1>1
<1>3. Take(seq, n) = s
  BY DEF Take
<1> HIDE DEF m
<1>4. CASE m >= 1
  <2>1. /\ s \in Seq(T) /\ Len(s) = m /\ \A i \in 1..m : s[i] = seq[i]
    BY <1>1, <1>2, <1>4
  <2>2. DOMAIN s = 1..m /\ \A i \in 1..m : i \in DOMAIN seq
    BY <1>1, <1>2, <1>4, <2>1
  <2>3. Elements(s) \subseteq Elements(seq)
    <3> HIDE DEF s
    <3> QED
      BY <2>1, <2>2 DEF Elements
  <2>4. s # <<>>
    <3> HIDE DEF s
    <3> QED
      BY <1>4, <2>1
  <2> QED
    BY <1>3, <2>1, <2>3, <2>4
<1>5. CASE ~(m >= 1)
  <2>1. m < 1
    BY <1>2, <1>5
  <2>2. s = <<>>
    BY <1>1, <1>2, <2>1
  <2> HIDE DEF s
  <2>3. Elements(s) = {} /\ s \in Seq(T)
    BY <2>2 DEF Elements
  <2>4. ~(n >= 1 /\ seq # <<>>)
    BY <1>1, <1>2, <1>5
  <2> QED
    BY <1>3, <2>2, <2>3, <2>4
<1> QED
  BY <1>4, <1>5

\* The marked objects of a list.
LEMMA MarkedProps ==
  ASSUME NEW T, NEW list \in Seq(T)
  PROVE  /\ Marked(list) \in Seq(T) /\ Elements(Marked(list)) = Elements(list) \cap marked
         /\ Marked(list) = <<>> <=> Elements(list) \cap marked = {}
<1> DEFINE m == Marked(list)
<1>1. m \in Seq(T) /\ Elements(m) = Elements(list) \cap marked
  BY FilterProps DEF Marked
<1> HIDE DEF m
<1>2. m = <<>> <=> Elements(m) = {}
  <2>1. m = <<>> => Elements(m) = {}
    BY DEF Elements
  <2>2. m # <<>> => 1 \in DOMAIN m
    BY <1>1
  <2>3. 1 \in DOMAIN m => Elements(m) # {}
    BY DEF Elements
  <2> QED
    BY <2>1, <2>2, <2>3
<1> QED
  BY <1>1, <1>2 DEF m

LEMMA ListType ==
  /\ Locations \in Seq(Object) /\ Elements(Locations) = Location
  /\ Len(ItemLists) \in Nat /\ DOMAIN ItemLists = 1..Len(ItemLists)
  /\ \A i \in DOMAIN ItemLists :
       /\ ItemLists[i] \in Seq(Item) /\ Len(ItemLists[i]) \in Nat
       /\ DOMAIN ItemLists[i] = 1..Len(ItemLists[i])
       /\ \A k \in DOMAIN ItemLists[i] : ItemLists[i][k] \in Item
  /\ Len(SceneLists) \in Nat /\ DOMAIN SceneLists = 1..Len(SceneLists)
  /\ \A i \in DOMAIN SceneLists : SceneLists[i] \in Seq(Scene)
<1>1. Locations \in Seq(Object) /\ Elements(Locations) = Location
  <2>1. Locations \in Seq(Location)
    BY ClientSyncAssumption
  <2>2. \A k \in DOMAIN Locations : Locations[k] \in Object
    BY <2>1, ObjectType
  <2> QED
    BY <2>1, <2>2 DEF Location
<1>2. ItemLists \in Seq(Seq(Item)) /\ SceneLists \in Seq(Seq(Scene))
  BY ClientSyncAssumption
<1>3. /\ Len(ItemLists) \in Nat /\ DOMAIN ItemLists = 1..Len(ItemLists)
      /\ \A i \in DOMAIN ItemLists : ItemLists[i] \in Seq(Item)
      /\ Len(SceneLists) \in Nat /\ DOMAIN SceneLists = 1..Len(SceneLists)
      /\ \A i \in DOMAIN SceneLists : SceneLists[i] \in Seq(Scene)
  BY <1>2
<1>4. ASSUME NEW list \in Seq(Item)
      PROVE  /\ Len(list) \in Nat /\ DOMAIN list = 1..Len(list)
             /\ \A k \in DOMAIN list : list[k] \in Item
  OBVIOUS
<1> QED
  BY <1>1, <1>3, <1>4

\* A transaction begins with a list that has a changed object.
LEMMA FirstChangedType ==
  ASSUME marked \cap Scene # {}
  PROVE  FirstChanged \in DOMAIN SceneLists
<1> DEFINE C == {i \in DOMAIN SceneLists : Marked(SceneLists[i]) # <<>>}
<1>1. C # {}
  <2>1. PICK o \in Scene : o \in marked
    OBVIOUS
  <2>2. PICK i \in DOMAIN SceneLists : o \in Elements(SceneLists[i])
    BY DEF Scene
  <2>3. SceneLists[i] \in Seq(Scene)
    BY ListType
  <2>4. Marked(SceneLists[i]) # <<>>
    BY <2>1, <2>2, <2>3, MarkedProps
  <2> QED
    BY <2>2, <2>4
<1>2. C \in SUBSET Nat
  BY ListType
<1>3. PICK i \in C : \A j \in C : i <= j
  <2> HIDE DEF C
  <2> QED
    BY <1>1, <1>2, LeastNumber
<1>4. \A j \in 1 .. i - 1 : j \in DOMAIN SceneLists /\ ~(i <= j)
  <2>1. i \in 1..Len(SceneLists) /\ Len(SceneLists) \in Nat /\ DOMAIN SceneLists = 1..Len(SceneLists)
    BY ListType
  <2> QED
    BY <2>1
<1>5. \A j \in 1 .. i - 1 : Marked(SceneLists[j]) = <<>>
  BY <1>3, <1>4
<1>6. \E k \in DOMAIN SceneLists :
        /\ Marked(SceneLists[k]) # <<>>
        /\ \A j \in 1 .. k - 1 : Marked(SceneLists[j]) = <<>>
  BY <1>3, <1>5
<1> QED
  BY <1>6 DEF FirstChanged

----------------------------------------------------------------------------
(* Types *)

LEMMA GoProps ==
  ASSUME pc \in [Thread -> Pc], NEW t \in Thread, NEW from, NEW to \in Pc, Go(t, from, to)
  PROVE  /\ pc[t] = from /\ pc' \in [Thread -> Pc] /\ pc'[t] = to
         /\ \A u \in Thread : u # t => pc'[u] = pc[u]
BY DEF Go

LEMMA ThreadType == Client \in Thread /\ \A w \in Writer : w \in Thread /\ w # Client
BY ClientSyncAssumption DEF Thread

LEMMA ChangedType ==
  ASSUME value \in [Object -> Nat], changes \in Nat, NEW o \in Object, Changed(o)
  PROVE  /\ value' \in [Object -> Nat] /\ changes' \in Nat
         /\ \A x \in Object : value[x] <= value'[x]
<1>1. value' = [value EXCEPT ![o] = @ + 1] /\ changes' = changes + 1
  BY DEF Changed
<1>2. \A x \in Object : value[x] \in Nat /\ value'[x] \in Nat /\ value[x] <= value'[x]
  BY <1>1
<1> QED
  BY <1>1, <1>2

LEMMA SendType ==
  ASSUME down \in Seq(Packs), NEW p \in Packs, Send(p)
  PROVE  down' \in Seq(Packs) /\ down' # <<>>
BY DEF Send

\* A pack of locations leaves the array.
LEMMA PopProps ==
  ASSUME TypeOK, NEW t \in Thread, PopLocations(t)
  PROVE  \E popped \in Seq(Object) :
           /\ Elements(popped) \subseteq Location
           /\ popped = <<>> => Location \cap marked = {}
           /\ marked' = marked \ Elements(popped)
           /\ pack' = [pack EXCEPT ![t] = Entries(popped)] /\ pack' \in [Thread -> Packs]
           /\ pc[t] = "locations" /\ pc' \in [Thread -> Pc]
           /\ \A u \in Thread : u # t => pc'[u] = pc[u]
           /\ pc'[t] = IF popped # <<>> THEN "sendloc"
                       ELSE IF t = Client THEN "items" ELSE "wait"
           /\ at' = IF t = Client THEN <<1, 1>> ELSE at
<1> DEFINE popped == Take(Marked(Locations), PackMax)
           to == IF popped # <<>> THEN "sendloc" ELSE IF t = Client THEN "items" ELSE "wait"
<1>1. Marked(Locations) \in Seq(Object) /\ Elements(Marked(Locations)) = Location \cap marked
      /\ (Marked(Locations) = <<>> <=> Location \cap marked = {})
  BY ListType, MarkedProps
<1>2. PackMax \in Int /\ PackMax >= 1
  BY ClientSyncAssumption
<1>3. /\ popped \in Seq(Object) /\ Elements(popped) \subseteq Location
      /\ popped = <<>> => Location \cap marked = {}
  BY <1>1, <1>2, TakeProps
<1>4. /\ Go(t, "locations", to) /\ marked' = marked \ Elements(popped)
      /\ pack' = [pack EXCEPT ![t] = Entries(popped)] /\ at' = IF t = Client THEN <<1, 1>> ELSE at
  BY DEF PopLocations
<1> HIDE DEF popped
<1>5. to \in Pc
  BY DEF Pc
<1>6. /\ pc[t] = "locations" /\ pc' \in [Thread -> Pc] /\ pc'[t] = to
      /\ \A u \in Thread : u # t => pc'[u] = pc[u]
  <2>1. pc \in [Thread -> Pc]
    BY DEF TypeOK
  <2> HIDE DEF to
  <2> QED
    BY <1>4, <1>5, <2>1, GoProps
<1>7. pack' \in [Thread -> Packs]
  <2>1. Entries(popped) \in Packs /\ pack \in [Thread -> Packs]
    BY <1>3, EntriesType DEF TypeOK, Packs
  <2> QED
    BY <1>4, <2>1
<1> QED
  BY <1>3, <1>4, <1>6, <1>7

\* A transaction collects the changed objects of one list behind what its pack
\* has, if there is a pack.
LEMMA UpdateProps ==
  ASSUME TypeOK, NEW t \in Thread, UpdateScenes(t)
  PROVE  /\ pc[t] = "scenes" /\ pc' = [pc EXCEPT ![t] = "ending"] /\ started' \in BOOLEAN
         /\ \E added \in Seq(Object) :
              /\ Elements(added) \subseteq Scene /\ marked' = marked \ Elements(added)
              /\ \/ upack' = None
                 \/ \E p \in Packs :
                      /\ p = <<>> \/ (upack # None /\ p = upack.items)
                      /\ upack' \in UPack /\ upack'.items = p \o Entries(added)
<1> DEFINE begins == ~started /\ marked \cap Scene # {}
           open   == IF begins THEN [list |-> FirstChanged, items |-> <<>>] ELSE upack
           added  == IF open = None \/ ~(started \/ begins) THEN <<>>
                     ELSE Take(Marked(SceneLists[open.list]), PackMax - Len(open.items))
<1>1. /\ Go(t, "scenes", "ending") /\ started' = (started \/ begins)
      /\ upack' = IF open = None THEN None ELSE [open EXCEPT !.items = @ \o Entries(added)]
      /\ marked' = marked \ Elements(added)
  BY DEF UpdateScenes
<1>2. started' \in BOOLEAN
  BY <1>1 DEF TypeOK
<1>3. \/ open = None
      \/ open \in UPack /\ (open.items = <<>> \/ (upack # None /\ open.items = upack.items))
  <2>1. CASE begins
    <3>1. FirstChanged \in DOMAIN SceneLists /\ <<>> \in Packs
      BY <2>1, FirstChangedType DEF Packs
    <3>2. [list |-> FirstChanged, items |-> <<>>] \in UPack
      BY <3>1 DEF UPack
    <3> QED
      BY <2>1, <3>2
  <2>2. CASE ~begins
    <3>1. open = upack
      BY <2>2
    <3>2. upack = None \/ upack \in UPack
      BY DEF TypeOK, UPack, Packs
    <3> HIDE DEF open
    <3> QED
      BY <3>1, <3>2
  <2> QED
    BY <2>1, <2>2
<1> HIDE DEF begins, open
<1>4. added \in Seq(Object) /\ Elements(added) \subseteq Scene
  <2>1. CASE open = None \/ ~(started \/ begins)
    <3>1. added = <<>>
      BY <2>1
    <3> HIDE DEF added
    <3> QED
      BY <3>1 DEF Elements
  <2>2. CASE ~(open = None \/ ~(started \/ begins))
    <3>1. open.list \in DOMAIN SceneLists /\ open.items \in Packs
      BY <1>3, <2>2 DEF UPack
    <3>2. SceneLists[open.list] \in Seq(Scene)
      BY <3>1, ListType
    <3>3. PackMax - Len(open.items) \in Int
      <4>1. PackMax \in Int /\ Len(open.items) \in Nat
        BY <3>1, ClientSyncAssumption DEF Packs
      <4> QED
        BY <4>1
    <3> DEFINE m == Marked(SceneLists[open.list])
               n == PackMax - Len(open.items)
    <3>4. m \in Seq(Scene)
      BY <3>2, MarkedProps
    <3>5. added = Take(m, n)
      BY <2>2
    <3> HIDE DEF m, n, added
    <3>6. added \in Seq(Scene)
      BY <3>3, <3>4, <3>5, TakeProps DEF n
    <3>7. Elements(added) \subseteq Scene
      BY <3>6 DEF Elements
    <3>8. \A k \in DOMAIN added : added[k] \in Object
      BY <3>6, ObjectType
    <3> QED
      BY <3>6, <3>7, <3>8
  <2> QED
    BY <2>1, <2>2
<1> HIDE DEF added
<1>5. Entries(added) \in Packs
  BY <1>4, EntriesType DEF TypeOK
<1>6. CASE open # None
  <2> DEFINE items == open.items \o Entries(added)
  <2>1. open \in UPack /\ open.items \in Packs
    BY <1>3, <1>6 DEF UPack
  <2>2. items \in Packs
    BY <1>5, <2>1 DEF Packs
  <2>3. upack' = [open EXCEPT !.items = items]
    BY <1>1, <1>6
  <2> HIDE DEF items
  <2>4. upack' \in UPack /\ upack'.items = items
    BY <2>1, <2>2, <2>3 DEF UPack
  <2>5. open.items = <<>> \/ (upack # None /\ open.items = upack.items)
    BY <1>3, <1>6
  <2> QED
    BY <1>1, <1>2, <1>4, <2>1, <2>4, <2>5 DEF Go, items
<1>7. CASE open = None
  BY <1>1, <1>2, <1>4, <1>7 DEF Go
<1> QED
  BY <1>6, <1>7

\* The number a pack tells of o: the one of its last entry, if it has one.
Lasts(p, o) ==
  {k \in DOMAIN p : o \in DOMAIN p[k] /\ \A j \in DOMAIN p : o \in DOMAIN p[j] => j <= k}
Newest(p, o) == {p[k][o] : k \in Lasts(p, o)}

LEMMA LearnProps ==
  ASSUME known \in [Object -> Nat \union {None}], NEW p \in Packs
  PROVE  /\ Learn(p) \in [Object -> Nat \union {None}]
         /\ \A o \in Object :
              \/ Newest(p, o) = {} /\ Learn(p)[o] = known[o]
              \/ Learn(p)[o] \in Nat /\ Newest(p, o) = {Learn(p)[o]}
<1> DEFINE own(o) == {k \in DOMAIN p : o \in DOMAIN p[k]}
           last(o) == CHOOSE k \in own(o) : \A j \in own(o) : j <= k
<1>1. Learn(p) = [o \in Object |-> IF own(o) = {} THEN known[o] ELSE p[last(o)][o]]
  BY DEF Learn
<1>2. Len(p) \in Nat /\ DOMAIN p = 1..Len(p) /\ \A k \in 1..Len(p) : p[k] \in EntryOf
  BY DEF Packs
<1>3. ASSUME NEW o \in Object
      PROVE  \/ Newest(p, o) = {} /\ Learn(p)[o] = known[o]
             \/ Learn(p)[o] \in Nat /\ Newest(p, o) = {Learn(p)[o]}
  <2>1. CASE own(o) = {}
    BY <1>1, <2>1 DEF Newest, Lasts
  <2>2. CASE own(o) # {}
    <3>1. own(o) \in SUBSET Nat /\ \A k \in own(o) : k <= Len(p)
      BY <1>2
    <3>2. \E k \in own(o) : \A j \in own(o) : j <= k
      <4> HIDE DEF own
      <4> QED
        BY <1>2, <2>2, <3>1, GreatestNumber
    <3>3. last(o) \in own(o) /\ \A j \in own(o) : j <= last(o)
      BY <3>2
    <3>4. Learn(p)[o] = p[last(o)][o]
      BY <1>1, <2>2
    <3> HIDE DEF last
    <3>5. \A k : k \in Lasts(p, o) <=> k \in own(o) /\ \A j \in own(o) : j <= k
      BY DEF Lasts
    <3>6. last(o) \in DOMAIN p /\ o \in DOMAIN p[last(o)]
      BY <3>3
    <3> HIDE DEF own
    <3>7. \A k \in Lasts(p, o) : k = last(o)
      <4>1. \A k \in Lasts(p, o) : k \in Nat /\ last(o) \in Nat /\ k <= last(o) /\ last(o) <= k
        BY <3>1, <3>3, <3>5
      <4> QED
        BY <4>1
    <3>8. last(o) \in Lasts(p, o)
      BY <3>3, <3>5
    <3>9. Newest(p, o) = {p[last(o)][o]}
      BY <3>7, <3>8 DEF Newest
    <3>10. p[last(o)][o] \in Nat
      BY <1>2, <3>6, EntryNumber
    <3> QED
      BY <3>4, <3>9, <3>10
  <2> QED
    BY <2>1, <2>2
<1>4. \A o \in Object : Learn(p)[o] \in Nat \union {None}
  BY <1>3
<1> HIDE DEF own, last
<1>5. Learn(p) \in [Object -> Nat \union {None}]
  BY <1>1, <1>4
<1> QED
  BY <1>3, <1>5

LEMMA NextType == TypeOK /\ [Next]_vars => TypeOK'
<1> SUFFICES ASSUME TypeOK, [Next]_vars PROVE TypeOK'
  OBVIOUS
<1> USE DEF svars, nvars
<1>0. /\ value \in [Object -> Nat] /\ changes \in Nat /\ marked \subseteq Object
      /\ need \in BOOLEAN /\ pc \in [Thread -> Pc] /\ wobj \in [Writer -> Object \union {None}]
      /\ at \in Nat \X Nat /\ pack \in [Thread -> Packs]
      /\ (upack = None \/ upack \in UPack)
      /\ started \in BOOLEAN /\ down \in Seq(Packs) /\ up \in Nat
      /\ known \in [Object -> Nat \union {None}]
  BY DEF TypeOK, Packs, UPack
<1>p. /\ \A s \in {"wait", "mark", "cover", "need", "locations", "sendloc", "items", "unmark",
                    "send", "scenes", "ending", "drop", "end"} : s \in Pc
      /\ <<>> \in Packs
  BY DEF Pc, Packs
<1>1. ASSUME NEW w \in Writer, NEW o \in Item, ChangeItem(w, o) PROVE TypeOK'
  <2>1. w \in Thread /\ o \in Object
    BY ThreadType, ObjectType
  <2>2. value' \in [Object -> Nat] /\ changes' \in Nat
    BY <1>0, <1>1, <2>1, ChangedType DEF ChangeItem
  <2>3. pc' \in [Thread -> Pc]
    BY <1>0, <1>p, <1>1, <2>1, GoProps DEF ChangeItem
  <2> QED
    BY <1>0, <1>1, <2>1, <2>2, <2>3 DEF ChangeItem, TypeOK, Packs, UPack
<1>2. ASSUME NEW w \in Writer, MarkItem(w) PROVE TypeOK'
  <2>1. pc' \in [Thread -> Pc]
    BY <1>0, <1>p, <1>2, ThreadType, GoProps DEF MarkItem
  <2>2. marked' \subseteq Object
    BY <1>0, <1>2, ObjectType DEF MarkItem
  <2> QED
    BY <1>0, <1>2, <2>1, <2>2 DEF MarkItem, TypeOK, Packs, UPack
<1>3. ASSUME NEW w \in Writer, CoverItem(w) PROVE TypeOK'
  <2>1. pc' \in [Thread -> Pc]
    BY <1>0, <1>p, <1>3, ThreadType, GoProps DEF CoverItem
  <2>2. marked' \subseteq Object /\ wobj' \in [Writer -> Object \union {None}]
    BY <1>0, <1>3 DEF CoverItem
  <2> QED
    BY <1>0, <1>3, <2>1, <2>2 DEF CoverItem, TypeOK, Packs, UPack
<1>4. ASSUME NEW w \in Writer, remote_update_lists(w) PROVE TypeOK'
  <2>1. pc' \in [Thread -> Pc]
    BY <1>0, <1>p, <1>4, ThreadType, GoProps DEF remote_update_lists
  <2> QED
    BY <1>0, <1>4, <2>1 DEF remote_update_lists, TypeOK, Packs, UPack
<1>5. ASSUME NEW w \in Writer, NEW o \in Location, AddLocation(w, o) PROVE TypeOK'
  <2>1. w \in Thread /\ o \in Object
    BY ThreadType, ObjectType
  <2>2. value' \in [Object -> Nat] /\ changes' \in Nat
    BY <1>0, <1>5, <2>1, ChangedType DEF AddLocation
  <2>3. pc' \in [Thread -> Pc]
    BY <1>0, <1>p, <1>5, <2>1, GoProps DEF AddLocation
  <2> QED
    BY <1>0, <1>5, <2>1, <2>2, <2>3 DEF AddLocation, TypeOK, Packs, UPack
<1>6. ASSUME NEW w \in Writer, NEW o \in Location, FindLocation(w, o) PROVE TypeOK'
  <2>1. w \in Thread /\ o \in Object
    BY ThreadType, ObjectType
  <2>2. pc' \in [Thread -> Pc]
    BY <1>0, <1>p, <1>6, <2>1, GoProps DEF FindLocation
  <2> QED
    BY <1>0, <1>6, <2>1, <2>2 DEF FindLocation, TypeOK, Packs, UPack
<1>7. ASSUME NEW w \in Writer, SetCaption(w) PROVE TypeOK'
  <2>1. w \in Thread /\ wobj[w] \in Object
    BY <1>7, ThreadType, ObjectType DEF SetCaption
  <2>2. value' \in [Object -> Nat] /\ changes' \in Nat
    BY <1>0, <1>7, <2>1, ChangedType DEF SetCaption
  <2>3. pc' \in [Thread -> Pc]
    BY <1>0, <1>p, <1>7, <2>1, GoProps DEF SetCaption
  <2> QED
    BY <1>0, <1>7, <2>1, <2>2, <2>3 DEF SetCaption, TypeOK, Packs, UPack
<1>8. ASSUME NEW w \in Writer, NEW o \in Scene, ChangeScene(w, o) PROVE TypeOK'
  <2>1. w \in Thread /\ o \in Object
    BY ThreadType, ObjectType
  <2>2. value' \in [Object -> Nat] /\ changes' \in Nat
    BY <1>0, <1>8, <2>1, ChangedType DEF ChangeScene
  <2>3. pc' \in [Thread -> Pc]
    BY <1>0, <1>p, <1>8, <2>1, GoProps DEF ChangeScene
  <2> QED
    BY <1>0, <1>8, <2>1, <2>2, <2>3 DEF ChangeScene, TypeOK, Packs, UPack
<1>9. ASSUME NEW o \in Expiring, ExpireItem(o) PROVE TypeOK'
  <2>1. o \in Object
    BY ClientSyncAssumption, ObjectType
  <2>2. value' \in [Object -> Nat] /\ changes' \in Nat
    BY <1>0, <1>9, <2>1, ChangedType DEF ExpireItem
  <2> QED
    BY <1>0, <1>9, <2>1, <2>2 DEF ExpireItem, TypeOK, Packs, UPack
<1>10. CASE Iterate
  <2>1. pc' \in [Thread -> Pc]
    BY <1>0, <1>p, <1>10, ThreadType, GoProps DEF Iterate
  <2> QED
    BY <1>0, <1>10, <2>1 DEF Iterate, TypeOK, Packs, UPack
<1>11. ASSUME NEW t \in Thread, PopLocations(t) PROVE TypeOK'
  <2>1. /\ marked' \subseteq marked /\ pack' \in [Thread -> Packs] /\ pc' \in [Thread -> Pc]
        /\ at' = IF t = Client THEN <<1, 1>> ELSE at
    BY <1>11, PopProps
  <2> QED
    BY <1>0, <1>11, <2>1 DEF PopLocations, TypeOK, Packs, UPack
<1>12. ASSUME NEW t \in Thread, SendLocations(t) PROVE TypeOK'
  <2>1. pc' \in [Thread -> Pc]
    BY <1>0, <1>p, <1>12, GoProps DEF SendLocations
  <2>2. down' \in Seq(Packs)
    BY <1>0, <1>12, SendType DEF SendLocations
  <2>3. pack' \in [Thread -> Packs]
    BY <1>0, <1>p, <1>12 DEF SendLocations
  <2> QED
    BY <1>0, <1>12, <2>1, <2>2, <2>3 DEF SendLocations, TypeOK, Packs, UPack
<1>13. CASE SkipItem
  <2>1. at' \in Nat \X Nat
    BY <1>0, <1>13 DEF SkipItem
  <2> QED
    BY <1>0, <1>13, <2>1 DEF SkipItem, TypeOK, Packs, UPack
<1>14. CASE CollectItem
  <2>1. pc' \in [Thread -> Pc]
    BY <1>0, <1>p, <1>14, ThreadType, GoProps DEF CollectItem
  <2>2. Entry(Here) \in EntryOf
    BY <1>0, <1>14, EntryType DEF CollectItem
  <2> DEFINE p == IF at[1] \in Single THEN <<>> ELSE pack[Client]
  <2>3. p \in Packs
    BY <1>0, <1>p, ThreadType
  <2>4. pack' = [pack EXCEPT ![Client] = Append(p, Entry(Here))]
    BY <1>14 DEF CollectItem
  <2> HIDE DEF p
  <2>5. pack' \in [Thread -> Packs]
    <3>1. Append(p, Entry(Here)) \in Packs
      BY <2>2, <2>3 DEF Packs
    <3> QED
      BY <1>0, <2>4, <3>1
  <2> QED
    BY <1>0, <1>14, <2>1, <2>5 DEF CollectItem, TypeOK, Packs, UPack
<1>15. CASE UnmarkItem
  <2>1. pc' \in [Thread -> Pc]
    BY <1>0, <1>p, <1>15, ThreadType, GoProps DEF UnmarkItem
  <2>2. at' \in Nat \X Nat
    BY <1>0, <1>15 DEF UnmarkItem
  <2> QED
    BY <1>0, <1>15, <2>1, <2>2 DEF UnmarkItem, TypeOK, Packs, UPack
<1>16. CASE EndOfList
  <2>1. pc' \in [Thread -> Pc]
    BY <1>0, <1>p, <1>16, ThreadType, GoProps DEF EndOfList
  <2>2. at' \in Nat \X Nat
    BY <1>0, <1>16 DEF EndOfList
  <2> QED
    BY <1>0, <1>16, <2>1, <2>2 DEF EndOfList, TypeOK, Packs, UPack
<1>17. CASE SendItems
  <2>1. pc' \in [Thread -> Pc]
    BY <1>0, <1>p, <1>17, ThreadType, GoProps DEF SendItems
  <2>2. down' \in Seq(Packs)
    BY <1>0, <1>17, ThreadType, SendType DEF SendItems
  <2>3. pack' \in [Thread -> Packs]
    BY <1>0, <1>p, <1>17 DEF SendItems
  <2> QED
    BY <1>0, <1>17, <2>1, <2>2, <2>3 DEF SendItems, TypeOK, Packs, UPack
<1>18. CASE ItemsDone
  <2>1. pc' \in [Thread -> Pc]
    BY <1>0, <1>p, <1>18, ThreadType, GoProps DEF ItemsDone
  <2> QED
    BY <1>0, <1>18, <2>1 DEF ItemsDone, TypeOK, Packs, UPack
<1>19. ASSUME NEW t \in Thread, UpdateScenes(t) PROVE TypeOK'
  <2>1. /\ pc' = [pc EXCEPT ![t] = "ending"] /\ started' \in BOOLEAN
        /\ marked' \subseteq marked /\ (upack' = None \/ upack' \in UPack)
    BY <1>19, UpdateProps
  <2>2. pc' \in [Thread -> Pc]
    BY <1>0, <1>p, <2>1
  <2> QED
    BY <1>0, <1>19, <2>1, <2>2 DEF UpdateScenes, TypeOK, Packs, UPack
<1>20. ASSUME NEW t \in Thread, EndTransaction(t) PROVE TypeOK'
  <2>1. pc' \in [Thread -> Pc]
    BY <1>0, <1>p, <1>20, GoProps DEF EndTransaction
  <2>2. down' \in Seq(Packs)
    BY <1>0, <1>20, SendType DEF EndTransaction, UPack
  <2> QED
    BY <1>0, <1>20, <2>1, <2>2 DEF EndTransaction, TypeOK, Packs, UPack
<1>21. ASSUME NEW t \in Thread, DropPack(t) \/ TransactionEnded(t) PROVE TypeOK'
  <2>1. pc' \in [Thread -> Pc]
    BY <1>0, <1>p, <1>21, GoProps DEF DropPack, TransactionEnded
  <2> QED
    BY <1>0, <1>21, <2>1 DEF DropPack, TransactionEnded, TypeOK, Packs, UPack
<1>22. CASE ReceivePack
  <2>1. Head(down) \in Packs /\ down' \in Seq(Packs)
    BY <1>0, <1>22 DEF ReceivePack
  <2>2. known' \in [Object -> Nat \union {None}]
    BY <1>0, <1>22, <2>1, LearnProps DEF ReceivePack
  <2> QED
    BY <1>0, <1>22, <2>1, <2>2 DEF ReceivePack, TypeOK, Packs, UPack
<1>23. CASE get_next
  BY <1>0, <1>23 DEF get_next, TypeOK, Packs, UPack
<1>24. CASE Rest \/ UNCHANGED vars
  BY <1>0, <1>24 DEF Rest, vars, TypeOK, Packs, UPack
<1> QED
  BY <1>1, <1>2, <1>3, <1>4, <1>5, <1>6, <1>7, <1>8, <1>9, <1>10, <1>11, <1>12, <1>13,
     <1>14, <1>15, <1>16, <1>17, <1>18, <1>19, <1>20, <1>21, <1>22, <1>23, <1>24, ThreadType
     DEF Next, Write, Finish, Loop, Work

LEMMA InitType == Init => TypeOK
<1> SUFFICES ASSUME Init PROVE TypeOK
  OBVIOUS
<1>1. \A t \in Thread : "wait" \in Pc /\ <<>> \in Seq(EntryOf)
  BY DEF Pc
<1>2. 0 \in Nat /\ 1 \in Nat /\ <<>> \in Seq(Seq(EntryOf))
  OBVIOUS
<1> QED
  BY <1>1, <1>2 DEF Init, TypeOK

\* Every variable keeps its type.
THEOREM TypeCorrect == Spec => []TypeOK
BY InitType, NextType, PTL DEF Spec

----------------------------------------------------------------------------
(* No mark is forgotten *)

\* The loop will run once more: it was told to, or a pack or a get_next call
\* is on its way.
Pending == need \/ down # <<>> \/ up > 0

AtLocations(t) == pc[t] \in {"locations", "sendloc"}
Marking(t) == pc[t] \in {"cover", "need"}

\* The loop has not passed o yet.
Ahead(o) ==
  \E i \in DOMAIN ItemLists : \E k \in DOMAIN ItemLists[i] :
    ItemLists[i][k] = o /\ (at[1] < i \/ (at[1] = i /\ at[2] <= k))

\* The loop is before the items, it has a pack to send, or o is ahead.
LoopSees(o) ==
  \/ AtLocations(Client)
  \/ pc[Client] \in {"items", "unmark", "send"} /\ pack[Client] # <<>>
  \/ pc[Client] \in {"items", "unmark"} /\ Ahead(o)

LocationSeen ==
  \A o \in Location \cap marked : Pending \/ \E t \in Thread : AtLocations(t)

ItemSeen ==
  \A o \in (Item \ Absent) \cap marked :
    Pending \/ (\E w \in Writer : Marking(w)) \/ LoopSees(o)

\* The loop does not reach the end of the lists with a pack.
LoopInv ==
  /\ pc[Client] = "unmark" => pack[Client] # <<>> /\ at[1] <= Len(ItemLists)
  /\ pc[Client] = "items" /\ at[1] > Len(ItemLists) => pack[Client] = <<>>

SeenInv == LocationSeen /\ ItemSeen /\ LoopInv

\* A step of thread t that keeps sight of the locations.
KeepsLocations(t) ==
  /\ \A u \in Thread : u # t => pc'[u] = pc[u]
  /\ Pending => Pending' \/ AtLocations(t)'
  /\ AtLocations(t) => AtLocations(t)' \/ Pending' \/ Location \cap marked' = {}
  /\ marked' \cap Location \subseteq marked \/ AtLocations(t)'

LEMMA LocationStep ==
  ASSUME LocationSeen, NEW t \in Thread, KeepsLocations(t)
  PROVE  LocationSeen'
<1> SUFFICES ASSUME NEW o \in Location, o \in marked', ~Pending', ~(\E u \in Thread : AtLocations(u)')
             PROVE  FALSE
  BY DEF LocationSeen
<1>1. ~AtLocations(t)' /\ o \in Location \cap marked /\ ~AtLocations(t) /\ ~Pending
  BY DEF KeepsLocations
<1>2. PICK u \in Thread : AtLocations(u)
  BY <1>1 DEF LocationSeen
<1>3. u # t
  BY <1>1, <1>2
<1> QED
  BY <1>2, <1>3 DEF KeepsLocations, AtLocations

\* A step of a writer leaves the loop alone and tells it of new marks.
WriterStep(w) ==
  /\ pc'[Client] = pc[Client] /\ pack'[Client] = pack[Client] /\ at' = at
  /\ KeepsLocations(w) /\ (Pending => Pending')
  /\ Marking(w) => Marking(w)' \/ Pending'
  /\ marked' \cap Item \subseteq marked \/ Marking(w)'

LEMMA WriterSeen ==
  ASSUME SeenInv, NEW w \in Writer, WriterStep(w)
  PROVE  SeenInv'
<1>1. LocationSeen'
  BY LocationStep, ThreadType DEF SeenInv, WriterStep
<1>2. LoopInv'
  BY DEF SeenInv, LoopInv, WriterStep
<1>3. ASSUME NEW o \in Item \ Absent, o \in marked', ~Pending', ~(\E v \in Writer : Marking(v)')
      PROVE  LoopSees(o)'
  <2>1. ~Marking(w)' /\ o \in marked /\ ~Marking(w) /\ ~Pending
    BY <1>3 DEF WriterStep
  <2>2. ~(\E v \in Writer : Marking(v))
    <3> SUFFICES ASSUME NEW v \in Writer, Marking(v) PROVE FALSE
      OBVIOUS
    <3>1. v # w
      BY <2>1
    <3> QED
      BY <1>3, <3>1, ThreadType DEF WriterStep, KeepsLocations, Marking
  <2>3. LoopSees(o)
    BY <2>1, <2>2 DEF SeenInv, ItemSeen
  <2> QED
    BY <2>3 DEF LoopSees, WriterStep, AtLocations, Ahead
<1>4. ItemSeen'
  BY <1>3 DEF ItemSeen
<1> QED
  BY <1>1, <1>2, <1>4 DEF SeenInv

LEMMA WriterSteps ==
  ASSUME TypeOK, NEW w \in Writer, Write(w) \/ Finish(w)
  PROVE  WriterStep(w)
<1> USE DEF svars, nvars
<1>0. /\ pc \in [Thread -> Pc] /\ pack \in [Thread -> Packs] /\ w \in Thread /\ w # Client
      /\ Client \in Thread /\ down \in Seq(Packs)
  BY ThreadType DEF TypeOK, Packs
<1>p. /\ \A s \in {"wait", "mark", "cover", "need", "locations", "sendloc", "items", "unmark",
                    "send", "scenes", "ending", "drop", "end"} : s \in Pc
      /\ Location \cap Item = {} /\ Location \cap Scene = {} /\ Item \cap Scene = {}
  BY ClientSyncAssumption DEF Pc
<1> DEFINE Moves(from, to) ==
      /\ pc[w] = from /\ pc'[w] = to /\ pc'[Client] = pc[Client]
      /\ \A u \in Thread : u # w => pc'[u] = pc[u]
<1>g. ASSUME NEW from \in Pc, NEW to \in Pc, Go(w, from, to) PROVE Moves(from, to)
  BY <1>0, <1>g, GoProps
<1> HIDE DEF Moves
<1>1. ASSUME NEW o \in Item, ChangeItem(w, o) PROVE WriterStep(w)
  <2>1. Moves("wait", "mark") /\ UNCHANGED <<marked, need, at, pack, down, up>>
    BY <1>p, <1>g, <1>1 DEF ChangeItem
  <2> QED
    BY <2>1 DEF WriterStep, KeepsLocations, Pending, AtLocations, Marking, Moves
<1>2. ASSUME NEW o \in Location, AddLocation(w, o) PROVE WriterStep(w)
  <2>1. /\ Moves("wait", "locations") /\ UNCHANGED <<need, at, pack, down, up>>
        /\ marked' = marked \union {o}
    BY <1>p, <1>g, <1>2 DEF AddLocation
  <2>2. marked' \cap Item \subseteq marked
    BY <1>p, <2>1
  <2> QED
    BY <2>1, <2>2 DEF WriterStep, KeepsLocations, Pending, AtLocations, Marking, Moves
<1>3. ASSUME NEW o \in Location, FindLocation(w, o) PROVE WriterStep(w)
  <2>1. Moves("wait", "mark") /\ UNCHANGED <<marked, need, at, pack, down, up>>
    BY <1>p, <1>g, <1>3 DEF FindLocation
  <2> QED
    BY <2>1 DEF WriterStep, KeepsLocations, Pending, AtLocations, Marking, Moves
<1>4. ASSUME NEW o \in Scene, ChangeScene(w, o) PROVE WriterStep(w)
  <2>1. /\ Moves("wait", "scenes") /\ UNCHANGED <<need, at, pack, down, up>>
        /\ marked' = marked \union {o}
    BY <1>p, <1>g, <1>4 DEF ChangeScene
  <2>2. marked' \cap Item \subseteq marked /\ marked' \cap Location \subseteq marked
    BY <1>p, <2>1
  <2> QED
    BY <2>1, <2>2 DEF WriterStep, KeepsLocations, Pending, AtLocations, Marking, Moves
<1>5. CASE MarkItem(w)
  <2>1. /\ Moves("mark", "cover") /\ UNCHANGED <<need, at, pack, down, up>>
        /\ marked' = marked \union {wobj[w]} /\ wobj[w] \in Item
    BY <1>p, <1>g, <1>5 DEF MarkItem
  <2>2. marked' \cap Location \subseteq marked
    BY <1>p, <2>1
  <2> QED
    BY <2>1, <2>2 DEF WriterStep, KeepsLocations, Pending, AtLocations, Marking, Moves
<1>6. CASE CoverItem(w)
  <2>1. /\ Moves("cover", "need") /\ UNCHANGED <<need, at, pack, down, up>>
        /\ marked' \subseteq marked
    BY <1>p, <1>g, <1>6 DEF CoverItem
  <2> QED
    BY <2>1 DEF WriterStep, KeepsLocations, Pending, AtLocations, Marking, Moves
<1>7. CASE SetCaption(w)
  <2>1. Moves("mark", "locations") /\ UNCHANGED <<marked, need, at, pack, down, up>>
    BY <1>p, <1>g, <1>7 DEF SetCaption
  <2> QED
    BY <2>1 DEF WriterStep, KeepsLocations, Pending, AtLocations, Marking, Moves
<1>8. CASE remote_update_lists(w)
  <2>1. /\ Moves("need", "wait") /\ UNCHANGED <<marked, at, pack, down, up>>
        /\ need'
    BY <1>p, <1>g, <1>8 DEF remote_update_lists
  <2> QED
    BY <2>1 DEF WriterStep, KeepsLocations, Pending, AtLocations, Marking, Moves
<1>9. CASE PopLocations(w)
  <2>1. PICK popped \in Seq(Object) :
           /\ Elements(popped) \subseteq Location
           /\ popped = <<>> => Location \cap marked = {}
           /\ marked' = marked \ Elements(popped)
           /\ pack' = [pack EXCEPT ![w] = Entries(popped)]
           /\ pc[w] = "locations"
           /\ \A u \in Thread : u # w => pc'[u] = pc[u]
           /\ pc'[w] = IF popped # <<>> THEN "sendloc"
                       ELSE IF w = Client THEN "items" ELSE "wait"
           /\ at' = IF w = Client THEN <<1, 1>> ELSE at
    BY <1>0, <1>9, PopProps
  <2>2. UNCHANGED <<need, down, up, at>> /\ pack'[Client] = pack[Client] /\ pc'[Client] = pc[Client]
    BY <1>0, <1>9, <2>1 DEF PopLocations
  <2>3. AtLocations(w)' \/ Location \cap marked' = {}
    BY <2>1 DEF AtLocations
  <2> QED
    BY <2>1, <2>2, <2>3 DEF WriterStep, KeepsLocations, Pending, Marking
<1>10. CASE SendLocations(w)
  <2>1. /\ Moves("sendloc", "wait") /\ UNCHANGED <<marked, need, at, up>>
        /\ pack' = [pack EXCEPT ![w] = <<>>] /\ Send(pack[w])
    BY <1>p, <1>g, <1>10 DEF SendLocations
  <2>2. down' # <<>>
    BY <1>0, <2>1, SendType
  <2>3. pack'[Client] = pack[Client]
    BY <1>0, <2>1
  <2> QED
    BY <2>1, <2>2, <2>3 DEF WriterStep, KeepsLocations, Pending, AtLocations, Marking, Moves
<1>11. CASE UpdateScenes(w)
  <2>1. marked' \subseteq marked
    BY <1>0, <1>11, UpdateProps
  <2>2. Moves("scenes", "ending") /\ UNCHANGED <<need, at, pack, down, up>>
    BY <1>p, <1>g, <1>11 DEF UpdateScenes
  <2> QED
    BY <2>1, <2>2 DEF WriterStep, KeepsLocations, Pending, AtLocations, Marking, Moves
<1>12. CASE EndTransaction(w)
  <2>1. /\ Moves("ending", "drop") \/ Moves("ending", "wait")
        /\ UNCHANGED <<marked, need, at, pack, up>>
    BY <1>p, <1>g, <1>12 DEF EndTransaction
  <2>2. down' # <<>> \/ down' = down
    <3>1. upack # None => upack.items \in Packs
      BY DEF TypeOK, Packs
    <3> QED
      BY <1>0, <1>12, <3>1, SendType DEF EndTransaction
  <2> QED
    BY <2>1, <2>2 DEF WriterStep, KeepsLocations, Pending, AtLocations, Marking, Moves
<1>13. CASE DropPack(w) \/ TransactionEnded(w)
  <2>1. /\ Moves("drop", "end") \/ Moves("end", "wait")
        /\ UNCHANGED <<marked, need, at, pack, down, up>>
    BY <1>p, <1>g, <1>13 DEF DropPack, TransactionEnded
  <2> QED
    BY <2>1 DEF WriterStep, KeepsLocations, Pending, AtLocations, Marking, Moves
<1> QED
  BY <1>1, <1>2, <1>3, <1>4, <1>5, <1>6, <1>7, <1>8, <1>9, <1>10, <1>11, <1>12, <1>13
     DEF Write, Finish, Work

\* A step of the loop is good when the loop will run once more, or when what it
\* saw it still sees.
LEMMA PendingSeen ==
  ASSUME Pending', LoopInv'
  PROVE  SeenInv'
BY DEF SeenInv, LocationSeen, ItemSeen

LEMMA ClientSeen ==
  ASSUME SeenInv, KeepsLocations(Client), LoopInv',
         \A o \in (Item \ Absent) \cap marked' :
           o \in marked /\ (Pending \/ LoopSees(o) => Pending' \/ LoopSees(o)')
  PROVE  SeenInv'
<1>1. LocationSeen'
  BY LocationStep, ThreadType DEF SeenInv
<1>2. \A w \in Writer : Marking(w) => Marking(w)'
  BY ThreadType DEF KeepsLocations, Marking
<1>3. ItemSeen'
  BY <1>2 DEF SeenInv, ItemSeen
<1> QED
  BY <1>1, <1>3 DEF SeenInv

\* An item with a mark that is not the one the loop is at stays ahead.
LEMMA StepAhead ==
  ASSUME at \in Nat \X Nat, at' = <<at[1], at[2] + 1>>, NEW o, Ahead(o), InList => o # Here
  PROVE  Ahead(o)'
<1>i. PICK i \in DOMAIN ItemLists : \E k \in DOMAIN ItemLists[i] :
        ItemLists[i][k] = o /\ (at[1] < i \/ (at[1] = i /\ at[2] <= k))
  BY DEF Ahead
<1>1. PICK k \in DOMAIN ItemLists[i] :
        ItemLists[i][k] = o /\ (at[1] < i \/ (at[1] = i /\ at[2] <= k))
  BY <1>i
<1>2. i \in 1..Len(ItemLists) /\ k \in 1..Len(ItemLists[i]) /\ Len(ItemLists) \in Nat /\ Len(ItemLists[i]) \in Nat
  BY <1>1, ListType
<1>3. at[1] \in Nat /\ at[2] \in Nat /\ at'[1] = at[1] /\ at'[2] = at[2] + 1
  OBVIOUS
<1>4. CASE at[1] < i
  BY <1>1, <1>3, <1>4 DEF Ahead
<1>5. CASE at[1] = i /\ at[2] <= k
  <2>1. at[2] # k
    <3> SUFFICES ASSUME at[2] = k PROVE FALSE
      OBVIOUS
    <3>1. InList
      BY <1>2, <1>5 DEF InList
    <3>2. Here = o
      BY <1>1, <1>5 DEF Here
    <3> QED
      BY <3>1, <3>2
  <2>2. at'[1] = i /\ at'[2] <= k
    BY <1>2, <1>3, <1>5, <2>1
  <2> QED
    BY <1>1, <2>2 DEF Ahead
<1> QED
  BY <1>1, <1>4, <1>5

LEMMA ClientSteps ==
  ASSUME TypeOK, SeenInv, Loop
  PROVE  SeenInv'
<1> USE DEF svars, nvars
<1>0. /\ pc \in [Thread -> Pc] /\ pack \in [Thread -> Packs] /\ Client \in Thread
      /\ down \in Seq(Packs) /\ up \in Nat /\ at \in Nat \X Nat /\ at[1] \in Nat /\ at[2] \in Nat
      /\ LoopInv
  BY ThreadType DEF TypeOK, Packs, SeenInv
<1>p. \A s \in {"wait", "mark", "cover", "need", "locations", "sendloc", "items", "unmark",
                "send", "scenes", "ending", "drop", "end"} : s \in Pc
  BY DEF Pc
<1> DEFINE Moves(from, to) ==
      /\ pc[Client] = from /\ pc'[Client] = to
      /\ \A u \in Thread : u # Client => pc'[u] = pc[u]
<1>g. ASSUME NEW from \in Pc, NEW to \in Pc, Go(Client, from, to) PROVE Moves(from, to)
  BY <1>0, <1>g, GoProps
<1> HIDE DEF Moves
<1>1. CASE Iterate
  <2>1. Moves("wait", "locations") /\ UNCHANGED <<marked, at, pack, down, up>>
    BY <1>p, <1>g, <1>1 DEF Iterate
  <2>2. AtLocations(Client)'
    BY <2>1 DEF AtLocations, Moves
  <2>3. KeepsLocations(Client)
    BY <2>1, <2>2 DEF KeepsLocations, Moves
  <2>4. LoopInv'
    BY <2>1 DEF LoopInv, Moves
  <2> QED
    BY <2>1, <2>2, <2>3, <2>4, ClientSeen DEF LoopSees
<1>2. CASE SkipItem
  <2>1. /\ pc[Client] = "items" /\ InList /\ at' = <<at[1], at[2] + 1>>
        /\ \/ Here \notin marked \/ Here \in Absent
           \/ at[1] \notin Single /\ Len(pack[Client]) >= PackMax
        /\ UNCHANGED <<marked, need, pc, pack, down, up>>
    BY <1>2 DEF SkipItem
  <2>2. KeepsLocations(Client)
    BY <2>1 DEF KeepsLocations, AtLocations, Pending
  <2>3. LoopInv'
    <3>1. at'[1] = at[1]
      BY <2>1
    <3> QED
      BY <1>0, <2>1, <3>1 DEF LoopInv
  <2>4. pack[Client] = <<>> => Here \notin marked \/ Here \in Absent
    <3>1. PackMax >= 1 /\ PackMax \in Nat
      BY ClientSyncAssumption
    <3>2. Len(pack[Client]) >= PackMax => pack[Client] # <<>>
      <4>1. Len(<<>>) = 0
        OBVIOUS
      <4> QED
        BY <3>1, <4>1
    <3> QED
      BY <2>1, <3>2
  <2>5. ASSUME NEW o \in (Item \ Absent) \cap marked', LoopSees(o)
        PROVE  LoopSees(o)'
    <3>1. CASE pack[Client] # <<>>
      BY <2>1, <3>1 DEF LoopSees
    <3>2. CASE pack[Client] = <<>>
      <4>1. Ahead(o) /\ o # Here
        BY <2>1, <2>4, <2>5, <3>2 DEF LoopSees, AtLocations
      <4>2. Ahead(o)'
        BY <1>0, <2>1, <4>1, StepAhead
      <4> QED
        BY <2>1, <4>2 DEF LoopSees
    <3> QED
      BY <3>1, <3>2
  <2>6. Pending' <=> Pending
    BY <2>1 DEF Pending
  <2> QED
    BY <2>1, <2>2, <2>3, <2>5, <2>6, ClientSeen
<1>3. CASE CollectItem
  <2>1. Moves("items", "unmark") /\ UNCHANGED <<marked, need, at, down, up>> /\ InList
    BY <1>p, <1>g, <1>3 DEF CollectItem
  <2>2. pack'[Client] # <<>>
    <3> DEFINE p == IF at[1] \in Single THEN <<>> ELSE pack[Client]
    <3>1. pack'[Client] = Append(p, Entry(Here))
      BY <1>0, <1>3 DEF CollectItem
    <3>2. p \in Packs
      BY <1>0 DEF Packs
    <3>3. Entry(Here) \in EntryOf
      BY <1>3, EntryType DEF CollectItem, TypeOK
    <3> HIDE DEF p
    <3> QED
      BY <3>1, <3>2, <3>3 DEF Packs
  <2>3. KeepsLocations(Client)
    BY <2>1 DEF KeepsLocations, AtLocations, Pending, Moves
  <2>4. LoopInv'
    BY <2>1, <2>2 DEF LoopInv, Moves, InList
  <2>5. \A o : LoopSees(o)'
    BY <2>1, <2>2 DEF LoopSees, Moves
  <2> QED
    BY <2>1, <2>3, <2>4, <2>5, ClientSeen
<1>4. CASE UnmarkItem
  <2>1. /\ Moves("unmark", "items") /\ UNCHANGED <<need, pack, down, up>>
        /\ marked' \subseteq marked /\ at' = <<at[1], at[2] + 1>>
    BY <1>p, <1>g, <1>4 DEF UnmarkItem
  <2>2. pack[Client] # <<>> /\ at[1] <= Len(ItemLists)
    BY <1>0, <2>1 DEF LoopInv, Moves
  <2>3. KeepsLocations(Client)
    BY <2>1 DEF KeepsLocations, AtLocations, Pending, Moves
  <2>4. LoopInv'
    <3>1. at'[1] = at[1]
      BY <2>1
    <3>2. ~(at'[1] > Len(ItemLists))
      BY <1>0, <2>2, <3>1, ListType
    <3> QED
      BY <2>1, <3>2 DEF LoopInv, Moves
  <2>5. \A o : LoopSees(o)'
    BY <2>1, <2>2 DEF LoopSees, Moves
  <2> QED
    BY <2>1, <2>3, <2>4, <2>5, ClientSeen
<1>5. CASE EndOfList /\ pack[Client] # <<>>
  <2>1. Moves("items", "send") /\ UNCHANGED <<marked, need, at, pack, down, up>>
    BY <1>p, <1>g, <1>5 DEF EndOfList
  <2>2. KeepsLocations(Client)
    BY <2>1 DEF KeepsLocations, AtLocations, Pending, Moves
  <2>3. LoopInv' /\ \A o : LoopSees(o)'
    BY <1>5, <2>1 DEF LoopInv, LoopSees, Moves
  <2> QED
    BY <2>1, <2>2, <2>3, ClientSeen
<1>6. CASE EndOfList /\ pack[Client] = <<>>
  <2>1. /\ pc[Client] = "items" /\ UNCHANGED <<marked, need, pc, pack, down, up>>
        /\ at' = <<at[1] + 1, 1>> /\ at[1] <= Len(ItemLists) /\ at[2] > Len(ItemLists[at[1]])
    BY <1>6 DEF EndOfList
  <2>2. KeepsLocations(Client)
    BY <2>1 DEF KeepsLocations, AtLocations, Pending
  <2>3. LoopInv'
    BY <1>6, <2>1 DEF LoopInv
  <2>4. ASSUME NEW o, LoopSees(o) PROVE LoopSees(o)'
    <3>1. Ahead(o)
      BY <1>6, <2>1, <2>4 DEF LoopSees, AtLocations
    <3>i. PICK i \in DOMAIN ItemLists : \E k \in DOMAIN ItemLists[i] :
            ItemLists[i][k] = o /\ (at[1] < i \/ (at[1] = i /\ at[2] <= k))
      BY <3>1 DEF Ahead
    <3>2. PICK k \in DOMAIN ItemLists[i] :
            ItemLists[i][k] = o /\ (at[1] < i \/ (at[1] = i /\ at[2] <= k))
      BY <3>i
    <3>3. /\ i \in 1..Len(ItemLists) /\ k \in 1..Len(ItemLists[i]) /\ Len(ItemLists) \in Nat
          /\ Len(ItemLists[i]) \in Nat
      BY <3>2, ListType
    <3>4. at[1] < i
      <4> SUFFICES ASSUME at[1] = i, at[2] <= k PROVE FALSE
        BY <3>2
      <4>1. at[2] > Len(ItemLists[i])
        BY <2>1
      <4> QED
        BY <1>0, <3>3, <4>1
    <3>5. at'[1] = at[1] + 1 /\ at'[2] = 1
      BY <2>1
    <3>6. at'[1] < i \/ (at'[1] = i /\ at'[2] <= k)
      BY <1>0, <3>3, <3>4, <3>5
    <3>7. Ahead(o)'
      BY <3>2, <3>6 DEF Ahead
    <3> QED
      BY <2>1, <3>7 DEF LoopSees
  <2>5. Pending' <=> Pending
    BY <2>1 DEF Pending
  <2> QED
    BY <2>1, <2>2, <2>3, <2>4, <2>5, ClientSeen
<1>7. CASE SendItems
  <2>1. Moves("send", "wait") /\ Send(pack[Client])
    BY <1>p, <1>g, <1>7 DEF SendItems
  <2>2. Pending'
    BY <1>0, <2>1, SendType DEF Pending
  <2>3. LoopInv'
    BY <2>1 DEF LoopInv, Moves
  <2> QED
    BY <2>2, <2>3, PendingSeen
<1>8. CASE ItemsDone
  <2>1. /\ Moves("items", "scenes") /\ UNCHANGED <<marked, need, at, pack, down, up>>
        /\ at[1] > Len(ItemLists)
    BY <1>p, <1>g, <1>8 DEF ItemsDone
  <2>2. KeepsLocations(Client)
    BY <2>1 DEF KeepsLocations, AtLocations, Pending, Moves
  <2>3. LoopInv'
    BY <2>1 DEF LoopInv, Moves
  <2>4. ASSUME NEW o PROVE ~LoopSees(o)
    <3>1. pack[Client] = <<>> /\ pc[Client] = "items"
      BY <1>0, <2>1 DEF LoopInv, Moves
    <3>2. ~Ahead(o)
      <4>1. \A i \in DOMAIN ItemLists : ~(at[1] < i) /\ at[1] # i
        BY <1>0, <2>1, ListType
      <4> QED
        BY <4>1 DEF Ahead
    <3> QED
      BY <3>1, <3>2 DEF LoopSees, AtLocations
  <2>5. Pending' <=> Pending
    BY <2>1 DEF Pending
  <2> QED
    BY <2>1, <2>2, <2>3, <2>4, <2>5, ClientSeen
<1>9. CASE PopLocations(Client)
  <2>1. PICK popped \in Seq(Object) :
           /\ popped = <<>> => Location \cap marked = {}
           /\ marked' = marked \ Elements(popped)
           /\ pack' = [pack EXCEPT ![Client] = Entries(popped)]
           /\ pc[Client] = "locations"
           /\ \A u \in Thread : u # Client => pc'[u] = pc[u]
           /\ pc'[Client] = IF popped # <<>> THEN "sendloc"
                            ELSE IF Client = Client THEN "items" ELSE "wait"
           /\ at' = IF Client = Client THEN <<1, 1>> ELSE at
    BY <1>0, <1>9, PopProps
  <2>2. UNCHANGED <<need, down, up>>
    BY <1>9 DEF PopLocations
  <2>3. KeepsLocations(Client)
    BY <2>1, <2>2 DEF KeepsLocations, AtLocations, Pending
  <2>4. CASE popped # <<>>
    <3>1. pc'[Client] = "sendloc"
      BY <2>1, <2>4
    <3>2. LoopInv' /\ \A o : LoopSees(o)'
      BY <3>1 DEF LoopInv, LoopSees, AtLocations
    <3> QED
      BY <2>1, <2>3, <3>2, ClientSeen
  <2>5. CASE popped = <<>>
    <3>1. pc'[Client] = "items" /\ at' = <<1, 1>>
      BY <2>1, <2>5
    <3>2. pack'[Client] = <<>>
      <4>1. Entries(popped) \in Packs /\ Len(Entries(popped)) = Len(popped)
        BY EntriesType DEF TypeOK
      <4>2. Len(popped) = 0
        BY <2>5
      <4>3. pack'[Client] = Entries(popped)
        BY <1>0, <2>1
      <4> QED
        BY <4>1, <4>2, <4>3 DEF Packs
    <3>3. LoopInv'
      BY <3>1, <3>2 DEF LoopInv
    <3>4. ASSUME NEW o \in Item PROVE LoopSees(o)'
      <4>1. PICK i \in DOMAIN ItemLists : o \in Elements(ItemLists[i])
        BY DEF Item
      <4>2. PICK k \in DOMAIN ItemLists[i] : ItemLists[i][k] = o
        BY <4>1 DEF Elements
      <4>3. i \in 1..Len(ItemLists) /\ k \in 1..Len(ItemLists[i]) /\ Len(ItemLists) \in Nat
            /\ Len(ItemLists[i]) \in Nat
        BY <4>1, <4>2, ListType
      <4>4. at'[1] = 1 /\ at'[2] = 1
        BY <3>1
      <4>5. at'[1] < i \/ (at'[1] = i /\ at'[2] <= k)
        BY <4>3, <4>4
      <4>6. Ahead(o)'
        BY <4>2, <4>5 DEF Ahead
      <4> QED
        BY <3>1, <4>6 DEF LoopSees
    <3> QED
      BY <2>1, <2>3, <3>3, <3>4, ClientSeen
  <2> QED
    BY <2>4, <2>5
<1>10. CASE SendLocations(Client)
  <2>1. Moves("sendloc", "wait") /\ Send(pack[Client])
    BY <1>p, <1>g, <1>10 DEF SendLocations
  <2>2. Pending'
    BY <1>0, <2>1, SendType DEF Pending
  <2>3. LoopInv'
    BY <2>1 DEF LoopInv, Moves
  <2> QED
    BY <2>2, <2>3, PendingSeen
<1>11. CASE UpdateScenes(Client) \/ EndTransaction(Client) \/ DropPack(Client) \/ TransactionEnded(Client)
  <2>1. /\ \/ Moves("scenes", "ending") \/ Moves("ending", "drop") \/ Moves("ending", "wait")
           \/ Moves("drop", "end") \/ Moves("end", "wait")
        /\ UNCHANGED <<need, at, pack, up>>
    BY <1>p, <1>g, <1>11 DEF UpdateScenes, EndTransaction, DropPack, TransactionEnded
  <2>2. marked' \subseteq marked
    <3>1. UpdateScenes(Client) => marked' \subseteq marked
      BY <1>0, UpdateProps
    <3> QED
      BY <1>11, <3>1 DEF EndTransaction, DropPack, TransactionEnded
  <2>3. down' # <<>> \/ down' = down
    <3>1. upack # None => upack.items \in Packs
      BY DEF TypeOK, Packs
    <3> QED
      BY <1>0, <1>11, <3>1, SendType DEF EndTransaction, UpdateScenes, DropPack, TransactionEnded
  <2>4. KeepsLocations(Client)
    BY <2>1, <2>2, <2>3 DEF KeepsLocations, AtLocations, Pending, Moves
  <2>5. LoopInv'
    BY <2>1 DEF LoopInv, Moves
  <2>6. \A o : ~LoopSees(o)
    BY <2>1 DEF LoopSees, AtLocations, Moves
  <2>7. Pending => Pending'
    BY <2>1, <2>3 DEF Pending
  <2> QED
    BY <2>2, <2>4, <2>5, <2>6, <2>7, ClientSeen
<1>12. CASE get_next
  <2>1. Pending' /\ UNCHANGED <<pc, at, pack>>
    BY <1>12 DEF get_next, Pending
  <2>2. LoopInv'
    BY <1>0, <2>1 DEF LoopInv
  <2> QED
    BY <2>1, <2>2, PendingSeen
<1> QED
  BY <1>1, <1>2, <1>3, <1>4, <1>5, <1>6, <1>7, <1>8, <1>9, <1>10, <1>11, <1>12 DEF Loop, Work

LEMMA NextSeen == TypeOK /\ SeenInv /\ [Next]_vars => SeenInv'
<1> SUFFICES ASSUME TypeOK, SeenInv, [Next]_vars PROVE SeenInv'
  OBVIOUS
<1> USE DEF svars, nvars
<1>1. ASSUME NEW w \in Writer, Write(w) \/ Finish(w) PROVE SeenInv'
  BY <1>1, WriterSteps, WriterSeen
<1>2. ASSUME NEW o \in Expiring, ExpireItem(o) PROVE SeenInv'
  <2>1. Pending' /\ UNCHANGED <<pc, at, pack>>
    BY <1>2 DEF ExpireItem, Pending
  <2>2. LoopInv'
    BY <2>1 DEF LoopInv, SeenInv
  <2> QED
    BY <2>1, <2>2, PendingSeen
<1>3. CASE Loop
  BY <1>3, ClientSteps
<1>4. CASE ReceivePack
  <2>1. Pending' /\ UNCHANGED <<pc, at, pack>>
    <3>1. up' = up + 1 /\ up \in Nat
      BY <1>4 DEF ReceivePack, TypeOK
    <3>2. up' > 0
      BY <3>1
    <3> QED
      BY <1>4, <3>2 DEF ReceivePack, Pending
  <2>2. LoopInv'
    BY <2>1 DEF LoopInv, SeenInv
  <2> QED
    BY <2>1, <2>2, PendingSeen
<1>5. CASE Rest \/ UNCHANGED vars
  <2>1. UNCHANGED <<need, down, up, pc, at, pack, marked>>
    BY <1>5 DEF Rest, vars
  <2> QED
    BY <2>1 DEF SeenInv, LocationSeen, ItemSeen, LoopInv, Pending, AtLocations, Marking, LoopSees, Ahead
<1> QED
  BY <1>1, <1>2, <1>3, <1>4, <1>5 DEF Next

\* When nothing is on its way and every thread is at rest, no location and no
\* item with data has a mark left, however the writers, the loop and the client
\* interleaved: none was missed by a loop that returned after one pack.
THEOREM NothingForgottenHolds == Spec => []NothingForgotten
<1>1. Init => SeenInv
  <2> SUFFICES ASSUME Init PROVE SeenInv
    OBVIOUS
  <2>1. need /\ pc[Client] = "wait"
    BY ThreadType DEF Init
  <2> QED
    BY <2>1 DEF SeenInv, LocationSeen, ItemSeen, LoopInv, Pending
<1>2. TypeOK /\ SeenInv => NothingForgotten
  <2> SUFFICES ASSUME TypeOK, SeenInv, Quiet, NEW o \in marked, o \notin Scene, o \notin Absent
               PROVE  FALSE
    BY DEF NothingForgotten
  <2>1. ~Pending
    BY DEF Quiet, Pending
  <2>2. \A t \in Thread : pc[t] = "wait"
    BY DEF Quiet
  <2>3. o \in Location \/ o \in Item
    BY ObjectType DEF TypeOK
  <2>4. o \notin Location
    BY <2>1, <2>2 DEF SeenInv, LocationSeen, AtLocations
  <2>5. o \notin Item
    BY <2>1, <2>2, ThreadType DEF SeenInv, ItemSeen, LoopSees, AtLocations, Marking
  <2> QED
    BY <2>3, <2>4, <2>5
<1> QED
  BY <1>1, <1>2, TypeCorrect, NextSeen, PTL DEF Spec

----------------------------------------------------------------------------
(* What a pack tells *)

LEMMA NewestType ==
  ASSUME NEW p \in Packs, NEW o
  PROVE  Newest(p, o) \in SUBSET Nat /\ \A x, y \in Newest(p, o) : x = y
<1>1. DOMAIN p = 1..Len(p) /\ Len(p) \in Nat /\ \A k \in DOMAIN p : p[k] \in EntryOf
  BY DEF Packs
<1>2. \A k \in Lasts(p, o) : k \in DOMAIN p /\ o \in DOMAIN p[k]
  BY DEF Lasts
<1>3. \A k \in Lasts(p, o) : p[k][o] \in Nat
  BY <1>1, <1>2, EntryNumber
<1>4. \A k, j \in Lasts(p, o) : k = j
  <2>1. \A k, j \in Lasts(p, o) : k \in Nat /\ j \in Nat /\ k <= j /\ j <= k
    BY <1>1 DEF Lasts
  <2> QED
    BY <2>1
<1> QED
  BY <1>3, <1>4 DEF Newest

\* A pack that got longer tells what it told, or the value of what was added.
LEMMA NewestLonger ==
  ASSUME NEW p \in Packs, NEW r \in Packs, NEW o, NEW v, Len(p) <= Len(r),
         \A k \in 1..Len(p) : r[k] = p[k],
         \A k \in 1..Len(r) : k > Len(p) /\ o \in DOMAIN r[k] => r[k][o] = v
  PROVE  Newest(r, o) \subseteq Newest(p, o) \union {v}
<1>1. /\ DOMAIN p = 1..Len(p) /\ Len(p) \in Nat /\ DOMAIN r = 1..Len(r) /\ Len(r) \in Nat
  BY DEF Packs
<1>2. ASSUME NEW k \in Lasts(r, o) PROVE r[k][o] \in Newest(p, o) \union {v}
  <2>1. k \in 1..Len(r) /\ o \in DOMAIN r[k] /\ \A j \in 1..Len(r) : o \in DOMAIN r[j] => j <= k
    BY <1>1, <1>2 DEF Lasts
  <2>2. CASE k > Len(p)
    BY <2>1, <2>2
  <2>3. CASE ~(k > Len(p))
    <3>1. k \in 1..Len(p)
      BY <1>1, <2>1, <2>3
    <3>2. \A j \in 1..Len(p) : j \in 1..Len(r)
      BY <1>1
    <3>3. k \in Lasts(p, o)
      BY <1>1, <2>1, <3>1, <3>2 DEF Lasts
    <3> QED
      BY <3>1, <3>3 DEF Newest
  <2> QED
    BY <2>2, <2>3
<1> QED
  BY <1>2 DEF Newest

\* The objects a pack tells of.
Keys(p) == UNION {DOMAIN p[k] : k \in DOMAIN p}

LEMMA NoKeyNoNewest ==
  ASSUME NEW p, NEW o, o \notin Keys(p)
  PROVE  Newest(p, o) = {}
BY DEF Newest, Lasts, Keys

LEMMA EmptyKeys == Keys(<<>>) = {} /\ \A o : Newest(<<>>, o) = {}
BY DEF Keys, Newest, Lasts

\* An entry, or entries, behind a pack.
LEMMA AppendProps ==
  ASSUME value \in [Object -> Nat], NEW p \in Packs, NEW x \in Object
  PROVE  /\ Append(p, Entry(x)) \in Packs
         /\ Keys(Append(p, Entry(x))) = Keys(p) \union DOMAIN Entry(x)
         /\ \A o : Newest(Append(p, Entry(x)), o) \subseteq Newest(p, o) \union {value[o]}
<1> DEFINE e == Entry(x)
           r == Append(p, e)
           n == Len(p)
<1>1. e \in EntryOf /\ \A y \in DOMAIN e : e[y] = value[y]
  BY EntryType
<1> HIDE DEF e
<1>2. /\ n \in Nat /\ DOMAIN p = 1..n /\ r \in Packs /\ Len(r) = n + 1 /\ DOMAIN r = 1..(n + 1)
      /\ r[n + 1] = e /\ \A k \in 1..n : r[k] = p[k]
  BY <1>1 DEF Packs
<1> HIDE DEF r, n
<1>3. \A k \in 1..(n + 1) : k \in 1..n \/ k = n + 1
  BY <1>2
<1>4. (\A k \in 1..n : k \in 1..(n + 1)) /\ n + 1 \in 1..(n + 1)
  BY <1>2
<1>5. Keys(r) = Keys(p) \union DOMAIN e
  BY <1>2, <1>3, <1>4 DEF Keys
<1>6. ASSUME NEW o PROVE Newest(r, o) \subseteq Newest(p, o) \union {value[o]}
  <2>1. n <= Len(r)
    BY <1>2
  <2>2. \A k \in 1..Len(r) : k > n => k = n + 1
    BY <1>2
  <2>3. \A k \in 1..Len(r) : k > n /\ o \in DOMAIN r[k] => r[k][o] = value[o]
    BY <1>1, <1>2, <2>2
  <2> QED
    BY <1>2, <2>1, <2>3, NewestLonger DEF n
<1> QED
  BY <1>2, <1>5, <1>6 DEF e, r

LEMMA ConcatProps ==
  ASSUME value \in [Object -> Nat], NEW p \in Packs, NEW list \in Seq(Object)
  PROVE  /\ p \o Entries(list) \in Packs
         /\ Keys(p \o Entries(list)) \subseteq Keys(p) \union Keys(Entries(list))
         /\ \A o : Newest(p \o Entries(list), o) \subseteq Newest(p, o) \union {value[o]}
<1> DEFINE e == Entries(list)
           r == p \o e
           n == Len(p)
           m == Len(e)
<1>1. e \in Packs /\ \A k \in DOMAIN e : list[k] \in Object /\ e[k] = Entry(list[k])
  BY EntriesType
<1> HIDE DEF e
<1>2. ASSUME NEW k \in DOMAIN e, NEW y \in DOMAIN e[k] PROVE e[k][y] = value[y]
  <2>1. list[k] \in Object /\ e[k] = Entry(list[k])
    BY <1>1
  <2> QED
    BY <2>1, EntryType
<1>3. /\ n \in Nat /\ m \in Nat /\ DOMAIN p = 1..n /\ DOMAIN e = 1..m /\ r \in Packs
      /\ Len(r) = n + m /\ DOMAIN r = 1..(n + m) /\ \A k \in 1..n : r[k] = p[k]
      /\ \A k \in 1..(n + m) : k > n => r[k] = e[k - n]
  BY <1>1 DEF Packs
<1> HIDE DEF r, n, m
<1>4. \A k \in 1..(n + m) : ~(k > n) => k \in 1..n
  BY <1>3
<1>5. \A k \in 1..(n + m) : k > n => k - n \in 1..m
  BY <1>3
<1>6. Keys(r) \subseteq Keys(p) \union Keys(e)
  <2>1. ASSUME NEW k \in 1..(n + m) PROVE DOMAIN r[k] \subseteq Keys(p) \union Keys(e)
    <3>1. CASE k > n
      <4>1. DOMAIN r[k] = DOMAIN e[k - n] /\ k - n \in DOMAIN e
        BY <1>3, <1>5, <3>1
      <4> QED
        BY <4>1 DEF Keys
    <3>2. CASE ~(k > n)
      <4>1. DOMAIN r[k] = DOMAIN p[k] /\ k \in DOMAIN p
        BY <1>3, <1>4, <3>2
      <4> QED
        BY <4>1 DEF Keys
    <3> QED
      BY <3>1, <3>2
  <2> QED
    BY <1>3, <2>1 DEF Keys
<1>7. ASSUME NEW o PROVE Newest(r, o) \subseteq Newest(p, o) \union {value[o]}
  <2>1. n <= Len(r)
    BY <1>3
  <2>2. \A k \in 1..Len(r) : k > n /\ o \in DOMAIN r[k] => r[k][o] = value[o]
    BY <1>2, <1>3, <1>5
  <2> QED
    BY <1>3, <2>1, <2>2, NewestLonger DEF n
<1> QED
  BY <1>3, <1>6, <1>7 DEF e, r

LEMMA EntriesKeys ==
  ASSUME value \in [Object -> Nat], NEW list \in Seq(Object), Elements(list) \cap Item = {}
  PROVE  Keys(Entries(list)) \subseteq Elements(list)
<1>1. /\ DOMAIN Entries(list) = DOMAIN list
      /\ \A k \in DOMAIN list : list[k] \in Object /\ Entries(list)[k] = Entry(list[k])
  BY EntriesType
<1>2. \A k \in DOMAIN list : list[k] \in Elements(list) /\ list[k] \notin Item
  BY DEF Elements
<1>3. \A k \in DOMAIN list : DOMAIN Entries(list)[k] = {list[k]}
  BY <1>1, <1>2, EntryType
<1> QED
  BY <1>1, <1>2, <1>3 DEF Keys

----------------------------------------------------------------------------
(* Who makes which packs *)

\* Writers send locations and scenes, the scenes' updater scenes only.
KeysInv ==
  /\ at[1] >= 1 /\ at[2] >= 1
  /\ \A t \in Thread : Keys(pack[t]) \cap Scene = {}
  /\ \A w \in Writer : Keys(pack[w]) \cap Item = {}
  /\ upack # None => Keys(upack.items) \cap Item = {}

LEMMA HereItem ==
  ASSUME TypeOK, KeysInv, InList
  PROVE  Here \in Item
<1>1. at[1] \in Nat /\ at[2] \in Nat /\ at[1] >= 1 /\ at[2] >= 1
  BY DEF TypeOK, KeysInv
<1>2. at[1] <= Len(ItemLists) /\ at[2] <= Len(ItemLists[at[1]])
  BY DEF InList
<1>3. at[1] \in DOMAIN ItemLists
  BY <1>1, <1>2, ListType
<1>4. Len(ItemLists[at[1]]) \in Nat /\ DOMAIN ItemLists[at[1]] = 1..Len(ItemLists[at[1]])
  BY <1>3, ListType
<1>5. at[2] \in DOMAIN ItemLists[at[1]]
  BY <1>1, <1>2, <1>4
<1> QED
  BY <1>3, <1>5, ListType DEF Here

LEMMA PacksKeys ==
  ASSUME KeysInv, TypeOK, NEW t \in Thread, NEW p, pack' = [pack EXCEPT ![t] = p],
         Keys(p) \cap Scene = {}, t \in Writer => Keys(p) \cap Item = {}, UNCHANGED upack,
         at'[1] >= 1, at'[2] >= 1
  PROVE  KeysInv'
<1>1. pack \in [Thread -> Packs]
  BY DEF TypeOK, Packs
<1>2. pack'[t] = p /\ \A u \in Thread : u # t => pack'[u] = pack[u]
  BY <1>1
<1> QED
  BY <1>2, ThreadType DEF KeysInv

\* The pack that was collected, as CollectItem does it.
LEMMA CollectProps ==
  ASSUME TypeOK, KeysInv, CollectItem
  PROVE  \E p \in Packs :
           /\ p = <<>> \/ p = pack[Client]
           /\ pack' = [pack EXCEPT ![Client] = Append(p, Entry(Here))] /\ Here \in Item
<1> DEFINE p == IF at[1] \in Single THEN <<>> ELSE pack[Client]
<1>1. pack' = [pack EXCEPT ![Client] = Append(p, Entry(Here))]
  BY DEF CollectItem
<1>2. p \in Packs
  BY ThreadType DEF TypeOK, Packs
<1>3. Here \in Item
  BY HereItem DEF CollectItem
<1> QED
  BY <1>1, <1>2, <1>3

LEMMA NextKeys == TypeOK /\ KeysInv /\ [Next]_vars => KeysInv'
<1> SUFFICES ASSUME TypeOK, KeysInv, [Next]_vars PROVE KeysInv'
  OBVIOUS
<1> USE DEF svars, nvars
<1>0. /\ value \in [Object -> Nat] /\ at[1] \in Nat /\ at[2] \in Nat /\ at[1] >= 1 /\ at[2] >= 1
      /\ Location \cap Item = {} /\ Location \cap Scene = {} /\ Item \cap Scene = {}
      /\ Client \notin Writer /\ Client \in Thread
  BY ClientSyncAssumption, ThreadType DEF TypeOK, KeysInv
<1>1. ASSUME UNCHANGED <<pack, upack>>, at'[1] >= 1, at'[2] >= 1 PROVE KeysInv'
  BY <1>1 DEF KeysInv
<1>2. ASSUME UNCHANGED <<pack, upack, at>> PROVE KeysInv'
  BY <1>0, <1>1, <1>2
<1>3. ASSUME NEW w \in Writer,
             \/ Write(w) \/ MarkItem(w) \/ CoverItem(w) \/ SetCaption(w) \/ remote_update_lists(w)
      PROVE  KeysInv'
  BY <1>2, <1>3 DEF Write, ChangeItem, AddLocation, FindLocation, ChangeScene, MarkItem,
                    CoverItem, SetCaption, remote_update_lists
<1>4. ASSUME NEW o \in Expiring, ExpireItem(o) PROVE KeysInv'
  BY <1>2, <1>4 DEF ExpireItem
<1>5. CASE Iterate \/ ItemsDone \/ get_next \/ ReceivePack
  BY <1>2, <1>5 DEF Iterate, ItemsDone, get_next, ReceivePack
<1>6. CASE SkipItem \/ UnmarkItem \/ EndOfList
  <2>1. UNCHANGED <<pack, upack>>
    BY <1>6 DEF SkipItem, UnmarkItem, EndOfList
  <2>2. at' = at \/ at' = <<at[1], at[2] + 1>> \/ at' = <<at[1] + 1, 1>>
    BY <1>6 DEF SkipItem, UnmarkItem, EndOfList
  <2>3. at'[1] >= 1 /\ at'[2] >= 1
    BY <1>0, <2>2
  <2> QED
    BY <1>1, <2>1, <2>3
<1>7. ASSUME NEW t \in Thread, PopLocations(t) PROVE KeysInv'
  <2>1. PICK popped \in Seq(Object) :
           /\ Elements(popped) \subseteq Location
           /\ pack' = [pack EXCEPT ![t] = Entries(popped)]
           /\ at' = IF t = Client THEN <<1, 1>> ELSE at
    BY <1>7, PopProps
  <2>2. Keys(Entries(popped)) \subseteq Location
    BY <1>0, <2>1, EntriesKeys
  <2>3. at'[1] >= 1 /\ at'[2] >= 1
    BY <1>0, <2>1
  <2>4. UNCHANGED upack
    BY <1>7 DEF PopLocations
  <2> QED
    BY <1>0, <2>1, <2>2, <2>3, <2>4, PacksKeys
<1>8. ASSUME NEW t \in Thread, SendLocations(t) \/ (t = Client /\ SendItems) PROVE KeysInv'
  <2>1. pack' = [pack EXCEPT ![t] = <<>>] /\ UNCHANGED <<upack, at>>
    BY <1>8 DEF SendLocations, SendItems
  <2> QED
    BY <1>0, <2>1, EmptyKeys, PacksKeys
<1>9. CASE CollectItem
  <2>1. PICK p \in Packs :
           /\ p = <<>> \/ p = pack[Client]
           /\ pack' = [pack EXCEPT ![Client] = Append(p, Entry(Here))] /\ Here \in Item
    BY <1>9, CollectProps
  <2>2. Keys(p) \cap Scene = {}
    BY <1>0, <2>1, EmptyKeys DEF KeysInv
  <2>3. DOMAIN Entry(Here) \subseteq Item
    BY <1>0, <2>1, ObjectType, EntryType
  <2>4. Keys(Append(p, Entry(Here))) = Keys(p) \union DOMAIN Entry(Here)
    BY <1>0, <2>1, ObjectType, AppendProps
  <2>5. Keys(Append(p, Entry(Here))) \cap Scene = {}
    BY <1>0, <2>2, <2>3, <2>4
  <2>6. UNCHANGED <<upack, at>>
    BY <1>9 DEF CollectItem
  <2> QED
    BY <1>0, <2>1, <2>5, <2>6, PacksKeys
<1>10. ASSUME NEW t \in Thread, UpdateScenes(t) PROVE KeysInv'
  <2>1. PICK added \in Seq(Object) :
           /\ Elements(added) \subseteq Scene
           /\ \/ upack' = None
              \/ \E p \in Packs :
                   /\ p = <<>> \/ (upack # None /\ p = upack.items)
                   /\ upack' \in UPack /\ upack'.items = p \o Entries(added)
    BY <1>10, UpdateProps
  <2>2. Keys(Entries(added)) \cap Item = {}
    BY <1>0, <2>1, EntriesKeys
  <2>3. ASSUME NEW p \in Packs, p = <<>> \/ (upack # None /\ p = upack.items)
        PROVE  Keys(p \o Entries(added)) \cap Item = {}
    <3>1. Keys(p) \cap Item = {}
      BY <2>3, EmptyKeys DEF KeysInv
    <3> QED
      BY <1>0, <2>2, <3>1, ConcatProps
  <2>4. upack' # None => Keys(upack'.items) \cap Item = {}
    BY <2>1, <2>3
  <2>5. UNCHANGED <<pack, at>>
    BY <1>10 DEF UpdateScenes
  <2> QED
    BY <2>4, <2>5 DEF KeysInv
<1>11. ASSUME NEW t \in Thread, DropPack(t) PROVE KeysInv'
  <2>1. upack' = None /\ UNCHANGED <<pack, at>>
    BY <1>11 DEF DropPack
  <2> QED
    BY <2>1 DEF KeysInv
<1>12. ASSUME NEW t \in Thread, EndTransaction(t) \/ TransactionEnded(t) PROVE KeysInv'
  BY <1>2, <1>12 DEF EndTransaction, TransactionEnded
<1>13. CASE Rest \/ UNCHANGED vars
  BY <1>2, <1>13 DEF Rest, vars
<1> QED
  BY <1>3, <1>4, <1>5, <1>6, <1>7, <1>8, <1>9, <1>10, <1>11, <1>12, <1>13, ThreadType
     DEF Next, Finish, Loop, Work

----------------------------------------------------------------------------
(* What the client knows, what is on its way, what is collected, what is true *)

\* For one object: K is what the client knows, d the packs on their way, q the
\* pack that is made, v the value.  Each tells no older value than the one
\* before it.
Chain(K, d, q, v, o) ==
  /\ \A x \in K :
       /\ x <= v
       /\ \A y \in Newest(q, o) : x <= y
       /\ \A i \in DOMAIN d : \A y \in Newest(d[i], o) : x <= y
  /\ \A i \in DOMAIN d : \A x \in Newest(d[i], o) :
       /\ x <= v
       /\ \A y \in Newest(q, o) : x <= y
       /\ \A j \in DOMAIN d : i < j => \A y \in Newest(d[j], o) : x <= y
  /\ \A y \in Newest(q, o) : y <= v

LEMMA ChainValue ==
  ASSUME NEW K \in SUBSET Nat, NEW d \in Seq(Packs), NEW q \in Packs, NEW o,
         NEW v \in Nat, NEW w \in Nat, v <= w, Chain(K, d, q, v, o)
  PROVE  Chain(K, d, q, w, o)
<1>1. \A i \in DOMAIN d : d[i] \in Packs
  OBVIOUS
<1>2. Newest(q, o) \in SUBSET Nat /\ \A i \in DOMAIN d : Newest(d[i], o) \in SUBSET Nat
  BY <1>1, NewestType
<1>3. \A x \in Nat : x <= v => x <= w
  OBVIOUS
<1> QED
  BY <1>2, <1>3 DEF Chain

\* The pack that is made begins anew, or gets longer.
LEMMA ChainNext ==
  ASSUME NEW K \in SUBSET Nat, NEW d, NEW q, NEW o, NEW v \in Nat, Chain(K, d, q, v, o),
         NEW r, Newest(r, o) \subseteq Newest(q, o) \union {v}
  PROVE  Chain(K, d, r, v, o)
<1>1. v <= v
  OBVIOUS
<1> QED
  BY <1>1 DEF Chain

\* A pack is sent that tells what the one that is made tells, or nothing.
LEMMA ChainSend ==
  ASSUME NEW K \in SUBSET Nat, NEW d \in Seq(Packs), NEW q \in Packs, NEW o, NEW v \in Nat,
         Chain(K, d, q, v, o), NEW r \in Packs, Newest(r, o) \subseteq Newest(q, o)
  PROVE  Chain(K, Append(d, r), q, v, o)
<1> DEFINE e == Append(d, r)
           n == Len(d)
<1>1. /\ n \in Nat /\ DOMAIN d = 1..n /\ DOMAIN e = 1..(n + 1) /\ e[n + 1] = r
      /\ \A i \in 1..n : e[i] = d[i]
  OBVIOUS
<1>2. Newest(q, o) \in SUBSET Nat /\ \A x, y \in Newest(q, o) : x = y
  BY NewestType
<1> HIDE DEF e, n
<1>3. \A i \in 1..(n + 1) : i \in 1..n \/ i = n + 1
  BY <1>1
<1>4. \A i, j \in 1..(n + 1) : i < j => i \in 1..n
  BY <1>1
<1>5. \A x, y \in Newest(q, o) : x <= y
  BY <1>2
<1>6. ASSUME NEW x \in K PROVE \A i \in 1..(n + 1) : \A y \in Newest(e[i], o) : x <= y
  <2>1. \A i \in 1..n : \A y \in Newest(e[i], o) : x <= y
    BY <1>1 DEF Chain
  <2>2. \A y \in Newest(e[n + 1], o) : x <= y
    BY <1>1 DEF Chain
  <2> QED
    BY <1>3, <2>1, <2>2
<1>7. ASSUME NEW i \in 1..n, NEW x \in Newest(e[i], o)
      PROVE  /\ x <= v /\ \A y \in Newest(q, o) : x <= y
             /\ \A j \in 1..(n + 1) : i < j => \A y \in Newest(e[j], o) : x <= y
  <2>1. x \in Newest(d[i], o) /\ i \in DOMAIN d
    BY <1>1, <1>7
  <2>2. x <= v /\ \A y \in Newest(q, o) : x <= y
    BY <2>1 DEF Chain
  <2>3. \A j \in 1..n : i < j => \A y \in Newest(e[j], o) : x <= y
    BY <1>1, <2>1 DEF Chain
  <2>4. \A y \in Newest(e[n + 1], o) : x <= y
    BY <1>1, <2>2
  <2> QED
    BY <1>3, <2>2, <2>3, <2>4
<1>8. ASSUME NEW x \in Newest(e[n + 1], o)
      PROVE  x <= v /\ \A y \in Newest(q, o) : x <= y
  <2>1. x \in Newest(q, o)
    BY <1>1, <1>8
  <2> QED
    BY <1>5, <2>1 DEF Chain
<1>9. ASSUME NEW i \in 1..(n + 1), NEW x \in Newest(e[i], o)
      PROVE  /\ x <= v /\ \A y \in Newest(q, o) : x <= y
             /\ \A j \in 1..(n + 1) : i < j => \A y \in Newest(e[j], o) : x <= y
  <2>1. CASE i \in 1..n
    BY <1>7, <1>9, <2>1
  <2>2. CASE i = n + 1
    <3>1. \A j \in 1..(n + 1) : ~(i < j)
      BY <1>1, <2>2
    <3> QED
      BY <1>8, <1>9, <2>2, <3>1
  <2> QED
    BY <1>3, <2>1, <2>2
<1>10. Chain(K, e, q, v, o)
  BY <1>1, <1>6, <1>9 DEF Chain
<1> QED
  BY <1>10 DEF e

\* The first pack arrives.
LEMMA ChainReceive ==
  ASSUME NEW K, NEW d \in Seq(Packs), d # <<>>, NEW q, NEW o, NEW v,
         Chain(K, d, q, v, o), NEW L, L = K \/ L = Newest(Head(d), o)
  PROVE  Chain(L, Tail(d), q, v, o)
<1> DEFINE e == Tail(d)
           n == Len(d)
<1>1. /\ n \in Nat /\ n >= 1 /\ DOMAIN d = 1..n /\ DOMAIN e = 1..(n - 1) /\ Head(d) = d[1]
      /\ \A i \in 1..(n - 1) : e[i] = d[i + 1]
  <2>1. /\ d \in Seq(Packs) /\ d # <<>> /\ e \in Seq(Packs) /\ Len(e) = n - 1
        /\ \A i \in 1..(n - 1) : e[i] = d[i + 1]
    BY HeadTailProperties
  <2> QED
    BY <2>1
<1> HIDE DEF e, n
<1>2. \A i \in 1..(n - 1) : i + 1 \in 1..n /\ 1 < i + 1
  BY <1>1
<1>3. 1 \in 1..n
  BY <1>1
<1>4. \A i, j \in 1..(n - 1) : i < j => i + 1 < j + 1
  BY <1>1
<1>5. ASSUME NEW x \in L
      PROVE  /\ x <= v /\ \A y \in Newest(q, o) : x <= y
             /\ \A i \in 1..(n - 1) : \A y \in Newest(e[i], o) : x <= y
  <2>1. CASE L = K
    BY <1>1, <1>2, <1>5, <2>1 DEF Chain
  <2>2. CASE L = Newest(Head(d), o)
    <3>1. x \in Newest(d[1], o) /\ 1 \in DOMAIN d
      BY <1>1, <1>3, <1>5, <2>2
    <3> QED
      BY <1>1, <1>2, <3>1 DEF Chain
  <2> QED
    BY <2>1, <2>2
<1>6. ASSUME NEW i \in 1..(n - 1), NEW x \in Newest(e[i], o)
      PROVE  /\ x <= v /\ \A y \in Newest(q, o) : x <= y
             /\ \A j \in 1..(n - 1) : i < j => \A y \in Newest(e[j], o) : x <= y
  <2>1. x \in Newest(d[i + 1], o) /\ i + 1 \in DOMAIN d
    BY <1>1, <1>2, <1>6
  <2> QED
    BY <1>1, <1>2, <1>4, <2>1 DEF Chain
<1>7. \A y \in Newest(q, o) : y <= v
  BY DEF Chain
<1>8. Chain(L, e, q, v, o)
  BY <1>1, <1>5, <1>6, <1>7 DEF Chain
<1> QED
  BY <1>8 DEF e

\* The pack o is collected into: the loop's for an item, the updater's for a
\* scene.
Makes(o) ==
  IF o \in Item THEN pack[Client] ELSE IF upack = None THEN <<>> ELSE upack.items

Knows(o) == {known[o]} \ {None}

ChainOf(o) == Chain(Knows(o), down, Makes(o), value[o], o)

ChainInv == \A o \in Item \union Scene : ChainOf(o)

LEMMA MakesType ==
  ASSUME TypeOK, NEW o \in Item \union Scene
  PROVE  /\ Makes(o) \in Packs /\ Knows(o) \in SUBSET Nat /\ value[o] \in Nat
         /\ down \in Seq(Packs) /\ value \in [Object -> Nat] /\ o \in Object
<1>1. o \in Object
  BY ObjectType
<1>2. /\ upack = None \/ upack.items \in Packs
      /\ <<>> \in Packs /\ pack[Client] \in Packs
  BY ThreadType DEF TypeOK, Packs
<1>3. Makes(o) \in Packs
  BY <1>2 DEF Makes
<1>4. known[o] \in Nat \union {None}
  BY <1>1 DEF TypeOK
<1> QED
  BY <1>1, <1>3, <1>4 DEF Knows, TypeOK, Packs

LEMMA NextChain == TypeOK /\ KeysInv /\ ChainInv /\ [Next]_vars => ChainInv'
<1> SUFFICES ASSUME TypeOK, KeysInv, ChainInv, [Next]_vars, NEW o \in Item \union Scene
             PROVE  ChainOf(o)'
  BY DEF ChainInv
<1> USE DEF svars, nvars
<1>0. /\ Makes(o) \in Packs /\ Knows(o) \in SUBSET Nat /\ value[o] \in Nat
      /\ down \in Seq(Packs) /\ value \in [Object -> Nat] /\ o \in Object /\ ChainOf(o)
  BY MakesType DEF ChainInv
<1>t. /\ pack \in [Thread -> Packs] /\ Client \in Thread /\ changes \in Nat
      /\ Location \cap Item = {} /\ Location \cap Scene = {} /\ Item \cap Scene = {}
      /\ Client \notin Writer
  BY ThreadType, ClientSyncAssumption DEF TypeOK, Packs
<1>1. ASSUME UNCHANGED <<known, down>>, Newest(Makes(o)', o) \subseteq Newest(Makes(o), o) \union {value[o]},
             value'[o] = value[o]
      PROVE  ChainOf(o)'
  <2>1. Chain(Knows(o), down, Makes(o)', value[o], o)
    BY <1>0, <1>1, ChainNext DEF ChainOf
  <2> QED
    BY <1>1, <2>1 DEF ChainOf, Knows
<1>2. ASSUME UNCHANGED <<known, down, pack, upack, value>> PROVE ChainOf(o)'
  BY <1>0, <1>2 DEF ChainOf, Knows, Makes
<1>3. ASSUME NEW x \in Object, Changed(x), UNCHANGED <<known, down, pack, upack>> PROVE ChainOf(o)'
  <2>1. value' \in [Object -> Nat] /\ value[o] <= value'[o]
    BY <1>0, <1>t, <1>3, ChangedType
  <2>2. value'[o] \in Nat
    BY <1>0, <2>1
  <2>3. Chain(Knows(o), down, Makes(o), value'[o], o)
    BY <1>0, <2>1, <2>2, ChainValue DEF ChainOf
  <2> QED
    BY <1>3, <2>3 DEF ChainOf, Knows, Makes
<1>4. ASSUME NEW w \in Writer, Write(w) \/ SetCaption(w) PROVE ChainOf(o)'
  <2>1. ASSUME NEW x \in Item, ChangeItem(w, x) PROVE ChainOf(o)'
    BY <1>3, <2>1, ObjectType DEF ChangeItem
  <2>2. ASSUME NEW x \in Location, AddLocation(w, x) PROVE ChainOf(o)'
    BY <1>3, <2>2, ObjectType DEF AddLocation
  <2>3. ASSUME NEW x \in Location, FindLocation(w, x) PROVE ChainOf(o)'
    BY <1>2, <2>3 DEF FindLocation
  <2>4. ASSUME NEW x \in Scene, ChangeScene(w, x) PROVE ChainOf(o)'
    BY <1>3, <2>4, ObjectType DEF ChangeScene
  <2>5. CASE SetCaption(w)
    BY <1>3, <2>5, ObjectType DEF SetCaption
  <2> QED
    BY <1>4, <2>1, <2>2, <2>3, <2>4, <2>5 DEF Write
<1>5. ASSUME NEW x \in Expiring, ExpireItem(x) PROVE ChainOf(o)'
  <2>1. x \in Object
    BY ClientSyncAssumption, ObjectType
  <2> QED
    BY <1>3, <1>5, <2>1 DEF ExpireItem
<1>6. ASSUME NEW w \in Writer, MarkItem(w) \/ CoverItem(w) \/ remote_update_lists(w)
      PROVE  ChainOf(o)'
  BY <1>2, <1>6 DEF MarkItem, CoverItem, remote_update_lists
<1>7. CASE Iterate \/ SkipItem \/ UnmarkItem \/ EndOfList \/ ItemsDone \/ get_next
  BY <1>2, <1>7 DEF Iterate, SkipItem, UnmarkItem, EndOfList, ItemsDone, get_next
<1>8. ASSUME NEW t \in Thread, PopLocations(t) PROVE ChainOf(o)'
  <2>1. PICK popped \in Seq(Object) :
          Elements(popped) \subseteq Location /\ pack' = [pack EXCEPT ![t] = Entries(popped)]
    BY <1>8, PopProps
  <2>2. UNCHANGED <<known, down, upack, value>>
    BY <1>8 DEF PopLocations
  <2>3. Keys(Entries(popped)) \subseteq Location
    BY <1>0, <1>t, <2>1, EntriesKeys
  <2>4. Makes(o)' = Makes(o) \/ Makes(o)' = Entries(popped)
    BY <1>t, <2>1, <2>2 DEF Makes
  <2>5. Newest(Entries(popped), o) = {}
    BY <1>t, <2>3, NoKeyNoNewest
  <2> QED
    BY <1>1, <2>2, <2>4, <2>5
<1>9. ASSUME NEW t \in Thread, SendLocations(t) \/ (t = Client /\ SendItems) PROVE ChainOf(o)'
  <2>1. /\ pack' = [pack EXCEPT ![t] = <<>>] /\ down' = Append(down, pack[t])
        /\ UNCHANGED <<known, upack, value>>
    BY <1>9 DEF SendLocations, SendItems, Send
  <2>2. Newest(pack[t], o) \subseteq Newest(Makes(o), o)
    <3>1. CASE o \in Item /\ t = Client
      BY <3>1 DEF Makes
    <3>2. CASE o \in Scene \/ t \in Writer
      <4>1. o \notin Keys(pack[t])
        BY <3>2, <1>t DEF KeysInv
      <4> QED
        BY <4>1, NoKeyNoNewest
    <3> QED
      BY <3>1, <3>2 DEF Thread
  <2>3. pack[t] \in Packs
    BY <1>t
  <2>4. Chain(Knows(o), down', Makes(o), value[o], o)
    BY <1>0, <2>1, <2>2, <2>3, ChainSend DEF ChainOf
  <2>5. Newest(Makes(o)', o) \subseteq Newest(Makes(o), o)
    <3>1. Makes(o)' = Makes(o) \/ Makes(o)' = <<>>
      BY <1>t, <2>1 DEF Makes
    <3> QED
      BY <3>1, EmptyKeys
  <2>6. Chain(Knows(o), down', Makes(o)', value[o], o)
    BY <1>0, <2>4, <2>5, ChainNext
  <2> QED
    BY <2>1, <2>6 DEF ChainOf, Knows
<1>10. CASE CollectItem
  <2>1. PICK p \in Packs :
           /\ p = <<>> \/ p = pack[Client]
           /\ pack' = [pack EXCEPT ![Client] = Append(p, Entry(Here))] /\ Here \in Item
    BY <1>10, CollectProps
  <2>2. UNCHANGED <<known, down, upack, value>>
    BY <1>10 DEF CollectItem
  <2>3. Newest(Append(p, Entry(Here)), o) \subseteq Newest(p, o) \union {value[o]}
    BY <1>0, <2>1, ObjectType, AppendProps
  <2>4. CASE o \in Item
    <3>1. Makes(o) = pack[Client] /\ Makes(o)' = Append(p, Entry(Here))
      BY <1>t, <2>1, <2>4 DEF Makes
    <3>2. Newest(p, o) \subseteq Newest(Makes(o), o)
      BY <2>1, <3>1, EmptyKeys
    <3> QED
      BY <1>1, <2>2, <2>3, <3>1, <3>2
  <2>5. CASE o \notin Item
    <3>1. Makes(o)' = Makes(o)
      BY <2>2, <2>5 DEF Makes
    <3> QED
      BY <1>1, <2>2, <3>1
  <2> QED
    BY <2>4, <2>5
<1>11. ASSUME NEW t \in Thread, UpdateScenes(t) PROVE ChainOf(o)'
  <2>1. PICK added \in Seq(Object) :
           \/ upack' = None
           \/ \E p \in Packs :
                /\ p = <<>> \/ (upack # None /\ p = upack.items)
                /\ upack' \in UPack /\ upack'.items = p \o Entries(added)
    BY <1>11, UpdateProps
  <2>2. UNCHANGED <<known, down, pack, value>>
    BY <1>11 DEF UpdateScenes
  <2>3. CASE o \in Item
    <3>1. Makes(o)' = Makes(o)
      BY <2>2, <2>3 DEF Makes
    <3> QED
      BY <1>1, <2>2, <3>1
  <2>4. CASE o \notin Item /\ upack' = None
    <3>1. Makes(o)' = <<>>
      BY <2>4 DEF Makes
    <3> QED
      BY <1>1, <2>2, <3>1, EmptyKeys
  <2>5. CASE o \notin Item /\ upack' # None
    <3>1. PICK p \in Packs :
            /\ p = <<>> \/ (upack # None /\ p = upack.items)
            /\ upack'.items = p \o Entries(added)
      BY <2>1, <2>5
    <3>2. Makes(o)' = p \o Entries(added)
      BY <2>5, <3>1 DEF Makes
    <3>3. Newest(p, o) \subseteq Newest(Makes(o), o)
      BY <2>5, <3>1, EmptyKeys DEF Makes
    <3>4. Newest(p \o Entries(added), o) \subseteq Newest(p, o) \union {value[o]}
      BY <1>0, ConcatProps
    <3> QED
      BY <1>1, <2>2, <3>2, <3>3, <3>4
  <2> QED
    BY <2>3, <2>4, <2>5
<1>12. ASSUME NEW t \in Thread, EndTransaction(t) PROVE ChainOf(o)'
  <2>1. UNCHANGED <<known, pack, upack, value>>
    BY <1>12 DEF EndTransaction
  <2>2. CASE down' = down
    BY <1>2, <2>1, <2>2
  <2>3. CASE upack # None /\ down' = Append(down, upack.items)
    <3>1. upack.items \in Packs
      BY <2>3 DEF TypeOK, Packs
    <3>2. Newest(upack.items, o) \subseteq Newest(Makes(o), o)
      <4>1. CASE o \in Item
        <5>1. o \notin Keys(upack.items)
          BY <2>3, <4>1 DEF KeysInv
        <5> QED
          BY <5>1, NoKeyNoNewest
      <4>2. CASE o \notin Item
        BY <2>3, <4>2 DEF Makes
      <4> QED
        BY <4>1, <4>2
    <3>3. Chain(Knows(o), down', Makes(o), value[o], o)
      BY <1>0, <2>3, <3>1, <3>2, ChainSend DEF ChainOf
    <3> QED
      BY <2>1, <3>3 DEF ChainOf, Knows, Makes
  <2> QED
    BY <1>12, <2>2, <2>3 DEF EndTransaction, Send
<1>13. ASSUME NEW t \in Thread, DropPack(t) PROVE ChainOf(o)'
  <2>1. upack' = None /\ UNCHANGED <<known, down, pack, value>>
    BY <1>13 DEF DropPack
  <2>2. Makes(o)' = Makes(o) \/ Makes(o)' = <<>>
    BY <2>1 DEF Makes
  <2> QED
    BY <1>1, <2>1, <2>2, EmptyKeys
<1>14. ASSUME NEW t \in Thread, TransactionEnded(t) PROVE ChainOf(o)'
  BY <1>2, <1>14 DEF TransactionEnded
<1>15. CASE ReceivePack
  <2>1. /\ down # <<>> /\ known' = Learn(Head(down)) /\ down' = Tail(down)
        /\ UNCHANGED <<pack, upack, value>>
    BY <1>15 DEF ReceivePack
  <2>2. Head(down) \in Packs
    BY <1>0, <2>1
  <2>3. \/ Newest(Head(down), o) = {} /\ known'[o] = known[o]
        \/ known'[o] \in Nat /\ Newest(Head(down), o) = {known'[o]}
    BY <1>0, <2>1, <2>2, LearnProps DEF TypeOK
  <2>4. Knows(o)' = Knows(o) \/ Knows(o)' = Newest(Head(down), o)
    <3>1. \A n \in Nat : n # None
      BY ClientSyncAssumption
    <3> QED
      BY <2>3, <3>1 DEF Knows
  <2>5. Chain(Knows(o)', Tail(down), Makes(o), value[o], o)
    BY <1>0, <2>1, <2>4, ChainReceive DEF ChainOf
  <2> QED
    BY <2>1, <2>5 DEF ChainOf, Makes
<1>16. CASE Rest \/ UNCHANGED vars
  BY <1>2, <1>16 DEF Rest, vars
<1> QED
  BY <1>4, <1>5, <1>6, <1>7, <1>8, <1>9, <1>10, <1>11, <1>12, <1>13, <1>14, <1>15, <1>16, ThreadType
     DEF Next, Finish, Loop, Work

LEMMA InitChain == Init => KeysInv /\ ChainInv
<1> SUFFICES ASSUME Init PROVE KeysInv /\ ChainInv
  OBVIOUS
<1>1. /\ at = <<1, 1>> /\ upack = None /\ down = <<>> /\ pack = [t \in Thread |-> <<>>]
      /\ known = [o \in Object |-> None]
  BY DEF Init
<1>2. KeysInv
  <2>1. at[1] >= 1 /\ at[2] >= 1
    BY <1>1
  <2> QED
    BY <1>1, <2>1, EmptyKeys, ThreadType DEF KeysInv
<1>3. ASSUME NEW o \in Item \union Scene PROVE ChainOf(o)
  <2>1. Makes(o) = <<>>
    BY <1>1, ThreadType DEF Makes
  <2>2. Knows(o) = {}
    BY <1>1, ObjectType DEF Knows
  <2>3. DOMAIN down = {}
    BY <1>1
  <2> QED
    BY <2>1, <2>2, <2>3, EmptyKeys DEF ChainOf, Chain
<1> QED
  BY <1>2, <1>3 DEF ChainInv

LEMMA ChainCorrect == Spec => [](TypeOK /\ KeysInv /\ ChainInv)
BY InitChain, TypeCorrect, NextKeys, NextChain, PTL DEF Spec

\* Whatever threads collect and send, and however late its packs arrive, the
\* client never learns an older value of an item or a scene than it knows.
THEOREM KnownForwardHolds == Spec => KnownForward
<1>1. ASSUME TypeOK, ChainInv, [Next]_vars, NEW o \in Item \union Scene, known[o] # None
      PROVE  known'[o] # None /\ known'[o] >= known[o]
  <2>0. /\ Knows(o) \in SUBSET Nat /\ down \in Seq(Packs) /\ o \in Object /\ ChainOf(o)
        /\ known[o] \in Knows(o)
    BY <1>1, MakesType DEF ChainInv, Knows
  <2>1. CASE known' = known
    <3>1. known[o] \in Nat
      BY <2>0
    <3> QED
      BY <1>1, <2>1, <3>1
  <2>2. CASE ReceivePack
    <3>1. down # <<>> /\ known' = Learn(Head(down))
      BY <2>2 DEF ReceivePack
    <3>2. Head(down) \in Packs /\ 1 \in DOMAIN down /\ Head(down) = down[1]
      BY <2>0, <3>1
    <3>3. \/ Newest(Head(down), o) = {} /\ known'[o] = known[o]
          \/ known'[o] \in Nat /\ Newest(Head(down), o) = {known'[o]}
      BY <1>1, <2>0, <3>1, <3>2, LearnProps DEF TypeOK
    <3>4. CASE known'[o] = known[o]
      <4>1. known[o] \in Nat
        BY <2>0
      <4> QED
        BY <1>1, <3>4, <4>1
    <3>5. CASE known'[o] \in Nat /\ Newest(Head(down), o) = {known'[o]}
      <4>1. known[o] <= known'[o]
        BY <2>0, <3>2, <3>5 DEF ChainOf, Chain
      <4>2. known[o] \in Nat /\ known'[o] # None
        BY <2>0, <3>5, ClientSyncAssumption
      <4> QED
        BY <3>5, <4>1, <4>2
    <3> QED
      BY <3>3, <3>4, <3>5
  <2>3. known' = known \/ ReceivePack
    BY <1>1 DEF Next, Write, Finish, Loop, Work, Rest, vars, nvars, ChangeItem, MarkItem, CoverItem,
         remote_update_lists, AddLocation, FindLocation, SetCaption, ChangeScene, ExpireItem,
         Iterate, PopLocations, SendLocations, SkipItem, CollectItem, UnmarkItem, EndOfList,
         SendItems, ItemsDone, UpdateScenes, EndTransaction, DropPack, TransactionEnded, get_next
  <2> QED
    BY <2>1, <2>2, <2>3
<1>2. TypeOK /\ ChainInv /\ [Next]_vars =>
        [\A o \in Item \union Scene :
           known[o] # None => known'[o] # None /\ known'[o] >= known[o]]_vars
  BY <1>1
<1> QED
  BY <1>2, ChainCorrect, PTL DEF Spec, KnownForward
=============================================================================
