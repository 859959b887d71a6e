--------------------------- MODULE ChatListsProofs ---------------------------
(***************************************************************************)
(* Proofs about ChatLists: the types, a chat shown once, a chat left stays *)
(* gone, and the paginated load leaves no hole.  One inductive invariant   *)
(* carries all four: where a chat may be filed, and what the pages of the  *)
(* running load have listed so far.                                        *)
(***************************************************************************)
EXTENDS ChatLists, FiniteSetTheorems, WellFoundedInduction, TLAPS

(* No event is later than the clock.                                         *)
Clocked == \A c \in ChatIds : stamp[c] <= clock

(* Where the entries of a chat may be: in its list, once but for the joins,  *)
(* and among the chats, where join_chat files every type.                    *)
Filed ==
  \A c \in ChatIds :
    /\ \A t \in Types \ {ListOf(c), "CHAT"} : lists[t][c] = 0
    /\ ListOf(c) \in Types \ {"CHAT"} => lists[ListOf(c)][c] <= 1
    /\ lists["CHAT"][c] <= joins[c] + (IF ListOf(c) = "CHAT" THEN 1 ELSE 0)

(* The lists are filled by sync first, and load_all_chats comes after it.    *)
SyncFirst == (~synced => lists = Empty) /\ (loading => synced)

(* The load has listed all it has passed: every chat at or above the marker, *)
(* but for those that moved since it began.                                  *)
LoadedAbove ==
  loading => \A c \in Members \ moved :
               stamp[c] >= marker /\ ListOf(c) \in Types => lists[ListOf(c)][c] > 0

ListsInv == Clocked /\ Filed /\ SyncFirst /\ LeftStaysGone /\ LoadedAbove
-----------------------------------------------------------------------------
(* The pages of the server *)

(* A set of naturals that is not empty has a smallest element.               *)
LEMMA NatMinimum ==
  ASSUME NEW T \in SUBSET Nat, T # {}
  PROVE  \E x \in T : \A y \in T : x <= y
<1> DEFINE R == OpToRel(<, Nat)
<1>1. IsWellFoundedOn(R, Nat)
  BY NatLessThanWellFounded, Zenon
<1>2. \A x, y \in Nat : <<y, x>> \in R <=> y < x
  BY DEF OpToRel
<1> HIDE DEF R
<1>3. PICK x \in T : \A y \in T : ~ (<<y, x>> \in R)
  BY <1>1, WFMin
<1>4. \A y \in T : ~(y < x)
  BY <1>2, <1>3
<1> QED
  BY <1>4

(* A page holds members alone, all with their last event before the marker.  *)
LEMMA PageOfMembers ==
  ASSUME NEW n, NEW m
  PROVE  Newest(n, m) \subseteq {c \in Members : stamp[c] < m}
BY DEF Newest

(* A page is the newest part of what is before the marker: a chat that did   *)
(* not fit is older than every chat of the page.                             *)
LEMMA PageIsNewest ==
  ASSUME TypeOK, NEW n \in Nat \ {0}, NEW m \in Nat,
         NEW c \in Members, stamp[c] < m, c \notin Newest(n, m),
         NEW d \in Newest(n, m)
  PROVE  stamp[c] < stamp[d]
<1> DEFINE older    == {x \in Members : stamp[x] < m}
           above(x) == {y \in older : stamp[y] > stamp[x]}
<1>1. /\ c \in older /\ d \in older
      /\ stamp \in [ChatIds -> Nat] /\ older \subseteq ChatIds
  BY DEF Newest, Members, TypeOK
<1>2. Cardinality(above(d)) < n /\ ~(Cardinality(above(c)) < n)
  BY <1>1 DEF Newest
<1>3. IsFiniteSet(above(d)) /\ IsFiniteSet(above(c))
  <2>1. above(d) \in SUBSET ChatIds /\ above(c) \in SUBSET ChatIds
    BY <1>1
  <2> QED
    BY <2>1, FS_Subset, ChatsAssumption
<1> SUFFICES ASSUME ~(stamp[c] < stamp[d])
             PROVE  FALSE
  OBVIOUS
<1>4. stamp[c] \in Nat /\ stamp[d] \in Nat /\ stamp[d] <= stamp[c]
  BY <1>1
<1>5. above(c) \subseteq above(d)
  BY <1>1, <1>4
<1>6. Cardinality(above(c)) <= Cardinality(above(d))
  <2> HIDE DEF above
  <2> QED
    BY <1>3, <1>5, FS_Subset
<1>7. Cardinality(above(c)) \in Nat /\ Cardinality(above(d)) \in Nat
  BY <1>3, FS_CardinalityType
<1> QED
  BY <1>2, <1>6, <1>7

(* As long as a chat is left before the marker, the page is not empty.       *)
LEMMA PageNotEmpty ==
  ASSUME TypeOK, NEW n \in Nat \ {0}, NEW m \in Nat,
         NEW c \in Members, stamp[c] < m
  PROVE  Newest(n, m) # {}
<1> DEFINE older == {x \in Members : stamp[x] < m}
           ages  == {MaxClock - stamp[x] : x \in older}
<1>1. /\ stamp \in [ChatIds -> 0 .. MaxClock] /\ MaxClock \in Nat
      /\ c \in older /\ older \subseteq ChatIds
  BY BoundsAssumption DEF Members, TypeOK
<1>2. ages \in SUBSET Nat /\ ages # {}
  <2>1. \A x \in older : MaxClock - stamp[x] \in Nat
    BY <1>1
  <2>2. MaxClock - stamp[c] \in ages
    BY <1>1
  <2> QED
    BY <2>1, <2>2
<1>3. PICK a \in ages : \A b \in ages : a <= b
  <2> HIDE DEF ages
  <2> QED
    BY <1>2, NatMinimum
<1>4. PICK x \in older : a = MaxClock - stamp[x]
  OBVIOUS
<1>5. ASSUME NEW y \in older
      PROVE  ~(stamp[y] > stamp[x])
  <2>1. MaxClock - stamp[y] \in ages
    OBVIOUS
  <2>2. MaxClock - stamp[x] <= MaxClock - stamp[y]
    BY <1>3, <1>4, <2>1
  <2> QED
    BY <1>1, <2>2
<1>6. {y \in older : stamp[y] > stamp[x]} = {}
  BY <1>5
<1>7. Cardinality({y \in older : stamp[y] > stamp[x]}) < n
  BY <1>6, FS_EmptySet
<1>8. x \in Newest(n, m)
  BY <1>7 DEF Newest
<1> QED
  BY <1>8
-----------------------------------------------------------------------------
(* The types *)

(* The next event is later than every other: two members never have the same *)
(* time.                                                                     *)
LEMMA EventType ==
  ASSUME TypeOK, Clocked, NEW c \in ChatIds, Event(c)
  PROVE  /\ stamp' \in [ChatIds -> 0 .. MaxClock] /\ clock' \in 0 .. MaxClock
         /\ \A x, y \in Members' : stamp'[x] = stamp'[y] => x = y
         /\ Members' = Members \cup {c} /\ stamp'[c] = clock'
         /\ \A x \in ChatIds : stamp'[x] <= clock'
<1>1. /\ stamp \in [ChatIds -> 0 .. MaxClock] /\ clock \in 0 .. MaxClock
      /\ clock < MaxClock /\ MaxClock \in Nat /\ clock' = clock + 1
      /\ stamp' = [stamp EXCEPT ![c] = clock + 1]
      /\ \A x \in ChatIds : stamp[x] <= clock
  BY BoundsAssumption DEF TypeOK, Clocked, Event
<1>2. stamp' \in [ChatIds -> 0 .. MaxClock] /\ clock' \in 0 .. MaxClock
  BY <1>1
<1>3. \A x \in ChatIds : stamp'[x] = IF x = c THEN clock + 1 ELSE stamp[x]
  BY <1>1
<1>4. Members' = Members \cup {c}
  BY <1>1, <1>3 DEF Members
<1>5. ASSUME NEW x \in Members', NEW y \in Members', stamp'[x] = stamp'[y]
      PROVE  x = y
  <2>1. x \in ChatIds /\ y \in ChatIds
    BY DEF Members
  <2>2. stamp[x] <= clock /\ stamp[y] <= clock /\ stamp[x] \in Nat /\ stamp[y] \in Nat
    BY <1>1, <2>1
  <2>3. CASE x = c \/ y = c
    BY <1>1, <1>3, <1>5, <2>1, <2>2, <2>3
  <2>4. CASE x # c /\ y # c
    <3>1. x \in Members /\ y \in Members /\ stamp[x] = stamp[y]
      BY <1>3, <1>4, <1>5, <2>1, <2>4
    <3> QED
      BY <3>1 DEF TypeOK
  <2> QED
    BY <2>3, <2>4
<1>6. \A x \in ChatIds : stamp'[x] <= clock'
  BY <1>1, <1>3
<1> QED
  BY <1>1, <1>2, <1>3, <1>4, <1>5, <1>6

(* A chat left, here or elsewhere, is a member no more.                      *)
LEMMA GoneType ==
  ASSUME TypeOK, Clocked, NEW c \in ChatIds,
         stamp' = [stamp EXCEPT ![c] = 0], clock' = clock
  PROVE  /\ stamp' \in [ChatIds -> 0 .. MaxClock] /\ clock' \in 0 .. MaxClock
         /\ \A x, y \in Members' : stamp'[x] = stamp'[y] => x = y
         /\ Members' = Members \ {c} /\ \A x \in Members' : stamp'[x] = stamp[x]
         /\ \A x \in ChatIds : stamp'[x] <= clock'
<1>1. /\ stamp \in [ChatIds -> 0 .. MaxClock] /\ clock \in 0 .. MaxClock
      /\ MaxClock \in Nat /\ \A x \in ChatIds : stamp[x] <= clock
  BY BoundsAssumption DEF TypeOK, Clocked
<1>2. stamp' \in [ChatIds -> 0 .. MaxClock] /\ clock' \in 0 .. MaxClock
  BY <1>1
<1>3. \A x \in ChatIds : stamp'[x] = IF x = c THEN 0 ELSE stamp[x]
  BY <1>1
<1>4. Members' = Members \ {c} /\ \A x \in Members' : stamp'[x] = stamp[x]
  BY <1>1, <1>3 DEF Members
<1>5. \A x, y \in Members' : stamp'[x] = stamp'[y] => x = y
  BY <1>4 DEF TypeOK
<1>6. \A x \in ChatIds : stamp'[x] <= clock'
  BY <1>1, <1>3
<1> QED
  BY <1>2, <1>4, <1>5, <1>6

(* What the server has said when the client starts.                          *)
LEMMA InitServer ==
  ASSUME Init
  PROVE  /\ stamp \in [ChatIds -> 0 .. MaxClock] /\ clock \in 0 .. MaxClock
         /\ Clocked
<1>1. Cardinality(ChatIds) \in Nat /\ Cardinality(ChatIds) <= MaxClock /\ MaxClock \in Nat
  BY ChatsAssumption, BoundsAssumption, FS_CardinalityType
<1> QED
  BY <1>1 DEF Init, Clocked

LEMMA InitListsInv == Init => TypeOK /\ ListsInv
<1> SUFFICES ASSUME Init
             PROVE  TypeOK /\ ListsInv
  OBVIOUS
<1>1. TypeOK
  <2>1. /\ marker \in 1 .. Now /\ pages \in 0 .. MaxPages - 1
        /\ joins \in [ChatIds -> 0 .. MaxJoins]
    BY SizesAssumption, BoundsAssumption DEF Init, Now
  <2>2. lists \in [Types -> [ChatIds -> Nat]]
    BY DEF Init, Empty
  <2> QED
    BY <2>1, <2>2, InitServer DEF Init, TypeOK
<1>2. Filed
  BY ChatsAssumption, BoundsAssumption DEF Init, Filed, ListOf, Kinds, Empty, Types
<1>3. SyncFirst /\ LeftStaysGone /\ LoadedAbove
  BY DEF Init, SyncFirst, LeftStaysGone, LoadedAbove
<1> QED
  BY <1>1, <1>2, <1>3, InitServer DEF ListsInv
-----------------------------------------------------------------------------
(* Filling the lists *)

(* sync files each chat of the answer, all of them members, in empty lists.  *)
LEMMA SyncStep ==
  ASSUME TypeOK, ListsInv, Sync
  PROVE  TypeOK' /\ ListsInv'
<1> DEFINE answer == Newest(SyncCount, Now)
<1>1. /\ lists = Empty /\ synced' = TRUE /\ loading' = FALSE /\ answer \subseteq Members
      /\ UNCHANGED <<type, stamp, clock, marker, pages, moved, joins, left>>
  BY Zenon, PageOfMembers DEF Sync, Idle, ListsInv, SyncFirst, serverVars, loadVars, history, TypeOK
<1>2. lists' = [t \in Types |-> [c \in ChatIds |->
                  IF c \in answer /\ type[c] = t THEN 1 ELSE 0]]
  BY <1>1 DEF Sync, Empty
<1> HIDE DEF answer
<1>3. TypeOK'
  <2>1. lists' \in [Types -> [ChatIds -> Nat]]
    BY <1>2
  <2> QED
    BY <1>1, <2>1 DEF TypeOK, Members
<1>4. Filed'
  <2>1. \A c \in ChatIds : joins[c] \in Nat /\ type[c] \in Kinds
    BY ChatsAssumption, BoundsAssumption DEF TypeOK
  <2> QED
    BY <1>1, <1>2, <2>1 DEF Filed, ListOf, Kinds, Types
<1>5. LeftStaysGone'
  BY <1>1, <1>2 DEF LeftStaysGone, Types, TypeOK
<1>6. Clocked' /\ SyncFirst' /\ LoadedAbove'
  BY <1>1 DEF ListsInv, Clocked, SyncFirst, LoadedAbove
<1> QED
  BY <1>3, <1>4, <1>5, <1>6 DEF ListsInv

(* reset_for_reconnect leaves nothing in the lists.                          *)
LEMMA ResetStep ==
  ASSUME TypeOK, ListsInv, Reset
  PROVE  TypeOK' /\ ListsInv'
<1>1. /\ lists' = Empty /\ joins' = [c \in ChatIds |-> 0]
      /\ synced' = FALSE /\ loading' = FALSE
      /\ UNCHANGED <<type, stamp, clock, marker, pages, moved, left>>
  BY Zenon DEF Reset, Idle, serverVars, loadVars, TypeOK
<1>2. TypeOK'
  <2>1. lists' \in [Types -> [ChatIds -> Nat]] /\ joins' \in [ChatIds -> 0 .. MaxJoins]
    BY <1>1, BoundsAssumption DEF Empty
  <2> QED
    BY <1>1, <2>1 DEF TypeOK, Members
<1>3. Filed' /\ LeftStaysGone'
  <2>1. \A c \in ChatIds : type[c] \in Kinds
    BY ChatsAssumption DEF TypeOK
  <2> QED
    BY <1>1, <2>1 DEF Filed, ListOf, Kinds, LeftStaysGone, Empty, Types, TypeOK
<1>4. Clocked' /\ SyncFirst' /\ LoadedAbove'
  BY <1>1 DEF ListsInv, Clocked, SyncFirst, LoadedAbove
<1> QED
  BY <1>2, <1>3, <1>4 DEF ListsInv

(* fetch_chats keeps each entry that is there, and adds one for a chat of    *)
(* the page that had none in the list of its type.                           *)
LEMMA FetchedFiles ==
  ASSUME TypeOK, ListsInv, NEW page \in SUBSET Members,
         lists' = Fetched(page), UNCHANGED <<type, joins, left>>
  PROVE  /\ lists' \in [Types -> [ChatIds -> Nat]]
         /\ Filed' /\ LeftStaysGone'
         /\ \A c \in ChatIds : ListOf(c) \in Types /\ (lists[ListOf(c)][c] > 0 \/ c \in page)
                              => lists'[ListOf(c)][c] > 0
<1>1. /\ lists \in [Types -> [ChatIds -> Nat]] /\ left \cap Members = {}
      /\ page \subseteq ChatIds /\ left \subseteq ChatIds
      /\ \A c \in ChatIds : joins[c] \in Nat /\ type[c] \in Kinds
  BY ChatsAssumption, BoundsAssumption DEF TypeOK, Members
<1>2. /\ lists' \in [Types -> [ChatIds -> Nat]]
      /\ \A t \in Types, c \in ChatIds :
           lists'[t][c] = IF c \in page /\ ListOf(c) = t /\ lists[t][c] = 0
                          THEN 1 ELSE lists[t][c]
  BY <1>1 DEF Fetched
<1>3. Filed'
  <2>1. \A c \in ChatIds : ListOf(c)' = ListOf(c)
    BY DEF ListOf
  <2> QED
    BY <1>1, <1>2, <2>1 DEF ListsInv, Filed, ListOf, Kinds, Types
<1>4. LeftStaysGone'
  BY <1>1, <1>2 DEF ListsInv, LeftStaysGone, Types
<1>5. \A c \in ChatIds : ListOf(c) \in Types /\ (lists[ListOf(c)][c] > 0 \/ c \in page)
                         => lists'[ListOf(c)][c] > 0
  BY <1>1, <1>2
<1> QED
  BY <1>2, <1>3, <1>4, <1>5

LEMMA LoadBeginsStep ==
  ASSUME TypeOK, ListsInv, LoadBegins
  PROVE  TypeOK' /\ ListsInv'
<1>1. /\ synced /\ synced' = synced /\ loading' = TRUE
      /\ marker' = Now /\ pages' = 0 /\ moved' = {}
      /\ UNCHANGED <<type, stamp, clock, lists, joins, left>>
  BY DEF LoadBegins, serverVars, history
<1>2. TypeOK'
  <2>1. marker' \in 1 .. Now /\ pages' \in 0 .. MaxPages - 1
    BY <1>1, SizesAssumption, BoundsAssumption DEF Now
  <2> QED
    BY <1>1, <2>1 DEF TypeOK, Members
<1>3. LoadedAbove'
  <2>1. \A c \in ChatIds : stamp[c] < Now
    BY BoundsAssumption DEF Now, TypeOK
  <2> QED
    BY <1>1, <2>1, BoundsAssumption DEF LoadedAbove, ListOf, Members, Now, TypeOK
<1>4. Clocked' /\ Filed' /\ SyncFirst' /\ LeftStaysGone'
  BY <1>1 DEF ListsInv, Clocked, Filed, ListOf, Kinds, SyncFirst, LeftStaysGone
<1> QED
  BY <1>2, <1>3, <1>4 DEF ListsInv

(* A load is over: after its last page, or for an error.                     *)
LEMMA LoadOverType ==
  ASSUME LoadOver
  PROVE  loading' = FALSE /\ marker' \in 1 .. Now /\ pages' \in 0 .. MaxPages - 1
BY SizesAssumption, BoundsAssumption DEF LoadOver, Now

LEMMA LoadFailsStep ==
  ASSUME TypeOK, ListsInv, LoadFails
  PROVE  TypeOK' /\ ListsInv'
<1>1. LoadOver /\ UNCHANGED <<type, stamp, clock, lists, synced, moved, joins, left>>
  BY DEF LoadFails, serverVars, history
<1>2. TypeOK'
  BY <1>1, LoadOverType DEF TypeOK, Members
<1>3. Clocked' /\ Filed' /\ SyncFirst' /\ LeftStaysGone' /\ LoadedAbove'
  BY <1>1, LoadOverType DEF ListsInv, Clocked, Filed, ListOf, Kinds, SyncFirst, LeftStaysGone, LoadedAbove
<1> QED
  BY <1>2, <1>3 DEF ListsInv

(* A page files what it holds; the next marker is the time of its oldest     *)
(* chat that is no dialog, and what is not below it has been filed.          *)
LEMMA LoadPageStep ==
  ASSUME TypeOK, ListsInv, LoadPage
  PROVE  TypeOK' /\ ListsInv'
<1> DEFINE page == Page(marker)
           fetched == Returned(page)
<1>1. /\ loading /\ lists' = Fetched(page)
      /\ UNCHANGED <<type, stamp, clock, synced, moved, joins, left>>
      /\ \/ LoadOver
         \/ /\ pages + 1 # MaxPages /\ pages' = pages + 1 /\ loading' = loading
            /\ \E c \in fetched : /\ marker' = stamp[c]
                                  /\ \A d \in fetched : stamp[c] <= stamp[d]
  BY DEF LoadPage, serverVars, history
<1>2. page \subseteq {c \in Members : stamp[c] < marker} /\ fetched \subseteq page
  BY PageOfMembers DEF Page, Returned
<1>3. \A c \in Members, d \in page : stamp[c] < marker /\ c \notin page => stamp[c] < stamp[d]
  BY PageIsNewest, SizesAssumption DEF Page, TypeOK
<1> HIDE DEF page, fetched
<1>4. /\ lists' \in [Types -> [ChatIds -> Nat]]
      /\ Filed' /\ LeftStaysGone'
      /\ \A c \in ChatIds : ListOf(c) \in Types /\ (lists[ListOf(c)][c] > 0 \/ c \in page)
                           => lists'[ListOf(c)][c] > 0
  BY <1>1, <1>2, FetchedFiles
<1>5. loading' \in BOOLEAN /\ marker' \in 1 .. Now /\ pages' \in 0 .. MaxPages - 1
  <2>1. CASE LoadOver
    BY <2>1, LoadOverType
  <2>2. CASE /\ pages + 1 # MaxPages /\ pages' = pages + 1 /\ loading' = loading
             /\ \E c \in fetched : marker' = stamp[c]
    <3>1. PICK c \in fetched : marker' = stamp[c]
      BY <2>2
    <3>2. stamp[c] > 0 /\ stamp[c] \in 0 .. MaxClock
      BY <1>2 DEF Members, TypeOK
    <3>3. marker' \in 1 .. Now
      BY <3>1, <3>2, BoundsAssumption DEF Now
    <3>4. pages' \in 0 .. MaxPages - 1
      BY <2>2, SizesAssumption DEF TypeOK
    <3> QED
      BY <2>2, <3>3, <3>4, Zenon DEF TypeOK
  <2> QED
    BY <1>1, <2>1, <2>2
<1>6. TypeOK'
  BY <1>1, <1>4, <1>5 DEF TypeOK, Members
<1>7. LoadedAbove'
  <2>1. CASE LoadOver
    BY <2>1, LoadOverType DEF LoadedAbove, ListOf
  <2>2. CASE \E m \in fetched : /\ marker' = stamp[m]
    <3>1. PICK m \in fetched : marker' = stamp[m]
      BY <2>2
    <3>2. ASSUME NEW c \in Members, c \notin moved, stamp[c] >= stamp[m], ListOf(c) \in Types
          PROVE  lists'[ListOf(c)][c] > 0
      <4>1. CASE stamp[c] >= marker
        BY <1>1, <1>4, <3>2, <4>1 DEF ListsInv, LoadedAbove, Members
      <4>2. CASE ~(stamp[c] >= marker)
        <5>1. stamp[c] \in Nat /\ stamp[m] \in Nat /\ marker \in Nat
          BY <1>2 DEF Members, TypeOK
        <5>2. c \in page
          BY <1>2, <1>3, <3>2, <4>2, <5>1
        <5> QED
          BY <1>4, <3>2, <5>2 DEF Members
      <4> QED
        BY <4>1, <4>2
    <3> QED
      BY <1>1, <3>1, <3>2 DEF LoadedAbove, Members, ListOf
  <2> QED
    BY <1>1, <2>1, <2>2
<1>8. Clocked' /\ SyncFirst'
  BY <1>1 DEF ListsInv, Clocked, SyncFirst
<1> QED
  BY <1>4, <1>6, <1>7, <1>8 DEF ListsInv
-----------------------------------------------------------------------------
(* Joining, creating and leaving *)

(* create_group and join_chat add one entry among the chats.                 *)
LEMMA PushedEntries ==
  ASSUME TypeOK, NEW c \in ChatIds, Pushed(c)
  PROVE  /\ lists' \in [Types -> [ChatIds -> Nat]]
         /\ \A t \in Types, x \in ChatIds :
              lists'[t][x] = IF t = "CHAT" /\ x = c THEN lists[t][x] + 1 ELSE lists[t][x]
<1>1. lists \in [Types -> [ChatIds -> Nat]] /\ "CHAT" \in Types
  BY DEF TypeOK, Types
<1>2. lists' = [lists EXCEPT !["CHAT"] = [lists["CHAT"] EXCEPT ![c] = @ + 1]]
  BY DEF Pushed
<1>3. [lists["CHAT"] EXCEPT ![c] = @ + 1] \in [ChatIds -> Nat]
  BY <1>1
<1>4. lists' \in [Types -> [ChatIds -> Nat]]
  BY <1>1, <1>2, <1>3
<1>5. \A t \in Types, x \in ChatIds :
        lists'[t][x] = IF t = "CHAT" /\ x = c THEN lists[t][x] + 1 ELSE lists[t][x]
  BY <1>1, <1>2
<1> QED
  BY <1>4, <1>5

LEMMA CreateGroupStep ==
  ASSUME TypeOK, ListsInv, NEW c \in ChatIds, CreateGroup(c)
  PROVE  TypeOK' /\ ListsInv'
<1>1. /\ loading = FALSE /\ synced = TRUE
      /\ c \notin left /\ type[c] = "CHAT" /\ Event(c) /\ Pushed(c)
      /\ \A t \in Types : lists[t][c] = 0
      /\ UNCHANGED <<type, synced, loading, marker, pages, moved, joins, left>>
  BY Zenon DEF CreateGroup, Idle, loadVars, history, TypeOK
<1>2. Clocked
  BY DEF ListsInv
<1>3. TypeOK'
  BY <1>1, <1>2, EventType, PushedEntries DEF TypeOK
<1>4. Filed'
  <2>1. \A x \in ChatIds : joins[x] \in Nat /\ type[x] \in Kinds
    BY ChatsAssumption, BoundsAssumption DEF TypeOK
  <2>2. lists \in [Types -> [ChatIds -> Nat]]
    BY DEF TypeOK
  <2> QED
    BY <1>1, <2>1, <2>2, PushedEntries DEF ListsInv, Filed, ListOf, Kinds, Types
<1>5. LeftStaysGone'
  BY <1>1, PushedEntries DEF ListsInv, LeftStaysGone, Types, TypeOK
<1>6. Clocked' /\ SyncFirst' /\ LoadedAbove'
  BY <1>1, <1>2, EventType DEF Clocked, SyncFirst, LoadedAbove
<1> QED
  BY <1>3, <1>4, <1>5, <1>6 DEF ListsInv

LEMMA JoinChatStep ==
  ASSUME TypeOK, ListsInv, NEW c \in ChatIds, JoinChat(c)
  PROVE  TypeOK' /\ ListsInv'
<1>1. /\ loading = FALSE /\ synced = TRUE
      /\ type[c] \notin {"DIALOG", "UNREADABLE"} /\ Event(c) /\ Pushed(c)
      /\ joins[c] < MaxJoins /\ joins' = [joins EXCEPT ![c] = @ + 1]
      /\ left' = left \ {c}
      /\ UNCHANGED <<type, synced, loading, marker, pages, moved>>
  BY Zenon DEF JoinChat, Idle, loadVars, TypeOK
<1>2. Clocked
  BY DEF ListsInv
<1>3. /\ joins' \in [ChatIds -> 0 .. MaxJoins]
      /\ \A x \in ChatIds : joins'[x] = IF x = c THEN joins[x] + 1 ELSE joins[x]
  BY <1>1, BoundsAssumption DEF TypeOK
<1>4. TypeOK'
  BY <1>1, <1>2, <1>3, EventType, PushedEntries DEF TypeOK
<1>5. Filed'
  <2>1. \A x \in ChatIds : joins[x] \in Nat /\ type[x] \in Kinds
    BY ChatsAssumption, BoundsAssumption DEF TypeOK
  <2>2. lists \in [Types -> [ChatIds -> Nat]]
    BY DEF TypeOK
  <2> QED
    BY <1>1, <1>3, <2>1, <2>2, PushedEntries DEF ListsInv, Filed, ListOf, Kinds, Types
<1>6. LeftStaysGone'
  BY <1>1, PushedEntries DEF ListsInv, LeftStaysGone, Types, TypeOK
<1>7. Clocked' /\ SyncFirst' /\ LoadedAbove'
  BY <1>1, <1>2, EventType DEF Clocked, SyncFirst, LoadedAbove
<1> QED
  BY <1>4, <1>5, <1>6, <1>7 DEF ListsInv

(* leave_chat empties the lists where the chat may be: a chat that is no     *)
(* dialog has no entry among the dialogs.                                    *)
LEMMA LeaveChatStep ==
  ASSUME TypeOK, ListsInv, NEW c \in ChatIds, LeaveChat(c)
  PROVE  TypeOK' /\ ListsInv'
<1>1. /\ loading = FALSE /\ synced = TRUE
      /\ c \in Members /\ type[c] # "DIALOG"
      /\ stamp' = [stamp EXCEPT ![c] = 0] /\ left' = left \cup {c}
      /\ lists' = [lists EXCEPT !["CHAT"][c] = 0, !["CHANNEL"][c] = 0]
      /\ joins' = [joins EXCEPT ![c] = 0]
      /\ UNCHANGED <<type, clock, synced, loading, marker, pages, moved>>
  BY Zenon DEF LeaveChat, Idle, loadVars, TypeOK
<1>2. Clocked
  BY DEF ListsInv
<1>3. /\ joins' \in [ChatIds -> 0 .. MaxJoins]
      /\ \A x \in ChatIds : joins'[x] = IF x = c THEN 0 ELSE joins[x]
  BY <1>1, BoundsAssumption DEF TypeOK
<1>4. /\ lists' \in [Types -> [ChatIds -> Nat]]
      /\ \A t \in Types, x \in ChatIds :
           lists'[t][x] = IF t # "DIALOG" /\ x = c THEN 0 ELSE lists[t][x]
  BY <1>1 DEF TypeOK, Types
<1>5. TypeOK'
  <2>1. left' \subseteq ChatIds \ Members'
    <3>1. left' = left \cup {c} /\ left \subseteq ChatIds \ Members
      BY <1>1 DEF TypeOK
    <3>2. Members' = Members \ {c}
      BY <1>1, <1>2, GoneType
    <3> QED
      BY <3>1, <3>2
  <2>2. /\ stamp' \in [ChatIds -> 0 .. MaxClock] /\ clock' \in 0 .. MaxClock
        /\ \A x, y \in Members' : stamp'[x] = stamp'[y] => x = y
    BY <1>1, <1>2, GoneType
  <2> QED
    BY <1>1, <1>3, <1>4, <2>1, <2>2 DEF TypeOK
<1>6. Filed'
  <2>1. \A x \in ChatIds : joins[x] \in Nat /\ type[x] \in Kinds
    BY ChatsAssumption, BoundsAssumption DEF TypeOK
  <2>2. lists \in [Types -> [ChatIds -> Nat]]
    BY DEF TypeOK
  <2> QED
    BY <1>1, <1>3, <1>4, <2>1, <2>2 DEF ListsInv, Filed, ListOf, Kinds, Types
<1>7. LeftStaysGone'
  BY <1>1, <1>4 DEF ListsInv, LeftStaysGone, Types, TypeOK
<1>8. Clocked' /\ SyncFirst' /\ LoadedAbove'
  BY <1>1, <1>2, GoneType DEF Clocked, SyncFirst, LoadedAbove
<1> QED
  BY <1>5, <1>6, <1>7, <1>8 DEF ListsInv
-----------------------------------------------------------------------------
(* The server *)

(* A chat with an event while a load runs has moved: the load answers for it *)
(* no more.                                                                  *)
LEMMA NewEventStep ==
  ASSUME TypeOK, ListsInv, NEW c \in ChatIds, NewEvent(c)
  PROVE  TypeOK' /\ ListsInv'
<1>1. /\ Event(c) /\ moved' = moved \cup {c} /\ left' = left \ {c}
      /\ UNCHANGED <<type, lists, synced, loading, marker, pages, joins>>
  BY DEF NewEvent, loadVars
<1>2. Clocked
  BY DEF ListsInv
<1>3. TypeOK'
  BY <1>1, <1>2, EventType DEF TypeOK
<1>4. LoadedAbove'
  <2>1. \A x \in ChatIds : x # c => stamp'[x] = stamp[x]
    BY <1>1 DEF Event, TypeOK
  <2>2. Members' \ moved' \subseteq Members \ moved /\ c \notin Members' \ moved'
    BY <1>1, <1>2, EventType
  <2> QED
    BY <1>1, <2>1, <2>2 DEF ListsInv, LoadedAbove, ListOf, Members
<1>5. Clocked' /\ Filed' /\ SyncFirst' /\ LeftStaysGone'
  BY <1>1, <1>2, EventType DEF ListsInv, Clocked, Filed, ListOf, Kinds, SyncFirst, LeftStaysGone
<1> QED
  BY <1>3, <1>4, <1>5 DEF ListsInv

LEMMA LeftElsewhereStep ==
  ASSUME TypeOK, ListsInv, NEW c \in ChatIds, LeftElsewhere(c)
  PROVE  TypeOK' /\ ListsInv'
<1>1. /\ c \in Members /\ stamp' = [stamp EXCEPT ![c] = 0]
      /\ UNCHANGED <<type, clock, lists, synced, loading, marker, pages, moved, joins, left>>
  BY DEF LeftElsewhere, loadVars, history
<1>2. Clocked
  BY DEF ListsInv
<1>3. TypeOK'
  BY <1>1, <1>2, GoneType DEF TypeOK
<1>4. LoadedAbove'
  BY <1>1, <1>2, GoneType DEF ListsInv, LoadedAbove, ListOf
<1>5. Clocked' /\ Filed' /\ SyncFirst' /\ LeftStaysGone'
  BY <1>1, <1>2, GoneType DEF ListsInv, Clocked, Filed, ListOf, Kinds, SyncFirst, LeftStaysGone
<1> QED
  BY <1>3, <1>4, <1>5 DEF ListsInv

LEMMA NextListsInv == TypeOK /\ ListsInv /\ [Next]_vars => TypeOK' /\ ListsInv'
<1> SUFFICES ASSUME TypeOK, ListsInv, [Next]_vars
             PROVE  TypeOK' /\ ListsInv'
  OBVIOUS
<1>1. CASE Sync
  BY <1>1, SyncStep
<1>2. CASE Reset
  BY <1>2, ResetStep
<1>3. CASE LoadBegins
  BY <1>3, LoadBeginsStep
<1>4. CASE LoadPage
  BY <1>4, LoadPageStep
<1>5. CASE LoadFails
  BY <1>5, LoadFailsStep
<1>6. ASSUME NEW c \in ChatIds, CreateGroup(c)
      PROVE  TypeOK' /\ ListsInv'
  BY <1>6, CreateGroupStep
<1>7. ASSUME NEW c \in ChatIds, JoinChat(c)
      PROVE  TypeOK' /\ ListsInv'
  BY <1>7, JoinChatStep
<1>8. ASSUME NEW c \in ChatIds, LeaveChat(c)
      PROVE  TypeOK' /\ ListsInv'
  BY <1>8, LeaveChatStep
<1>9. ASSUME NEW c \in ChatIds, NewEvent(c)
      PROVE  TypeOK' /\ ListsInv'
  BY <1>9, NewEventStep
<1>10. ASSUME NEW c \in ChatIds, LeftElsewhere(c)
       PROVE  TypeOK' /\ ListsInv'
  BY <1>10, LeftElsewhereStep
<1>11. CASE UNCHANGED vars
  <2>1. UNCHANGED <<type, stamp, clock, lists, synced, loading, marker, pages, moved, joins, left>>
    BY <1>11 DEF vars, serverVars, loadVars, history
  <2>2. TypeOK'
    BY <2>1 DEF TypeOK, Members
  <2>3. ListsInv'
    BY <2>1 DEF ListsInv, Clocked, Filed, ListOf, Kinds, SyncFirst, LeftStaysGone, LoadedAbove, Members
  <2> QED
    BY <2>2, <2>3
<1> QED
  BY <1>1, <1>2, <1>3, <1>4, <1>5, <1>6, <1>7, <1>8, <1>9, <1>10, <1>11 DEF Next
-----------------------------------------------------------------------------
(* The theorems *)

LEMMA AlwaysListsInv == Spec => [](TypeOK /\ ListsInv)
BY InitListsInv, NextListsInv, PTL DEF Spec

(* The lists, the markers and the history variables keep their types; no two *)
(* chats have their last event at the same time; a chat left through this    *)
(* client is no member (chats.rs, sync.rs, load_all_chats).                  *)
THEOREM TypeCorrect == Spec => []TypeOK
BY AlwaysListsInv, PTL

(* A chat is shown once, but for the times it was joined again: the filing   *)
(* of a chat by sync, fetch_chats, create_group and join_chat, in any order  *)
(* and with any overlap of the pages, never lists it twice (chats.rs         *)
(* 113-234, sync.rs 41-70).                                                  *)
THEOREM ShownOnce == Spec => []RowsOnce
<1>1. TypeOK /\ ListsInv => RowsOnce
  <2> SUFFICES ASSUME TypeOK, ListsInv, NEW c \in ChatIds
               PROVE  Rows(c) <= 1 + joins[c]
    BY DEF RowsOnce
  <2>1. /\ type[c] \in Kinds /\ joins[c] \in Nat
        /\ \A t \in Types : lists[t][c] \in Nat
    BY ChatsAssumption, BoundsAssumption DEF TypeOK
  <2> QED
    BY <2>1 DEF ListsInv, Filed, ListOf, Kinds, Rows, Types
<1> QED
  BY <1>1, AlwaysListsInv, PTL

(* No later sync, page or reset brings back a chat left through this client  *)
(* (chats.rs 118-126).                                                       *)
THEOREM LeftAlwaysGone == Spec => []LeftStaysGone
<1>1. ListsInv => LeftStaysGone
  BY DEF ListsInv
<1> QED
  BY <1>1, AlwaysListsInv, PTL

(* A load of all chats that ends without an error has listed every chat that *)
(* did not move and can be read, but for what is older than its last page    *)
(* when that page held nothing but dialogs and entries that do not parse, or *)
(* was the last it may ask for (ffi client.rs 335-355, chats.rs 178-234).    *)
THEOREM LoadAlwaysWhole == Spec => LoadLeavesNoHole
<1> DEFINE page == Page(marker)
           cut  == (page # {} /\ Returned(page) = {}) \/ pages + 1 = MaxPages
<1>1. ASSUME TypeOK, ListsInv, LoadPage, ~loading'
      PROVE  \A c \in Members \ moved : ListOf(c) \in Types =>
               \/ lists'[ListOf(c)][c] > 0
               \/ cut /\ \A d \in page : stamp[c] < stamp[d]
  <2>1. /\ loading /\ lists' = Fetched(page) /\ UNCHANGED <<type, joins, left>>
        /\ Returned(page) = {} \/ pages + 1 = MaxPages
    BY <1>1 DEF LoadPage, serverVars, history
  <2>2. page \subseteq Members
    BY PageOfMembers DEF Page
  <2>3. \A c \in ChatIds : ListOf(c) \in Types /\ (lists[ListOf(c)][c] > 0 \/ c \in page)
                           => lists'[ListOf(c)][c] > 0
    <3> HIDE DEF page
    <3> QED
      BY <1>1, <2>1, <2>2, FetchedFiles
  <2> SUFFICES ASSUME NEW c \in Members, c \notin moved, c \notin page, ListOf(c) \in Types
               PROVE  \/ lists'[ListOf(c)][c] > 0
                      \/ cut /\ \A d \in page : stamp[c] < stamp[d]
    BY <2>2, <2>3 DEF Members
  <2>4. CASE stamp[c] >= marker
    BY <1>1, <2>1, <2>3, <2>4 DEF ListsInv, LoadedAbove, Members
  <2>5. CASE stamp[c] < marker
    <3>1. marker \in Nat /\ PageSize \in Nat \ {0}
      BY <1>1, SizesAssumption, BoundsAssumption DEF TypeOK, Now
    <3>2. page # {}
      BY <1>1, <2>5, <3>1, PageNotEmpty DEF Page
    <3>3. \A d \in page : stamp[c] < stamp[d]
      BY <1>1, <2>5, <3>1, PageIsNewest DEF Page
    <3> QED
      BY <2>1, <3>2, <3>3
  <2>6. stamp[c] \in Int /\ marker \in Int
    BY <1>1 DEF Members, TypeOK
  <2> QED
    BY <2>4, <2>5, <2>6
<1>2. TypeOK /\ ListsInv /\ [Next]_vars =>
        [LoadPage /\ ~loading' =>
           \A c \in Members \ moved : ListOf(c) \in Types =>
             \/ lists'[ListOf(c)][c] > 0
             \/ cut /\ \A d \in page : stamp[c] < stamp[d]]_vars
  BY <1>1
<1> QED
  BY <1>2, AlwaysListsInv, PTL DEF Spec, LoadLeavesNoHole
=============================================================================
