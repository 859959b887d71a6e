------------------------------ MODULE ChatLists ------------------------------
(***************************************************************************)
(* The chat lists of a MaxClient (protocol/chats.rs, protocol/sync.rs) and *)
(* the paginated load of the FFI client (load_all_chats).  The server      *)
(* orders the account's chats by the time of their last event and answers  *)
(* by pages; new events, and other devices of the account, reorder them    *)
(* while a load runs.                                                      *)
(*                                                                         *)
(* Every operation takes the client for itself (&mut self, behind a mutex  *)
(* that load_all_chats keeps for all its pages), so between two steps of a *)
(* load only the server moves; an operation of one request is one step.    *)
(* A list is the number of its entries for each chat: the order of the     *)
(* entries is not kept, both user interfaces sort them.                    *)
(***************************************************************************)
EXTENDS Integers, FiniteSets

CONSTANTS ChatIds,
          TypesOf,    \* the kinds they may have: functions from chats
          PageSize,   \* chats in a page of CHATS_LIST
          SyncCount,  \* chats asked for by sync (DEFAULT_SYNC_CHATS_COUNT, 40)
          MaxPages,   \* pages load_all_chats asks for (10)
          MaxClock,   \* bound: events in chats
          MaxJoins    \* bound: times one chat is joined between two resets

(* The types of chats that have a list; "OTHER" is a type the code does not  *)
(* know, and an "UNREADABLE" chat one whose entries do not parse.            *)
Types == {"DIALOG", "CHAT", "CHANNEL"}
Kinds == Types \cup {"OTHER", "UNREADABLE"}

ASSUME ChatsAssumption  == /\ ChatIds # {} /\ IsFiniteSet(ChatIds)
                           /\ TypesOf \subseteq [ChatIds -> Kinds]
ASSUME SizesAssumption  == {PageSize, SyncCount, MaxPages} \subseteq Nat \ {0}
ASSUME BoundsAssumption == /\ {MaxClock, MaxJoins} \subseteq Nat
                           /\ Cardinality(ChatIds) <= MaxClock

VARIABLES type,      \* chat -> its kind (external)
          stamp,     \* chat -> time of its last event, 0 for not a member (external)
          clock,
          lists,     \* type -> chat -> entries in client.dialogs, chats, channels
          synced,    \* sync has filled the lists since they were cleared
          loading,   \* load_all_chats is running
          marker,    \* its marker
          pages,     \* pages it has asked for
          moved,     \* chats with an event since the load began (history)
          joins,     \* chat -> times joined since the lists were cleared (history)
          left       \* chats left through this client and not joined since (history)

serverVars == <<type, stamp, clock>>
loadVars   == <<loading, marker, pages>>
history    == <<joins, left>>
vars       == <<serverVars, lists, synced, loadVars, moved, history>>

Now     == MaxClock + 1      \* a marker later than every event
Members == {c \in ChatIds : stamp[c] > 0}
Empty   == [t \in Types |-> [c \in ChatIds |-> 0]]

TypeOK == /\ type \in TypesOf
          /\ stamp \in [ChatIds -> 0 .. MaxClock] /\ clock \in 0 .. MaxClock
          /\ \A c, d \in Members : stamp[c] = stamp[d] => c = d
          /\ lists \in [Types -> [ChatIds -> Nat]] /\ synced \in BOOLEAN
          /\ loading \in BOOLEAN /\ marker \in 1 .. Now /\ pages \in 0 .. MaxPages - 1
          /\ moved \subseteq ChatIds /\ left \subseteq ChatIds \ Members
          /\ joins \in [ChatIds -> 0 .. MaxJoins]

(* The account starts with some chats, in some order.                        *)
Init == /\ type \in TypesOf
        /\ stamp \in [ChatIds -> 0 .. Cardinality(ChatIds)]
        /\ \A c, d \in Members : stamp[c] = stamp[d] => c = d
        /\ {stamp[c] : c \in Members} = 1 .. Cardinality(Members)
        /\ clock = Cardinality(ChatIds)
        /\ lists = Empty /\ synced = FALSE
        /\ loading = FALSE /\ marker = Now /\ pages = 0
        /\ moved = {} /\ joins = [c \in ChatIds |-> 0] /\ left = {}

(* An event in chat c.                                                       *)
Event(c) == clock < MaxClock /\ clock' = clock + 1 /\ stamp' = [stamp EXCEPT ![c] = clock + 1]

(* The newest n chats with their last event before m.                        *)
Newest(n, m) ==
  LET older == {c \in Members : stamp[c] < m} IN
  {c \in older : Cardinality({d \in older : stamp[d] > stamp[c]}) < n}

Page(m) == Newest(PageSize, m)

Idle == ~loading
-----------------------------------------------------------------------------
(* Filling the lists *)

(* sync: every chat of the answer is appended to the list of its type; one of *)
(* another type, or that does not parse, is passed over.                     *)
Sync == /\ Idle /\ ~synced /\ synced' = TRUE
        /\ LET answer == Newest(SyncCount, Now) IN
           lists' = [t \in Types |-> [c \in ChatIds |->
                       lists[t][c] + (IF c \in answer /\ type[c] = t THEN 1 ELSE 0)]]
        /\ UNCHANGED <<serverVars, loadVars, moved, history>>

(* reset_for_reconnect, and the new connection not yet synced.               *)
Reset == /\ Idle /\ synced /\ synced' = FALSE /\ lists' = Empty
         /\ joins' = [c \in ChatIds |-> 0]
         /\ UNCHANGED <<serverVars, loadVars, moved, left>>

(* Where fetch_chats files a chat: among the chats when it does not know its *)
(* type, and in no list when its entry does not parse.                       *)
ListOf(c) == IF type[c] = "OTHER" THEN "CHAT" ELSE type[c]

(* Mutant of Fetched: the list is not searched for the chat. *)
FetchedBlindly(page) ==
  [t \in Types |-> [c \in ChatIds |->
     lists[t][c] + (IF c \in page /\ ListOf(c) = t THEN 1 ELSE 0)]]

(* fetch_chats: a chat is appended to its list unless that list has it; an   *)
(* entry that is there is left as it is.                                     *)
Fetched(page) ==
  [t \in Types |-> [c \in ChatIds |->
     IF c \in page /\ ListOf(c) = t /\ lists[t][c] = 0 THEN 1 ELSE lists[t][c]]]

(* What fetch_chats returns: the page without its dialogs, and without what  *)
(* does not parse.                                                           *)
Returned(page) == {c \in page : type[c] \notin {"DIALOG", "UNREADABLE"}}
-----------------------------------------------------------------------------
(* load_all_chats *)

LoadBegins == /\ Idle /\ synced /\ loading' = TRUE
              /\ marker' = Now /\ pages' = 0 /\ moved' = {}
              /\ UNCHANGED <<serverVars, lists, synced, history>>

LoadOver == loading' = FALSE /\ marker' = Now /\ pages' = 0

(* Mutant of LoadPage: a page that is not full is taken for the last. *)
LoadPageUntilShort ==
  LET page == Page(marker) fetched == Returned(page) IN
  /\ loading /\ lists' = Fetched(page)
  /\ IF Cardinality(fetched) < PageSize \/ pages + 1 = MaxPages THEN LoadOver
     ELSE /\ pages' = pages + 1 /\ UNCHANGED loading
          /\ \E c \in fetched : /\ marker' = stamp[c]
                                /\ \A d \in fetched : stamp[c] <= stamp[d]
  /\ UNCHANGED <<serverVars, synced, moved, history>>

(* Mutant of LoadPage: no limit of ten pages. *)
LoadPageForever ==
  LET page == Page(marker) fetched == Returned(page) IN
  /\ loading /\ lists' = Fetched(page)
  /\ IF fetched = {} THEN LoadOver
     ELSE /\ pages' = pages + 1 /\ UNCHANGED loading
          /\ \E c \in fetched : /\ marker' = stamp[c]
                                /\ \A d \in fetched : stamp[c] <= stamp[d]
  /\ UNCHANGED <<serverVars, synced, moved, history>>

(* One page: the loop ends when fetch_chats returns nothing, and otherwise   *)
(* goes on from the time of the last chat returned.                          *)
LoadPage ==
  LET page == Page(marker) fetched == Returned(page) IN
  /\ loading /\ lists' = Fetched(page)
  /\ IF fetched = {} \/ pages + 1 = MaxPages THEN LoadOver
     ELSE /\ pages' = pages + 1 /\ UNCHANGED loading
          /\ \E c \in fetched : /\ marker' = stamp[c]
                                /\ \A d \in fetched : stamp[c] <= stamp[d]
  /\ UNCHANGED <<serverVars, synced, moved, history>>

(* A page request failed: load_all_chats returns, the lists as they are.     *)
LoadFails == /\ loading /\ LoadOver
             /\ UNCHANGED <<serverVars, lists, synced, moved, history>>
-----------------------------------------------------------------------------
(* Joining, creating and leaving *)

(* create_group and join_chat append the chat to client.chats.               *)
Pushed(c) == lists' = [lists EXCEPT !["CHAT"][c] = @ + 1]

CreateGroup(c) ==
  /\ Idle /\ synced /\ c \notin Members \cup left /\ type[c] = "CHAT"
  /\ \A t \in Types : lists[t][c] = 0
  /\ Event(c) /\ Pushed(c)
  /\ UNCHANGED <<type, synced, loadVars, moved, history>>

(* join_chat: whatever the type of the chat, and whether listed or not.  One *)
(* whose answer does not parse fails, after the server has let the user in:  *)
(* that is NewEvent.                                                         *)
JoinChat(c) ==
  /\ Idle /\ synced /\ type[c] \notin {"DIALOG", "UNREADABLE"}
  /\ joins[c] < MaxJoins /\ joins' = [joins EXCEPT ![c] = @ + 1]
  /\ Event(c) /\ Pushed(c) /\ left' = left \ {c}
  /\ UNCHANGED <<type, synced, loadVars, moved>>

(* Mutant of LeaveChat: the channels are not searched. *)
LeaveChatOnly(c) ==
  /\ Idle /\ synced /\ c \in Members /\ type[c] # "DIALOG"
  /\ stamp' = [stamp EXCEPT ![c] = 0] /\ left' = left \cup {c}
  /\ lists' = [lists EXCEPT !["CHAT"][c] = 0]
  /\ joins' = [joins EXCEPT ![c] = 0]
  /\ UNCHANGED <<type, clock, synced, loadVars, moved>>

(* leave_chat: every entry goes from client.chats and client.channels.       *)
LeaveChat(c) ==
  /\ Idle /\ synced /\ c \in Members /\ type[c] # "DIALOG"
  /\ stamp' = [stamp EXCEPT ![c] = 0] /\ left' = left \cup {c}
  /\ lists' = [lists EXCEPT !["CHAT"][c] = 0, !["CHANNEL"][c] = 0]
  /\ joins' = [joins EXCEPT ![c] = 0]
  /\ UNCHANGED <<type, clock, synced, loadVars, moved>>
-----------------------------------------------------------------------------
(* The server and the account's other devices (external) *)

(* A message in a chat, or a chat joined elsewhere.                          *)
NewEvent(c) == /\ Event(c) /\ moved' = moved \cup {c} /\ left' = left \ {c}
               /\ UNCHANGED <<type, lists, synced, loadVars, joins>>

LeftElsewhere(c) == /\ c \in Members /\ stamp' = [stamp EXCEPT ![c] = 0]
                    /\ UNCHANGED <<type, clock, lists, synced, loadVars, moved, history>>
-----------------------------------------------------------------------------
Next == \/ Sync \/ Reset \/ LoadBegins \/ LoadPage \/ LoadFails
        \/ \E c \in ChatIds : \/ CreateGroup(c) \/ JoinChat(c) \/ LeaveChat(c)
                              \/ NewEvent(c) \/ LeftElsewhere(c)

Spec == Init /\ [][Next]_vars
-----------------------------------------------------------------------------
(* The rows shown for a chat: get_chat_list of the FFI client, and load of   *)
(* the desktop's list, put the three lists together as they are.             *)
Rows(c) == lists["DIALOG"][c] + lists["CHAT"][c] + lists["CHANNEL"][c]

(* A chat is shown once, unless it was joined again through this client      *)
(* (chats.rs 113, 205-226, sync.rs 41-70): no sequence of syncs, resets and  *)
(* overlapping pages lists it twice, and each join_chat adds at most one     *)
(* entry, be it a channel that join_chat files among the chats.              *)
RowsOnce == \A c \in ChatIds : Rows(c) <= 1 + joins[c]

(* A chat left through this client stays gone (chats.rs 118-126) through     *)
(* every later sync and page, until somebody joins it again.                 *)
LeftStaysGone == \A c \in left : lists["CHAT"][c] = 0 /\ lists["CHANNEL"][c] = 0

(* load_all_chats (ffi client.rs 334 "Load all chats via paginated           *)
(* fetch_chats", 340 "Fetch more chats in a loop until no new ones come."): a *)
(* load that ends without an error has listed every chat that can be read,   *)
(* but for those that moved while it ran.  The ten pages are not reached on  *)
(* the instance.                                                             *)
AllLoaded ==
  [][LoadPage /\ ~loading' =>
       \A c \in Members \ moved : ListOf(c) \in Types => lists'[ListOf(c)][c] > 0]_vars

(* A load that was not cut short by an error misses only chats that moved    *)
(* while it ran or that do not parse, and those older than its last page     *)
(* when all it returns of that page is empty (dialogs alone, or entries that *)
(* do not parse) or the page was the tenth (ffi client.rs 335-355, chats.rs  *)
(* 178-234): pages that overlap or that begin with dialogs leave no hole.    *)
LoadLeavesNoHole ==
  [][LoadPage /\ ~loading' =>
       LET page == Page(marker)
           cut  == (page # {} /\ Returned(page) = {}) \/ pages + 1 = MaxPages IN
       \A c \in Members \ moved : ListOf(c) \in Types =>
         \/ lists'[ListOf(c)][c] > 0
         \/ cut /\ \A d \in page : stamp[c] < stamp[d]]_vars
=============================================================================
