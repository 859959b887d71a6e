----------------------------- MODULE Conversation -----------------------------
(***************************************************************************)
(* One open conversation of the macOS app: ConversationViewModel.swift on  *)
(* the main actor, the message cache (MessageCache.swift), the event       *)
(* bridge that writes into the cache from a thread of its own and posts to *)
(* the main actor (MaxService.swift), the preload of all chats, and the    *)
(* FFI calls under them (ffi client.rs, protocol/messages.rs).             *)
(*                                                                         *)
(* A message is its number, in the order of time, and the version of its   *)
(* text.  A call is answered in one step, when the server acts, and its    *)
(* answer is applied in a later one, when the main actor resumes the       *)
(* caller: whatever the bridge and other calls do in between comes first.  *)
(* A page of older messages is asked for in a step before that, which      *)
(* reads what is shown.  The cache's database opens, and its statements    *)
(* succeed.                                                                *)
(***************************************************************************)
EXTENDS Integers, Sequences, FiniteSets

CONSTANTS MaxMessages,  \* bound: messages of the chat
          MaxChanges,   \* bound: messages edited, once each, or deleted
          MaxUnderWay,  \* bound: events and calls under way together
          Page,         \* messages asked for at a time (50)
          Limit         \* messages loadMessages returns (200)

ASSUME SizesAssumption  == {Page, Limit} \subseteq Nat \ {0}
ASSUME BoundsAssumption == {MaxMessages, MaxChanges, MaxUnderWay} \subseteq Nat

VARIABLES top,       \* messages so far (external)
          live,      \* those not deleted (external)
          version,   \* message -> version of its text (external)
          bridgeQ,   \* events pushed, not yet taken by the bridge
          mainQ,     \* events posted to the main actor
          cache,     \* message -> version cached, 0 for none
          shown,     \* view model: messages
          hasMore,   \* view model: hasMoreHistory
          calls,     \* pages asked for, answers not yet applied and deletions
                     \* not yet made
          missed,    \* messages no event told of at their time, or that an
                     \* edit of an older one skipped (history)
          own,       \* messages sent from this view since it opened (history)
          kept       \* messages this view took in since it opened and that
                     \* were not deleted since (history)

serverVars == <<top, live, version>>
queues     == <<bridgeQ, mainQ>>
view       == <<shown, hasMore>>
history    == <<missed, own, kept>>
vars       == <<serverVars, queues, cache, view, calls, history>>

Ids    == 1 .. MaxMessages
Item   == [id : Ids, ver : 1 .. 2]
Event  == [kind : {"new", "edit", "delete"}, item : Item]
Call   == [op : {"load", "ask", "more", "late", "preload", "send", "edit", "delete"},
           items : SUBSET Item]
Cached == {i \in Ids : cache[i] > 0}
UnderWay == Len(bridgeQ) + Len(mainQ) + Cardinality(calls)

(* Two pages are never asked for at once, and the cache is never ahead of    *)
(* the server (ConversationViewModel.swift 117-121, MessageCache.swift       *)
(* 78-110).                                                                  *)
TypeOK == /\ top \in 0 .. MaxMessages /\ live \subseteq 1 .. top
          /\ version \in [Ids -> 1 .. 2]
          /\ bridgeQ \in Seq(Event) /\ mainQ \in Seq(Event)
          /\ UnderWay <= MaxUnderWay + 1   \* SendAnswered may add two
          /\ cache \in [Ids -> 0 .. 2]
          /\ \A i \in Cached : i <= top /\ cache[i] <= version[i]
          /\ shown \in Seq(Item) /\ hasMore \in BOOLEAN
          /\ calls \subseteq Call
          /\ \A c, d \in calls : c.op \in {"ask", "more"} /\ d.op \in {"ask", "more"} => c = d
          /\ missed \subseteq Ids /\ own \subseteq Ids /\ kept \subseteq Ids

ShownIds == {shown[k].id : k \in DOMAIN shown}
Count(i) == Cardinality({k \in DOMAIN shown : shown[k].id = i})
-----------------------------------------------------------------------------
(* MessageCache *)

(* A finite set of numbers as the sequence of its elements, smallest first.  *)
InOrder(S) ==
  [k \in 1 .. Cardinality(S) |-> CHOOSE i \in S : Cardinality({j \in S : j < i}) = k - 1]

(* saveMessages: INSERT OR REPLACE of each.                                  *)
Stored(table, items) ==
  [i \in Ids |-> IF \E m \in items : m.id = i THEN (CHOOSE m \in items : m.id = i).ver
                 ELSE table[i]]

Saved(items) == Stored(cache, items)

(* loadMessages: ORDER BY time ASC LIMIT 200, which are the oldest.          *)
LoadMessages(table) ==
  LET ids == InOrder({i \in Ids : table[i] > 0})
      n   == IF Len(ids) > Limit THEN Limit ELSE Len(ids) IN
  [k \in 1 .. n |-> [id |-> ids[k], ver |-> table[ids[k]]]]

(* The app opens the conversation on what earlier runs of it have cached.    *)
(* What was sent while it did not run is missed.                             *)
Init == /\ top \in 0 .. MaxMessages - 1 /\ live = 1 .. top
        /\ version = [i \in Ids |-> 1]
        /\ \E S \in SUBSET (1 .. top) : cache = [i \in Ids |-> IF i \in S THEN 1 ELSE 0]
        /\ missed = {i \in 1 .. top : cache[i] = 0 /\ \E j \in 1 .. i : cache[j] > 0}
        /\ bridgeQ = <<>> /\ mainQ = <<>>
        /\ shown = LoadMessages(cache) /\ hasMore = TRUE
        /\ calls = {} /\ own = {} /\ kept = {}
-----------------------------------------------------------------------------
(* The server and the event stream (external) *)

Pushed(kind, i, v) ==
  /\ UnderWay < MaxUnderWay
  /\ bridgeQ' = Append(bridgeQ, [kind |-> kind, item |-> [id |-> i, ver |-> v]])
  /\ UNCHANGED missed

(* The event reaches the bridge, or does not: the stream lags, or the bridge *)
(* is subscribed to a transport that was replaced.                           *)
Push(kind, i, v) ==
  \/ Pushed(kind, i, v)
  \/ /\ missed' = IF kind = "new" THEN missed \cup {i} ELSE missed
     /\ UNCHANGED bridgeQ

Created == /\ top < MaxMessages /\ top' = top + 1 /\ live' = live \cup {top + 1}
           /\ UNCHANGED version

Changes == Cardinality({i \in 1 .. top : i \notin live \/ version[i] = 2})

Edited(i) == /\ i \in live /\ version[i] = 1 /\ Changes < MaxChanges
             /\ version' = [version EXCEPT ![i] = @ + 1] /\ UNCHANGED <<top, live>>

Deleted(i) == /\ i \in live => Changes < MaxChanges
              /\ live' = live \ {i} /\ UNCHANGED <<top, version>>

OthersSend   == /\ Created /\ Push("new", top + 1, 1)
                /\ UNCHANGED <<mainQ, cache, view, calls, own, kept>>
OthersEdit   == /\ \E i \in live : Edited(i) /\ Push("edit", i, 2)
                /\ UNCHANGED <<mainQ, cache, view, calls, own, kept>>
OthersDelete == /\ \E i \in live : Deleted(i) /\ Push("delete", i, version[i])
                /\ UNCHANGED <<mainQ, cache, view, calls, own, kept>>

(* fetch_history: the newest n messages before one.                          *)
History(before) ==
  LET older == {i \in live : i < before} IN
  {[id |-> i, ver |-> version[i]] :
     i \in {j \in older : Cardinality({k \in older : k > j}) < Page}}
-----------------------------------------------------------------------------
(* The event bridge *)

(* Mutant of BridgeTakes: nothing is cached before the event is posted. *)
BridgeTakesNoSave ==
  /\ bridgeQ # <<>>
  /\ mainQ' = Append(mainQ, Head(bridgeQ)) /\ bridgeQ' = Tail(bridgeQ)
  /\ UNCHANGED <<serverVars, cache, view, calls, history>>

(* onNewMessage and onMessageEdited cache the message, then post; a deletion *)
(* is only posted.  An edited message that was not cached now is, alone.     *)
BridgeTakes ==
  /\ bridgeQ # <<>>
  /\ cache' = IF Head(bridgeQ).kind = "delete" THEN cache ELSE Saved({Head(bridgeQ).item})
  /\ missed' = missed \cup {i \in 1 .. top : /\ Head(bridgeQ).kind = "edit"
                                            /\ Head(bridgeQ).item.id \notin Cached
                                            /\ i > Head(bridgeQ).item.id
                                            /\ i \notin Cached}
  /\ mainQ' = Append(mainQ, Head(bridgeQ)) /\ bridgeQ' = Tail(bridgeQ)
  /\ UNCHANGED <<serverVars, view, calls, own, kept>>
-----------------------------------------------------------------------------
(* The view model: events *)

(* The first of the shown with m's number is replaced, if there is one.      *)
Replaced(m) ==
  LET first == {k \in DOMAIN shown : /\ shown[k].id = m.id
                                     /\ \A j \in 1 .. k - 1 : shown[j].id # m.id} IN
  [k \in DOMAIN shown |-> IF k \in first THEN m ELSE shown[k]]

Without(i) == LET others == InOrder({k \in DOMAIN shown : shown[k].id # i}) IN
              [n \in DOMAIN others |-> shown[others[n]]]

(* Mutant of HandleNew: appended without a look at what is shown. *)
HandleNewBlindly(m) ==
  /\ shown' = Append(shown, m) /\ cache' = Saved({m}) /\ kept' = kept \cup {m.id}

HandleNew(m) ==
  /\ IF m.id \in ShownIds THEN UNCHANGED <<shown, cache>>
     ELSE shown' = Append(shown, m) /\ cache' = Saved({m})
  /\ kept' = kept \cup {m.id}

HandleEdit(m) ==
  /\ shown' = Replaced(m) /\ UNCHANGED kept
  /\ cache' = IF m.id \in ShownIds THEN Saved({m}) ELSE cache

HandleDelete(m) ==
  shown' = Without(m.id) /\ kept' = kept \ {m.id} /\ UNCHANGED cache

MainHandles ==
  /\ mainQ # <<>> /\ mainQ' = Tail(mainQ)
  /\ LET e == Head(mainQ) IN
     CASE e.kind = "new"  -> HandleNew(e.item)
       [] e.kind = "edit" -> HandleEdit(e.item)
       [] OTHER           -> HandleDelete(e.item)
  /\ UNCHANGED <<serverVars, bridgeQ, hasMore, calls, missed, own>>
-----------------------------------------------------------------------------
(* The view model and the preload: history *)

NoEvents == UNCHANGED <<queues, history>>

Called(op, items) == /\ UnderWay < MaxUnderWay
                     /\ calls' = calls \cup {[op |-> op, items |-> items]}

Asks(op, before) == /\ Called(op, History(before))
                    /\ UNCHANGED <<serverVars, cache, view>> /\ NoEvents

Newest == MaxMessages + 1   \* fromTime: nil

LoadAnswered    == Asks("load", Newest)
PreloadAnswered == Asks("preload", Newest)

(* Mutant of MoreAsked: the guard on isLoadingMore dropped. *)
MoreAskedTwice == /\ hasMore /\ shown # <<>> /\ Called("ask", {shown[1]})
                  /\ UNCHANGED <<serverVars, cache, view>> /\ NoEvents

(* loadMoreHistory asks for what is older than the first message shown.      *)
MoreAsked == /\ hasMore /\ shown # <<>> /\ \A c \in calls : c.op \notin {"ask", "more"}
             /\ Called("ask", {shown[1]})
             /\ UNCHANGED <<serverVars, cache, view>> /\ NoEvents

(* The page as it is by the time the server answers.  What was asked for by  *)
(* a view model that is gone ("late") is answered for the cache alone.       *)
MoreAnswered ==
  \E c \in calls :
    /\ c.op \in {"ask", "late"}
    /\ \E m \in c.items :
         calls' = (calls \ {c}) \cup {[op    |-> IF c.op = "ask" THEN "more" ELSE "preload",
                                     items |-> History(m.id)]}
    /\ UNCHANGED <<serverVars, cache, view>> /\ NoEvents

MoreFails == \E c \in calls : /\ c.op \in {"ask", "late"} /\ calls' = calls \ {c}
                              /\ UNCHANGED <<serverVars, cache, view>> /\ NoEvents

(* Mutant of HistoryApplied: shows the answer, not the cache. *)
HistoryAppliedDirectly ==
  \E c \in calls : /\ c.op \in {"load", "more"} /\ calls' = calls \ {c}
                   /\ cache' = Saved(c.items)
                   /\ shown' = LoadMessages(Stored([i \in Ids |-> 0], c.items))
                   /\ hasMore' = (Cardinality(c.items) >= Page)
                   /\ UNCHANGED serverVars /\ NoEvents

(* loadHistory or loadMoreHistory resumes: cache the answer, show the cache. *)
HistoryApplied ==
  \E c \in calls : /\ c.op \in {"load", "more"} /\ calls' = calls \ {c}
                   /\ cache' = Saved(c.items) /\ shown' = LoadMessages(cache')
                   /\ hasMore' = (Cardinality(c.items) >= Page)
                   /\ UNCHANGED serverVars /\ NoEvents

(* preloadMessages: from a thread that only fills the cache.                 *)
PreloadSaved ==
  \E c \in calls : /\ c.op = "preload" /\ calls' = calls \ {c} /\ cache' = Saved(c.items)
                   /\ UNCHANGED <<serverVars, view>> /\ NoEvents
-----------------------------------------------------------------------------
(* The view model: sending, editing, deleting *)

(* The server stores the message and answers; it may push it here as well.   *)
SendAnswered ==
  /\ Created /\ Called("send", {[id |-> top + 1, ver |-> 1]})
  /\ own' = own \cup {top + 1}
  /\ Pushed("new", top + 1, 1) \/ UNCHANGED <<bridgeQ, missed>>
  /\ UNCHANGED <<mainQ, cache, view, kept>>

(* sendMessage resumes: append, whatever is shown.                           *)
SendApplied ==
  \E c \in calls : /\ c.op = "send" /\ calls' = calls \ {c} /\ cache' = Saved(c.items)
                   /\ \E m \in c.items : shown' = Append(shown, m) /\ kept' = kept \cup {m.id}
                   /\ UNCHANGED <<serverVars, queues, hasMore, missed, own>>

EditAnswered ==
  \E i \in ShownIds : /\ Edited(i) /\ Called("edit", {[id |-> i, ver |-> 2]})
                      /\ Push("edit", i, 2)
                      /\ UNCHANGED <<mainQ, cache, view, own, kept>>

EditApplied ==
  \E c \in calls : /\ c.op = "edit" /\ calls' = calls \ {c} /\ cache' = Saved(c.items)
                   /\ \E m \in c.items : shown' = Replaced(m)
                   /\ UNCHANGED <<serverVars, hasMore>> /\ NoEvents

(* deleteMessage: gone from the screen at once, the request in the background. *)
DeletePressed ==
  \E k \in DOMAIN shown :
    LET m == shown[k] IN
    /\ Called("delete", {m})
    /\ shown' = Without(m.id) /\ kept' = kept \ {m.id}
    /\ UNCHANGED <<serverVars, queues, cache, hasMore, missed, own>>

(* The request reaches the server, which may push the deletion, or fails.    *)
DeleteEnds ==
  \E c \in calls : /\ c.op = "delete" /\ calls' = calls \ {c}
                   /\ \/ /\ \E m \in c.items : /\ Deleted(m.id)
                                             /\ Push("delete", m.id, m.ver)
                         /\ UNCHANGED <<mainQ, own, kept>>
                      \/ UNCHANGED serverVars /\ NoEvents
                   /\ UNCHANGED <<cache, view>>

(* The view model that made a call is gone: what the call still does is to   *)
(* save its answer.                                                          *)
Detached(c) == IF c.op = "delete" THEN c
               ELSE [c EXCEPT !.op = IF c.op \in {"ask", "late"} THEN "late" ELSE "preload"]

(* Another conversation was shown and this one is opened anew.  Events that  *)
(* were already scheduled for the old view model are dropped with it.        *)
Reopen == /\ shown' = LoadMessages(cache) /\ hasMore' = TRUE /\ kept' = {} /\ own' = {}
          /\ calls' = {Detached(c) : c \in calls}
          /\ \E n \in 0 .. Len(mainQ) : mainQ' = SubSeq(mainQ, n + 1, Len(mainQ))
          /\ UNCHANGED <<serverVars, bridgeQ, cache, missed>>
-----------------------------------------------------------------------------
Next == \/ OthersSend \/ OthersEdit \/ OthersDelete \/ BridgeTakes \/ MainHandles
        \/ LoadAnswered \/ MoreAsked \/ MoreAnswered \/ MoreFails \/ HistoryApplied
        \/ PreloadAnswered \/ PreloadSaved
        \/ SendAnswered \/ SendApplied \/ EditAnswered \/ EditApplied
        \/ DeletePressed \/ DeleteEnds \/ Reopen

Spec == Init /\ [][Next]_vars
-----------------------------------------------------------------------------
(* A message is shown twice only when it was sent from here and its push was *)
(* handled before the answer (ConversationViewModel.swift 38-41, 106, 138,   *)
(* 193): no order of events, loads and edits duplicates any other.           *)
DuplicateOnlyOfOwnSend ==
  \A i \in Ids : Count(i) <= IF i \in own THEN 2 ELSE 1

(* Nothing the view has taken in is lost again (ConversationViewModel.swift  *)
(* 33-45, 80-142, 193, MaxService.swift 187-193): a pushed or sent message   *)
(* survives every load that was answered before it and applied after, unless *)
(* it is deleted or the cache holds more than loadMessages returns; and what *)
(* is shown is cached, so that opening the conversation anew shows it.       *)
NothingLost ==
  /\ kept \subseteq ShownIds \/ Cardinality(Cached) > Limit
  /\ ShownIds \subseteq Cached

(* Told of by an answer or an event that is still under way.                 *)
Announced(i) == \/ \E k \in DOMAIN bridgeQ : bridgeQ[k].item.id = i
                \/ \E k \in DOMAIN mainQ : mainQ[k].item.id = i
                \/ \E c \in calls : \E m \in c.items : m.id = i

(* The cached history has no holes but those of missed events, and once      *)
(* hasMoreHistory is false it reaches back to the first message              *)
(* (ConversationViewModel.swift 103-107, 116-138, MaxService.swift 123-139,  *)
(* 189): what lies between two cached messages is cached, under way, or was  *)
(* never told of or skipped by an edit.                                      *)
HistoryWhole ==
  \A i \in live \ (Cached \cup missed) :
    (\E j \in Cached : i < j) /\ ((\E j \in Cached : j < i) \/ ~hasMore) => Announced(i)
=============================================================================
