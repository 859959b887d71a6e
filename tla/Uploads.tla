------------------------------- MODULE Uploads -------------------------------
(***************************************************************************)
(* Uploads of files, videos and photos (protocol/files.rs): each asks for  *)
(* an upload URL, registers a waiter under the id it was given, sends the  *)
(* data over HTTP and waits for the NOTIF_ATTACH that confirms the id.  A  *)
(* watcher task takes the frames of the transport's broadcast channel and  *)
(* fulfils the waiters.  Uploads run concurrently: they borrow the client  *)
(* immutably, so the transport is never replaced under one.                *)
(*                                                                         *)
(* The server numbers files and videos apart, and the waiters of both are  *)
(* in one map: a file and a video may meet under one number.               *)
(***************************************************************************)
EXTENDS Integers, Sequences

CONSTANTS Uploads,     \* upload calls
          KindsOf,     \* what they may upload: functions from calls to kinds
          Ids,         \* the numbers the server gives out
          Capacity     \* of the broadcast channel (256)

ASSUME IdsAssumption      == Ids # {} /\ Ids \subseteq Nat \ {0}
ASSUME KindsAssumption    == KindsOf \subseteq [Uploads -> {"photo", "file", "video"}]
ASSUME CapacityAssumption == Capacity \in Nat \ {0}
ASSUME NoneAssumption     == "none" \notin Uploads

VARIABLES pc,       \* upload -> where its call is
          kind,     \* upload -> what it uploads
          id,       \* upload -> the id the server gave it, 0 for none
          rx,       \* upload -> its oneshot channel
          waiters,  \* UploadWaiters: id -> upload whose sender is stored, or none
          watcher,  \* the watcher task
          tuned,    \* the watcher's receiver is of the transport in use
          inbox,    \* frames the watcher has not taken
          lagged,   \* frames were dropped from it
          arrived,  \* <<kind, id>> whose data the server has (external)
          notified, \* <<kind, id>> it has confirmed (external)
          taken     \* <<kind, id>> of the frames the watcher took (history)

callVars   == <<pc, kind, id, rx, waiters>>
watchVars  == <<watcher, tuned, inbox, lagged, taken>>
serverVars == <<arrived, notified>>
vars       == <<callVars, watchVars, serverVars>>

Kinds   == {"photo", "file", "video"}
Waited  == {"file", "video"}     \* the kinds that wait for a confirmation
None    == "none"
Keyed   == Waited \X Ids
Places  == {"idle", "url", "sending", "waiting", "ok", "failed", "leaked"}
Ended   == {"ok", "failed", "leaked"}   \* leaked: failed, its waiter left behind
Frames  == SUBSET Keyed          \* {}: a frame of another opcode

TypeOK == /\ pc \in [Uploads -> Places] /\ kind \in [Uploads -> Kinds]
          /\ id \in [Uploads -> Ids \cup {0}]
          /\ rx \in [Uploads -> {None, "open", "full", "closed"}]
          /\ waiters \in [Ids -> Uploads \cup {None}]
          /\ watcher \in {"running", "ended"} /\ tuned \in BOOLEAN
          /\ inbox \in Seq(Frames) /\ Len(inbox) <= Capacity /\ lagged \in BOOLEAN
          /\ arrived \subseteq Keyed /\ notified \subseteq arrived /\ taken \subseteq notified

Init == /\ pc = [u \in Uploads |-> "idle"] /\ kind \in KindsOf
        /\ id = [u \in Uploads |-> 0] /\ rx = [u \in Uploads |-> None]
        /\ waiters = [i \in Ids |-> None]
        /\ watcher = "running" /\ tuned = TRUE /\ inbox = <<>> /\ lagged = FALSE
        /\ arrived = {} /\ notified = {} /\ taken = {}

Go(u, from, to) == pc[u] = from /\ pc' = [pc EXCEPT ![u] = to]
NoCall == UNCHANGED callVars
Rest   == UNCHANGED <<watchVars, serverVars>>

Key(u) == <<kind[u], id[u]>>
-----------------------------------------------------------------------------
(* UploadWaiters *)

(* What dropping the senders of the uploads in S does to their receivers.    *)
SendersDropped(S) ==
  [u \in Uploads |-> IF u \in S /\ rx[u] = "open" THEN "closed" ELSE rx[u]]

(* wait_for: a sender already stored under the id is dropped.                *)
WaitFor(u, i) == /\ rx' = [SendersDropped({waiters[i]}) EXCEPT ![u] = "open"]
                 /\ waiters' = [waiters EXCEPT ![i] = u]

(* cancel: removes whatever is stored under the id.                          *)
Cancel(i) == /\ rx' = SendersDropped({waiters[i]})
             /\ waiters' = [waiters EXCEPT ![i] = None]

(* Mutant of TryFulfill: only the key fileId is looked at. *)
FulfillsFilesOnly(frame) ==
  LET ids == {k[2] : k \in {f \in frame : f[1] = "file"}} IN
  /\ rx' = [u \in Uploads |->
              IF \E i \in ids : waiters[i] = u THEN "full" ELSE rx[u]]
  /\ waiters' = [i \in Ids |-> IF i \in ids THEN None ELSE waiters[i]]

(* Mutant of TryFulfill: remove(fileId).or(remove(videoId)), whose argument  *)
(* Rust evaluates also when it is not needed: the second sender is dropped.  *)
FulfillsOneDropsOther(frame) ==
  LET ids  == {k[2] : k \in frame}
      held == {i \in ids : waiters[i] # None}
      one  == CHOOSE i \in held : TRUE IN
  /\ rx' = [u \in Uploads |->
              IF held # {} /\ waiters[one] = u THEN "full"
              ELSE IF \E i \in held : waiters[i] = u THEN "closed" ELSE rx[u]]
  /\ waiters' = [i \in Ids |-> IF i \in ids THEN None ELSE waiters[i]]

(* try_fulfill: the frame's fileId and its videoId, each looked up in the    *)
(* one map; a receiver that is gone is no error.                             *)
TryFulfill(frame) ==
  LET ids == {k[2] : k \in frame} IN
  /\ rx' = [u \in Uploads |->
              IF \E i \in ids : waiters[i] = u THEN "full" ELSE rx[u]]
  /\ waiters' = [i \in Ids |-> IF i \in ids THEN None ELSE waiters[i]]
-----------------------------------------------------------------------------
(* The calls *)

Call(u) == /\ Go(u, "idle", "url")
           /\ UNCHANGED <<kind, id, rx, waiters>> /\ Rest

(* The URL request failed, or its answer lacks a field.                      *)
UrlRefused(u) == /\ Go(u, "url", "failed")
                 /\ UNCHANGED <<kind, id, rx, waiters>> /\ Rest

PhotoUrl(u) == /\ kind[u] = "photo" /\ Go(u, "url", "sending")
               /\ UNCHANGED <<kind, id, rx, waiters>> /\ Rest

(* Mutant of UrlGranted: the waiter is registered only after the HTTP post. *)
UrlGrantedNoWaiter(u) ==
  /\ kind[u] \in Waited /\ Go(u, "url", "sending")
  /\ \E i \in Ids : /\ \A v \in Uploads : Key(v) # <<kind[u], i>>
                    /\ id' = [id EXCEPT ![u] = i]
                    /\ rx' = [rx EXCEPT ![u] = "open"]
  /\ UNCHANGED <<kind, waiters>> /\ Rest

(* The answer gives an id, new among those of its kind; the waiter is        *)
(* registered before any byte is sent.                                       *)
UrlGranted(u) ==
  /\ kind[u] \in Waited /\ Go(u, "url", "sending")
  /\ \E i \in Ids : /\ \A v \in Uploads : Key(v) # <<kind[u], i>>
                    /\ id' = [id EXCEPT ![u] = i]
                    /\ WaitFor(u, i)
  /\ UNCHANGED kind /\ Rest

(* send().await? failed: the call returns and its waiter stays in the map.   *)
HttpBroken(u) ==
  /\ Go(u, "sending", IF kind[u] \in Waited THEN "leaked" ELSE "failed")
  /\ UNCHANGED <<kind, id, rx, waiters>> /\ Rest

(* A status other than success: the waiter is cancelled.                     *)
HttpRefused(u) ==
  /\ Go(u, "sending", "failed")
  /\ IF kind[u] \in Waited THEN Cancel(id[u]) ELSE UNCHANGED <<rx, waiters>>
  /\ UNCHANGED <<kind, id>> /\ Rest

HttpOk(u) == /\ kind[u] \in Waited /\ Key(u) \in arrived /\ Go(u, "sending", "waiting")
             /\ UNCHANGED <<kind, id, rx, waiters>> /\ Rest

(* A photo's token comes with the HTTP answer.                               *)
PhotoOk(u) == /\ kind[u] = "photo" /\ Go(u, "sending", "ok")
              /\ UNCHANGED <<kind, id, rx, waiters>> /\ Rest

Confirmed(u) == /\ rx[u] = "full" /\ Go(u, "waiting", "ok")
                /\ UNCHANGED <<kind, id, rx, waiters>> /\ Rest

(* The timer (DEFAULT_TIMEOUT) expired, or the sender was dropped.           *)
WaitFails(u) == /\ rx[u] # "full" /\ Go(u, "waiting", "failed")
                /\ Cancel(id[u]) /\ UNCHANGED <<kind, id>> /\ Rest
-----------------------------------------------------------------------------
(* The watcher *)

(* Mutant of Received: the channel has no bound. *)
ReceivedUnbounded(f) ==
  IF watcher = "running" /\ tuned
  THEN inbox' = Append(inbox, f) /\ UNCHANGED lagged
  ELSE UNCHANGED <<inbox, lagged>>

(* A receiver that is behind loses the oldest frame.                         *)
Received(f) ==
  IF watcher = "running" /\ tuned
  THEN /\ inbox' = Append(IF Len(inbox) = Capacity THEN Tail(inbox) ELSE inbox, f)
       /\ lagged' = (lagged \/ Len(inbox) = Capacity)
  ELSE UNCHANGED <<inbox, lagged>>

WatcherTakes ==
  /\ watcher = "running" /\ ~lagged /\ inbox # <<>>
  /\ TryFulfill(Head(inbox)) /\ inbox' = Tail(inbox)
  /\ taken' = taken \cup Head(inbox)
  /\ UNCHANGED <<pc, kind, id, watcher, tuned, lagged, serverVars>>

(* recv() reports the frames that were dropped; the loop goes on.            *)
WatcherLagged ==
  /\ watcher = "running" /\ lagged /\ lagged' = FALSE
  /\ UNCHANGED <<callVars, watcher, tuned, inbox, taken, serverVars>>

(* Closed: the senders of the old transport are gone and its frames taken.   *)
WatcherEnds ==
  /\ watcher = "running" /\ ~tuned /\ inbox = <<>> /\ ~lagged
  /\ watcher' = "ended"
  /\ UNCHANGED <<callVars, tuned, inbox, lagged, taken, serverVars>>

(* spawn_upload_watcher, again, on the transport in use.                     *)
SpawnWatcher ==
  /\ watcher = "ended" /\ watcher' = "running" /\ tuned' = TRUE
  /\ UNCHANGED <<callVars, inbox, lagged, taken, serverVars>>

(* reset_for_reconnect needs the client for itself: no call is running.      *)
TransportReplaced ==
  /\ \A u \in Uploads : pc[u] \in Ended \cup {"idle"}
  /\ tuned' = FALSE
  /\ UNCHANGED <<callVars, watcher, inbox, lagged, taken, serverVars>>
-----------------------------------------------------------------------------
(* The server (external) *)

DataArrives(u) == /\ pc[u] = "sending" /\ kind[u] \in Waited
                  /\ arrived' = arrived \cup {Key(u)}
                  /\ NoCall /\ UNCHANGED <<watchVars, notified>>

(* NOTIF_ATTACH for a file, a video, or one of each.                         *)
Notify == \E f \in SUBSET (arrived \ notified) :
            /\ f # {} /\ \A a, b \in f : a[1] = b[1] => a = b
            /\ notified' = notified \cup f /\ Received(f)
            /\ NoCall
            /\ UNCHANGED <<watcher, tuned, taken, arrived>>

OtherFrame == /\ Received({}) /\ NoCall
              /\ UNCHANGED <<watcher, tuned, taken, serverVars>>
-----------------------------------------------------------------------------
UploadStep(u) == \/ UrlRefused(u) \/ PhotoUrl(u) \/ UrlGranted(u)
                 \/ HttpBroken(u) \/ HttpRefused(u) \/ HttpOk(u) \/ PhotoOk(u)
                 \/ Confirmed(u) \/ WaitFails(u)

Next == \/ \E u \in Uploads : Call(u) \/ UploadStep(u) \/ DataArrives(u)
        \/ WatcherTakes \/ WatcherLagged \/ WatcherEnds \/ SpawnWatcher
        \/ TransportReplaced \/ Notify \/ OtherFrame

Spec == Init /\ [][Next]_vars
-----------------------------------------------------------------------------
(* No other upload was given the number of u.                                *)
Alone(u) == \A v \in Uploads \ {u} : id[v] # id[u]

InProgress(u) == pc[u] \in {"sending", "waiting"}

(* The map and the calls agree (files.rs 55-84, 201, 218, 232): an entry is  *)
(* of a call in progress under that id, or of one whose HTTP exchange broke; *)
(* and a call in progress that shares its id with no other is in the map     *)
(* until it is fulfilled, so that no other upload's failure, cancellation or *)
(* confirmation takes its waiter away, however the calls interleave.         *)
WaitersAgree ==
  /\ \A i \in Ids : waiters[i] # None =>
       LET u == waiters[i] IN
       id[u] = i /\ rx[u] = "open" /\ (InProgress(u) \/ pc[u] = "leaked")
  /\ \A u \in Uploads : kind[u] \in Waited /\ InProgress(u) /\ Alone(u) =>
       (rx[u] = "open" /\ waiters[id[u]] = u) \/ rx[u] = "full"

(* A success is a confirmation, and a confirmation is not missed (files.rs   *)
(* 63-79, 88-105, 226): a file or video reported as uploaded was confirmed   *)
(* by the server, by a frame of its own unless its id is shared; and a call  *)
(* whose confirmation the watcher took, even before the HTTP answer came, is *)
(* never left waiting for it.                                                *)
ConfirmedExactly ==
  \A u \in Uploads : kind[u] \in Waited =>
    /\ pc[u] = "ok" => /\ \E k \in Waited : <<k, id[u]>> \in taken
                       /\ Alone(u) => Key(u) \in taken
    /\ Key(u) \in taken /\ InProgress(u) /\ Alone(u) => rx[u] = "full"

(* A call in progress loses its sender, and so fails at once with a Timeout  *)
(* that no timer caused (files.rs 231), on one occasion only: a call of the  *)
(* other kind was given the same number and registers under it, or is        *)
(* refused, or gives up (files.rs 55-84, 218, 232).  No frame, no call of    *)
(* its own kind, and no entry a broken call left behind (215) takes it.      *)
LostToNamesakeOnly ==
  [][\A u \in Uploads :
       rx[u] = "open" /\ rx'[u] = "closed" /\ InProgress(u) /\ InProgress(u)'
         => \E v \in Uploads : /\ id'[v] = id[u] /\ kind[v] \in Waited \ {kind[u]}
                               /\ pc[v] \in {"url", "sending", "waiting"}
                               /\ pc'[v] \in {"sending", "failed"} \ {pc[v]}]_vars
=============================================================================
