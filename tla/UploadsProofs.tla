---------------------------- MODULE UploadsProofs ----------------------------
(***************************************************************************)
(* What holds of Uploads for every set of calls, whatever they upload, any *)
(* numbers the server gives out and any capacity of the channel.           *)
(***************************************************************************)
EXTENDS Uploads, TLAPS

(* Where a call is says whether it has an id. *)
Numbered ==
  \A u \in Uploads :
    /\ pc[u] \in {"idle", "url"} => id[u] = 0
    /\ kind[u] = "photo" => id[u] = 0
    /\ kind[u] \in Waited /\ pc[u] \in {"sending", "waiting"} => id[u] \in Ids
    /\ pc[u] = "waiting" => kind[u] \in Waited

(* The frames that wait are of confirmations the server has sent, and what   *)
(* it has received was sent under the id of a call.                          *)
FromServer ==
  /\ \A n \in 1 .. Len(inbox) : inbox[n] \subseteq notified
  /\ \A a \in arrived : \E u \in Uploads : a = Key(u)

(* What a call holds as confirmed was in a frame the watcher took, and what  *)
(* the watcher took for a call alone under its id has reached that call.     *)
Fulfilled ==
  \A u \in Uploads :
    /\ rx[u] = "full" => \E k \in Waited : <<k, id[u]>> \in taken
    /\ kind[u] \in Waited /\ pc[u] = "ok" => \E k \in Waited : <<k, id[u]>> \in taken
    /\ kind[u] \in Waited /\ InProgress(u) /\ Key(u) \in taken /\ Alone(u) => rx[u] = "full"

UploadInv == TypeOK /\ Numbered /\ FromServer /\ WaitersAgree /\ Fulfilled

LEMMA NoCallIsNone == None \notin Uploads
BY NoneAssumption DEF None

LEMMA ZeroIsNoId == 0 \notin Ids
BY IdsAssumption

LEMMA UploadInit == Init => UploadInv
<1> SUFFICES ASSUME Init PROVE UploadInv  OBVIOUS
<1> USE NoCallIsNone DEF Init
<1>1. TypeOK
  <2>1. /\ pc \in [Uploads -> Places] /\ id \in [Uploads -> Ids \cup {0}]
        /\ rx \in [Uploads -> {None, "open", "full", "closed"}]
        /\ waiters \in [Ids -> Uploads \cup {None}]
        BY DEF Places
  <2>2. kind \in [Uploads -> Kinds]  BY KindsAssumption DEF Kinds
  <2>3. inbox \in Seq(Frames) /\ Len(inbox) <= Capacity  BY CapacityAssumption
  <2> QED  BY <2>1, <2>2, <2>3 DEF TypeOK
<1>2. Numbered  BY DEF Numbered
<1>3. FromServer  BY DEF FromServer
<1>4. WaitersAgree  BY DEF WaitersAgree, InProgress
<1>5. Fulfilled  BY DEF Fulfilled, InProgress, None
<1> QED  BY <1>1, <1>2, <1>3, <1>4, <1>5 DEF UploadInv

(* Dropping the senders of the waiter at an id closes that channel and no    *)
(* other.                                                                    *)
LEMMA OneSenderDropped ==
  ASSUME TypeOK, NEW i \in Ids
  PROVE  LET s == SendersDropped({waiters[i]}) IN
         /\ s \in [Uploads -> {None, "open", "full", "closed"}]
         /\ \A v \in Uploads : /\ v # waiters[i] => s[v] = rx[v]
                               /\ s[v] = "full" <=> rx[v] = "full"
BY DEF SendersDropped, TypeOK

(* The steps of a call that leave ids, channels and the map alone. *)
LEMMA PlaceStepKeeps ==
  ASSUME UploadInv, NEW u \in Uploads,
         \/ Call(u) \/ UrlRefused(u) \/ PhotoUrl(u) \/ HttpOk(u) \/ PhotoOk(u)
         \/ Confirmed(u) \/ HttpBroken(u)
  PROVE  UploadInv'
<1> USE ZeroIsNoId, NoCallIsNone DEF UploadInv
<1> DEFINE to == pc'[u]
<1>1. /\ UNCHANGED <<kind, id, rx, waiters, watchVars, serverVars>>
      /\ pc' = [pc EXCEPT ![u] = to] /\ to \in Places
      BY DEF TypeOK, Places, Go, Rest, Call, UrlRefused, PhotoUrl, HttpOk, PhotoOk,
             Confirmed, HttpBroken
<1>2. /\ to \in {"idle", "url"} => pc[u] \in {"idle", "url"}
      /\ to = "waiting" => kind[u] \in Waited
      /\ to \in {"sending", "waiting"} => pc[u] = "sending" \/ kind[u] = "photo"
      /\ to = "ok" => kind[u] = "photo" \/ rx[u] = "full"
      BY DEF TypeOK, Go, Call, UrlRefused, PhotoUrl, HttpOk, PhotoOk, Confirmed, HttpBroken
<1>3. waiters[id[u]] = u /\ id[u] \in Ids => to \in {"sending", "waiting", "leaked"}
  <2> SUFFICES ASSUME waiters[id[u]] = u, id[u] \in Ids
               PROVE  to \in {"sending", "waiting", "leaked"}
      OBVIOUS
  <2>1. rx[u] = "open" /\ pc[u] \in {"sending", "waiting", "leaked"}
        BY DEF WaitersAgree, InProgress
  <2>2. kind[u] \in Waited  BY DEF Numbered, TypeOK, Kinds, Waited
  <2>3. HttpOk(u) \/ HttpBroken(u)
        BY <2>1, <2>2 DEF Waited, Go, Call, UrlRefused, PhotoUrl, PhotoOk, Confirmed
  <2> QED  BY <2>2, <2>3 DEF Go, HttpOk, HttpBroken, TypeOK
<1>4. TypeOK'  BY <1>1 DEF TypeOK, watchVars, serverVars
<1>5. Numbered'
  <2>1. to \in {"idle", "url"} => id[u] = 0  BY <1>2 DEF Numbered
  <2>2. kind[u] \in Waited /\ to \in {"sending", "waiting"} => id[u] \in Ids
        BY <1>2 DEF Numbered, Waited
  <2> QED  BY <1>1, <1>2, <2>1, <2>2 DEF Numbered, TypeOK
<1>6. FromServer'  BY <1>1 DEF FromServer, Key, watchVars, serverVars
<1>7. \A v \in Uploads : kind[v] \in Waited /\ InProgress(v)' => InProgress(v)
      BY <1>1, <1>2 DEF InProgress, TypeOK, Waited
<1>8. WaitersAgree'
  <2>1. ASSUME NEW i \in Ids, waiters[i] # None
        PROVE  LET v == waiters[i] IN
               id[v] = i /\ rx[v] = "open" /\ pc'[v] \in {"sending", "waiting", "leaked"}
        BY <1>1, <1>3, <2>1 DEF WaitersAgree, InProgress, TypeOK
  <2>2. ASSUME NEW v \in Uploads, kind[v] \in Waited, InProgress(v)', Alone(v)'
        PROVE  (rx[v] = "open" /\ waiters[id[v]] = v) \/ rx[v] = "full"
        BY <1>1, <1>7, <2>2 DEF WaitersAgree, Alone
  <2> QED  BY <1>1, <2>1, <2>2 DEF WaitersAgree, InProgress, Alone
<1>9. Fulfilled'
  <2>1. taken' = taken  BY <1>1 DEF watchVars
  <2>2. ASSUME NEW v \in Uploads, kind[v] \in Waited, pc'[v] = "ok"
        PROVE  \E k \in Waited : <<k, id[v]>> \in taken
        BY <1>1, <1>2, <2>2 DEF Fulfilled, TypeOK, Waited
  <2>3. ASSUME NEW v \in Uploads, kind[v] \in Waited, InProgress(v)', Key(v) \in taken, Alone(v)'
        PROVE  rx[v] = "full"
        BY <1>1, <1>7, <2>3 DEF Fulfilled, Alone
  <2> QED  BY <1>1, <2>1, <2>2, <2>3 DEF Fulfilled, Key
<1> QED  BY <1>4, <1>5, <1>6, <1>8, <1>9

(* A new id is of no other call of its kind: nothing the server has bears it. *)
LEMMA GrantKeeps ==
  ASSUME UploadInv, NEW u \in Uploads, UrlGranted(u)
  PROVE  UploadInv'
<1> USE ZeroIsNoId, NoCallIsNone DEF UploadInv
<1>1. PICK i \in Ids : /\ \A v \in Uploads : Key(v) # <<kind[u], i>>
                       /\ id' = [id EXCEPT ![u] = i]
                       /\ WaitFor(u, i)
      BY DEF UrlGranted
<1>2. /\ kind[u] \in Waited /\ pc[u] = "url" /\ pc' = [pc EXCEPT ![u] = "sending"]
      /\ UNCHANGED <<kind, watchVars, serverVars>>
      BY DEF UrlGranted, Go, Rest
<1>3. id[u] = 0  BY <1>2 DEF Numbered
<1> DEFINE s == SendersDropped({waiters[i]})
<1>4. /\ s \in [Uploads -> {None, "open", "full", "closed"}]
      /\ \A v \in Uploads : /\ v # waiters[i] => s[v] = rx[v]
                            /\ s[v] = "full" <=> rx[v] = "full"
      BY OneSenderDropped
<1>5. rx' = [s EXCEPT ![u] = "open"] /\ waiters' = [waiters EXCEPT ![i] = u]
      BY <1>1 DEF WaitFor
<1> HIDE DEF s
<1>6. TypeOK'  BY <1>1, <1>2, <1>4, <1>5 DEF TypeOK, Places, watchVars, serverVars
<1>7. Numbered'  BY <1>1, <1>2 DEF Numbered, TypeOK, Waited
<1>8. \A a \in Keyed : a = Key(u) => FALSE
      BY <1>3 DEF Key, Keyed
<1>9. FromServer'
  <2>1. ASSUME NEW a \in arrived PROVE \E v \in Uploads : a = Key(v)'
    <3>1. PICK v \in Uploads : a = Key(v)  BY DEF FromServer
    <3>2. v # u  BY <1>8, <3>1 DEF TypeOK
    <3> QED  BY <1>1, <1>2, <3>1, <3>2 DEF Key, TypeOK
  <2> QED  BY <1>2, <2>1 DEF FromServer, watchVars, serverVars
<1>10. ASSUME NEW v \in Uploads, v # u, kind[v] \in Waited, InProgress(v)', Alone(v)'
       PROVE  InProgress(v) /\ Alone(v) /\ id[v] \in Ids /\ id[v] # i
  <2>1. InProgress(v)  BY <1>2, <1>10 DEF InProgress, TypeOK
  <2>2. id[v] \in Ids  BY <1>10, <2>1 DEF Numbered, InProgress
  <2>3. id[v] # i  BY <1>1, <1>10 DEF Alone, TypeOK
  <2>4. Alone(v)  BY <1>1, <1>3, <1>10, <2>2 DEF Alone, TypeOK
  <2> QED  BY <2>1, <2>2, <2>3, <2>4
<1>11. WaitersAgree'
  <2>1. ASSUME NEW j \in Ids, waiters'[j] # None
        PROVE  LET v == waiters'[j] IN
               id'[v] = j /\ rx'[v] = "open" /\ pc'[v] \in {"sending", "waiting", "leaked"}
    <3>1. CASE j = i  BY <1>1, <1>2, <1>4, <1>5, <3>1 DEF InProgress, TypeOK
    <3>2. CASE j # i
      <4>1. /\ waiters'[j] = waiters[j] /\ waiters[j] \in Uploads /\ id[waiters[j]] = j
            /\ rx[waiters[j]] = "open"
            /\ pc[waiters[j]] \in {"sending", "waiting", "leaked"}
            BY <1>5, <2>1, <3>2 DEF WaitersAgree, InProgress, TypeOK
      <4>2. waiters[j] # u  BY <1>3, <4>1
      <4>3. waiters[j] # waiters[i]
            BY <3>2, <4>1 DEF WaitersAgree
      <4> QED  BY <1>1, <1>2, <1>4, <1>5, <4>1, <4>2, <4>3 DEF InProgress, TypeOK
    <3> QED  BY <3>1, <3>2
  <2>2. ASSUME NEW v \in Uploads, kind[v] \in Waited, InProgress(v)', Alone(v)'
        PROVE  (rx'[v] = "open" /\ waiters'[id'[v]] = v) \/ rx'[v] = "full"
    <3>1. CASE v = u  BY <1>1, <1>4, <1>5, <3>1 DEF TypeOK
    <3>2. CASE v # u
      <4>1. (rx[v] = "open" /\ waiters[id[v]] = v) \/ rx[v] = "full"
            BY <1>10, <2>2, <3>2 DEF WaitersAgree
      <4>2. id[v] \in Ids /\ id[v] # i /\ id'[v] = id[v]
            BY <1>1, <1>10, <2>2, <3>2 DEF TypeOK
      <4>3. waiters[i] = v => id[v] = i
            BY DEF WaitersAgree
      <4> QED  BY <1>4, <1>5, <3>2, <4>1, <4>2, <4>3 DEF TypeOK
    <3> QED  BY <3>1, <3>2
  <2> QED  BY <1>2, <2>1, <2>2 DEF WaitersAgree, InProgress
<1>12. Fulfilled'
  <2>1. taken' = taken /\ kind' = kind  BY <1>2 DEF watchVars
  <2>2. ASSUME NEW v \in Uploads, rx'[v] = "full" \/ (kind[v] \in Waited /\ pc'[v] = "ok")
        PROVE  \E k \in Waited : <<k, id'[v]>> \in taken
    <3>1. v # u  BY <1>2, <1>4, <1>5, <2>2 DEF TypeOK
    <3>2. rx[v] = "full" \/ (kind[v] \in Waited /\ pc[v] = "ok")
          BY <1>2, <1>4, <1>5, <2>2, <3>1 DEF TypeOK
    <3> QED  BY <1>1, <3>1, <3>2 DEF Fulfilled, TypeOK
  <2>3. ASSUME NEW v \in Uploads, kind[v] \in Waited, InProgress(v)', Alone(v)',
               <<kind[v], id'[v]>> \in taken
        PROVE  rx'[v] = "full"
    <3>1. CASE v = u
      <4>1. <<kind[u], i>> \in arrived  BY <1>1, <2>3, <3>1 DEF TypeOK
      <4> QED  BY <1>1, <4>1 DEF FromServer
    <3>2. CASE v # u
      <4>1. Key(v) \in taken  BY <1>1, <2>3, <3>2 DEF Key, TypeOK
      <4>2. rx[v] = "full"  BY <1>10, <2>3, <3>2, <4>1 DEF Fulfilled
      <4> QED  BY <1>4, <1>5, <3>2, <4>2
    <3> QED  BY <3>1, <3>2
  <2> QED  BY <2>1, <2>2, <2>3 DEF Fulfilled, Key
<1> QED  BY <1>6, <1>7, <1>9, <1>11, <1>12

(* A call that gives up cancels the waiter under its id: no other call that  *)
(* is alone under its own loses one.                                         *)
LEMMA CancelKeeps ==
  ASSUME UploadInv, NEW u \in Uploads, InProgress(u), kind[u] \in Waited,
         Cancel(id[u]), pc' = [pc EXCEPT ![u] = "failed"],
         UNCHANGED <<kind, id, watchVars, serverVars>>
  PROVE  UploadInv'
<1> USE ZeroIsNoId, NoCallIsNone DEF UploadInv
<1>1. id[u] \in Ids  BY DEF Numbered, InProgress
<1> DEFINE s == SendersDropped({waiters[id[u]]})
<1>2. /\ s \in [Uploads -> {None, "open", "full", "closed"}]
      /\ \A v \in Uploads : /\ v # waiters[id[u]] => s[v] = rx[v]
                            /\ s[v] = "full" <=> rx[v] = "full"
      BY <1>1, OneSenderDropped
<1>3. rx' = s /\ waiters' = [waiters EXCEPT ![id[u]] = None]
      BY DEF Cancel
<1> HIDE DEF s
<1>4. TypeOK'  BY <1>1, <1>2, <1>3 DEF TypeOK, Places, watchVars, serverVars
<1>5. Numbered'  BY DEF Numbered, TypeOK
<1>6. FromServer'  BY DEF FromServer, Key, watchVars, serverVars
<1>7. ASSUME NEW v \in Uploads, kind[v] \in Waited, InProgress(v)', Alone(v)'
      PROVE  v # u /\ InProgress(v) /\ Alone(v) /\ id[v] \in Ids /\ id[v] # id[u]
  <2>1. v # u /\ InProgress(v)  BY <1>7 DEF InProgress, TypeOK
  <2> QED  BY <1>7, <2>1 DEF Alone, Numbered, InProgress
<1>8. WaitersAgree'
  <2>1. ASSUME NEW j \in Ids, waiters'[j] # None
        PROVE  LET v == waiters'[j] IN
               id[v] = j /\ rx'[v] = "open" /\ pc'[v] \in {"sending", "waiting", "leaked"}
    <3>1. j # id[u] /\ waiters'[j] = waiters[j]  BY <1>1, <1>3, <2>1 DEF TypeOK
    <3>2. /\ waiters[j] \in Uploads /\ id[waiters[j]] = j /\ rx[waiters[j]] = "open"
          /\ pc[waiters[j]] \in {"sending", "waiting", "leaked"}
          BY <2>1, <3>1 DEF WaitersAgree, InProgress, TypeOK
    <3>3. waiters[j] # u /\ waiters[j] # waiters[id[u]]
          BY <1>1, <3>1, <3>2 DEF WaitersAgree
    <3> QED  BY <1>2, <1>3, <3>1, <3>2, <3>3 DEF InProgress, TypeOK
  <2>2. ASSUME NEW v \in Uploads, kind[v] \in Waited, InProgress(v)', Alone(v)'
        PROVE  (rx'[v] = "open" /\ waiters'[id[v]] = v) \/ rx'[v] = "full"
    <3>1. (rx[v] = "open" /\ waiters[id[v]] = v) \/ rx[v] = "full"
          BY <1>7, <2>2 DEF WaitersAgree
    <3>2. waiters[id[u]] = v => id[v] = id[u]  BY <1>1 DEF WaitersAgree
    <3> QED  BY <1>2, <1>3, <1>7, <2>2, <3>1, <3>2 DEF TypeOK
  <2> QED  BY <2>1, <2>2 DEF WaitersAgree, InProgress
<1>9. Fulfilled'
  <2>1. taken' = taken  BY DEF watchVars
  <2>2. \A v \in Uploads : /\ rx'[v] = "full" <=> rx[v] = "full"
                           /\ pc'[v] = "ok" => pc[v] = "ok"
        BY <1>2, <1>3 DEF TypeOK
  <2>3. ASSUME NEW v \in Uploads, kind[v] \in Waited, InProgress(v)', Alone(v)', Key(v) \in taken
        PROVE  rx'[v] = "full"
        BY <1>7, <2>2, <2>3 DEF Fulfilled
  <2> QED  BY <2>1, <2>2, <2>3 DEF Fulfilled, Key
<1> QED  BY <1>4, <1>5, <1>6, <1>8, <1>9

LEMMA HttpRefusedKeeps ==
  ASSUME UploadInv, NEW u \in Uploads, HttpRefused(u)
  PROVE  UploadInv'
<1> USE ZeroIsNoId, NoCallIsNone DEF UploadInv
<1>1. /\ pc[u] = "sending" /\ pc' = [pc EXCEPT ![u] = "failed"]
      /\ UNCHANGED <<kind, id, watchVars, serverVars>>
      BY DEF HttpRefused, Go, Rest
<1>2. CASE kind[u] \in Waited
      BY <1>1, <1>2, CancelKeeps DEF HttpRefused, InProgress
<1>3. CASE kind[u] \notin Waited
  <2>1. UNCHANGED <<rx, waiters>>  BY <1>3 DEF HttpRefused
  <2>2. \A i \in Ids : waiters[i] # u
        BY <1>3 DEF WaitersAgree, Numbered, TypeOK, Kinds, Waited
  <2>3. TypeOK'  BY <1>1, <2>1 DEF TypeOK, Places, watchVars, serverVars
  <2>4. Numbered'  BY <1>1 DEF Numbered, TypeOK
  <2>5. FromServer'  BY <1>1 DEF FromServer, Key, watchVars, serverVars
  <2>6. WaitersAgree'
        BY <1>1, <2>1, <2>2 DEF WaitersAgree, InProgress, Alone, TypeOK
  <2>7. Fulfilled'
        BY <1>1, <2>1 DEF Fulfilled, InProgress, Alone, Key, TypeOK, watchVars
  <2> QED  BY <2>3, <2>4, <2>5, <2>6, <2>7
<1> QED  BY <1>2, <1>3

LEMMA WaitFailsKeeps ==
  ASSUME UploadInv, NEW u \in Uploads, WaitFails(u)
  PROVE  UploadInv'
<1>1. /\ pc[u] = "waiting" /\ pc' = [pc EXCEPT ![u] = "failed"] /\ Cancel(id[u])
      /\ UNCHANGED <<kind, id, watchVars, serverVars>>
      BY DEF WaitFails, Go, Rest
<1>2. kind[u] \in Waited /\ InProgress(u)
      BY <1>1 DEF UploadInv, Numbered, InProgress
<1> QED  BY <1>1, <1>2, CancelKeeps

LEMMA DataArrivesKeeps ==
  ASSUME UploadInv, NEW u \in Uploads, DataArrives(u)
  PROVE  UploadInv'
<1> USE DEF UploadInv, DataArrives, NoCall, callVars, watchVars
<1>1. TypeOK'  BY DEF TypeOK, Numbered, Keyed, Key
<1>2. Numbered'  BY DEF Numbered
<1>3. FromServer'  BY DEF FromServer, Key
<1>4. WaitersAgree'  BY DEF WaitersAgree, InProgress, Alone
<1>5. Fulfilled'  BY DEF Fulfilled, InProgress, Alone, Key
<1> QED  BY <1>1, <1>2, <1>3, <1>4, <1>5

(* A frame is taken: the waiters under its ids are fulfilled, whichever kind *)
(* the id is of.                                                             *)
LEMMA WatcherTakesKeeps ==
  ASSUME UploadInv, WatcherTakes
  PROVE  UploadInv'
<1> USE ZeroIsNoId, NoCallIsNone DEF UploadInv
<1> DEFINE frame == Head(inbox)
           ids   == {k[2] : k \in frame}
<1>1. /\ inbox # <<>> /\ inbox' = Tail(inbox) /\ taken' = taken \cup frame
      /\ UNCHANGED <<pc, kind, id, watcher, tuned, lagged, arrived, notified>>
      BY DEF WatcherTakes, serverVars
<1>2. /\ rx' = [v \in Uploads |-> IF \E i \in ids : waiters[i] = v THEN "full" ELSE rx[v]]
      /\ waiters' = [i \in Ids |-> IF i \in ids THEN None ELSE waiters[i]]
      BY DEF WatcherTakes, TryFulfill
<1>3. /\ frame \subseteq notified /\ frame \subseteq Keyed
      /\ \A n \in 1 .. Len(Tail(inbox)) : Tail(inbox)[n] \subseteq notified
      /\ Tail(inbox) \in Seq(Frames) /\ Len(Tail(inbox)) <= Capacity
  <2>1. /\ Len(inbox) \in Nat /\ Len(inbox) > 0 /\ frame = inbox[1]
        /\ Tail(inbox) \in Seq(Frames) /\ Len(Tail(inbox)) = Len(inbox) - 1
        /\ \A n \in 1 .. Len(inbox) - 1 : Tail(inbox)[n] = inbox[n + 1]
        BY <1>1 DEF TypeOK
  <2>2. frame \subseteq notified  BY <2>1 DEF FromServer
  <2>3. \A n \in 1 .. Len(Tail(inbox)) : Tail(inbox)[n] \subseteq notified
        BY <2>1 DEF FromServer
  <2>4. Len(Tail(inbox)) <= Capacity  BY <2>1, CapacityAssumption DEF TypeOK
  <2> QED  BY <2>1, <2>2, <2>3, <2>4 DEF TypeOK
<1>4. \A i \in ids : i \in Ids /\ \E k \in Waited : <<k, i>> \in frame
      BY <1>3 DEF Keyed
<1> HIDE DEF frame, ids
<1>5. TypeOK'  BY <1>1, <1>2, <1>3 DEF TypeOK
<1>6. Numbered'  BY <1>1 DEF Numbered
<1>7. FromServer'  BY <1>1, <1>3 DEF FromServer, Key
<1>8. WaitersAgree'
  <2>1. ASSUME NEW j \in Ids, waiters'[j] # None
        PROVE  LET v == waiters'[j] IN
               id[v] = j /\ rx'[v] = "open" /\ pc[v] \in {"sending", "waiting", "leaked"}
    <3>1. j \notin ids /\ waiters'[j] = waiters[j]  BY <1>2, <2>1
    <3>2. /\ waiters[j] \in Uploads /\ id[waiters[j]] = j /\ rx[waiters[j]] = "open"
          /\ pc[waiters[j]] \in {"sending", "waiting", "leaked"}
          BY <2>1, <3>1 DEF WaitersAgree, InProgress, TypeOK
    <3>3. \A i \in ids : waiters[i] # waiters[j]
          BY <1>4, <3>1, <3>2 DEF WaitersAgree
    <3> QED  BY <1>1, <1>2, <3>1, <3>2, <3>3 DEF InProgress
  <2>2. ASSUME NEW v \in Uploads, kind[v] \in Waited, InProgress(v), Alone(v)
        PROVE  (rx'[v] = "open" /\ waiters'[id[v]] = v) \/ rx'[v] = "full"
    <3>1. id[v] \in Ids  BY <2>2 DEF Numbered, InProgress
    <3>2. (rx[v] = "open" /\ waiters[id[v]] = v) \/ rx[v] = "full"
          BY <2>2 DEF WaitersAgree
    <3> QED  BY <1>2, <3>1, <3>2
  <2> QED  BY <1>1, <2>1, <2>2 DEF WaitersAgree, InProgress, Alone
<1>9. Fulfilled'
  <2>1. ASSUME NEW v \in Uploads, rx'[v] = "full" \/ (kind[v] \in Waited /\ pc[v] = "ok")
        PROVE  \E k \in Waited : <<k, id[v]>> \in taken'
    <3>1. CASE rx[v] = "full" \/ (kind[v] \in Waited /\ pc[v] = "ok")
          BY <1>1, <3>1 DEF Fulfilled
    <3>2. CASE \E i \in ids : waiters[i] = v
      <4>1. PICK i \in ids : waiters[i] = v  BY <3>2
      <4>2. id[v] = i  BY <1>4, <4>1 DEF WaitersAgree
      <4> QED  BY <1>1, <1>4, <4>1, <4>2
    <3> QED  BY <1>2, <2>1, <3>1, <3>2
  <2>2. ASSUME NEW v \in Uploads, kind[v] \in Waited, InProgress(v), Alone(v), Key(v) \in taken'
        PROVE  rx'[v] = "full"
    <3>1. CASE Key(v) \in taken
      <4>1. rx[v] = "full"  BY <2>2, <3>1 DEF Fulfilled
      <4> QED  BY <1>2, <4>1
    <3>2. CASE Key(v) \in frame
      <4>1. id[v] \in ids  BY <3>2 DEF ids, Key
      <4>2. (rx[v] = "open" /\ waiters[id[v]] = v) \/ rx[v] = "full"
            BY <2>2 DEF WaitersAgree
      <4> QED  BY <1>2, <4>1, <4>2
    <3> QED  BY <1>1, <2>2, <3>1, <3>2
  <2> QED  BY <1>1, <2>1, <2>2 DEF Fulfilled, InProgress, Alone, Key
<1> QED  BY <1>5, <1>6, <1>7, <1>8, <1>9

(* A frame of confirmations the server has sent joins the channel, or is not *)
(* received at all; a full channel loses its oldest frame.                   *)
LEMMA ReceivedKeeps ==
  ASSUME TypeOK, FromServer, NEW f \in Frames, f \subseteq notified', notified \subseteq notified',
         Received(f)
  PROVE  /\ inbox' \in Seq(Frames) /\ Len(inbox') <= Capacity /\ lagged' \in BOOLEAN
         /\ \A n \in 1 .. Len(inbox') : inbox'[n] \subseteq notified'
<1>1. CASE watcher = "running" /\ tuned
  <2> DEFINE kept == IF Len(inbox) = Capacity THEN Tail(inbox) ELSE inbox
  <2>1. inbox' = Append(kept, f) /\ lagged' = (lagged \/ Len(inbox) = Capacity)
        BY <1>1 DEF Received
  <2>2. /\ kept \in Seq(Frames) /\ Len(kept) < Capacity
        /\ \A n \in 1 .. Len(kept) : kept[n] \subseteq notified
    <3>1. CASE Len(inbox) = Capacity
      <4>1. /\ Len(inbox) \in Nat /\ Len(inbox) > 0 /\ kept = Tail(inbox)
            /\ Tail(inbox) \in Seq(Frames) /\ Len(Tail(inbox)) = Len(inbox) - 1
            /\ \A n \in 1 .. Len(inbox) - 1 : Tail(inbox)[n] = inbox[n + 1]
            BY <3>1, CapacityAssumption DEF TypeOK
      <4> QED  BY <3>1, <4>1, CapacityAssumption DEF FromServer
    <3>2. CASE Len(inbox) # Capacity
          BY <3>2, CapacityAssumption DEF TypeOK, FromServer
    <3> QED  BY <3>1, <3>2
  <2> HIDE DEF kept
  <2>3. /\ inbox' \in Seq(Frames) /\ Len(inbox') = Len(kept) + 1
        /\ \A n \in 1 .. Len(inbox') : inbox'[n] = IF n <= Len(kept) THEN kept[n] ELSE f
        BY <2>1, <2>2
  <2>4. \A n \in 1 .. Len(inbox') : inbox'[n] \subseteq notified'
        BY <2>2, <2>3
  <2>5. lagged' \in BOOLEAN  BY <2>1, Zenon
  <2>6. Len(inbox') <= Capacity  BY <2>2, <2>3, CapacityAssumption
  <2> QED  BY <2>3, <2>4, <2>5, <2>6
<1>2. CASE ~(watcher = "running" /\ tuned)
  <2>1. inbox' = inbox /\ lagged' = lagged  BY <1>2 DEF Received
  <2>2. lagged' \in BOOLEAN  BY <2>1, Zenon DEF TypeOK
  <2> QED  BY <2>1, <2>2 DEF TypeOK, FromServer
<1> QED  BY <1>1, <1>2

(* The steps of the watcher and of the server that touch no waiter. *)
LEMMA OutsideStepKeeps ==
  ASSUME UploadInv,
         \/ WatcherLagged \/ WatcherEnds \/ SpawnWatcher \/ TransportReplaced
         \/ Notify \/ OtherFrame
  PROVE  UploadInv'
<1> USE DEF UploadInv
<1>1. UNCHANGED <<callVars, taken, arrived>>
      BY DEF WatcherLagged, WatcherEnds, SpawnWatcher, TransportReplaced, Notify, OtherFrame,
             NoCall, serverVars, watchVars
<1>2. /\ inbox' \in Seq(Frames) /\ Len(inbox') <= Capacity /\ lagged' \in BOOLEAN
      /\ watcher' \in {"running", "ended"} /\ tuned' \in BOOLEAN
      /\ notified \subseteq notified' /\ notified' \subseteq arrived
      /\ \A n \in 1 .. Len(inbox') : inbox'[n] \subseteq notified'
  <2>1. CASE WatcherLagged \/ WatcherEnds \/ SpawnWatcher \/ TransportReplaced
    <3>1. UNCHANGED <<inbox, notified>>
          BY <2>1 DEF WatcherLagged, WatcherEnds, SpawnWatcher, TransportReplaced, serverVars
    <3>2. lagged' \in BOOLEAN /\ tuned' \in BOOLEAN /\ watcher' \in {"running", "ended"}
      <4>1. /\ lagged' = lagged \/ lagged' = FALSE
            /\ \/ tuned' = tuned \/ tuned' = TRUE \/ tuned' = FALSE
            /\ \/ watcher' = watcher \/ watcher' = "running" \/ watcher' = "ended"
            BY <2>1, Zenon DEF WatcherLagged, WatcherEnds, SpawnWatcher, TransportReplaced
      <4> QED  BY <4>1, Zenon DEF TypeOK
    <3> QED  BY <3>1, <3>2 DEF TypeOK, FromServer
  <2>2. CASE Notify
    <3>1. PICK f \in SUBSET (arrived \ notified) :
                 notified' = notified \cup f /\ Received(f) /\ UNCHANGED <<watcher, tuned>>
          BY <2>2 DEF Notify
    <3>2. f \in Frames /\ f \subseteq notified' /\ notified \subseteq notified'
          BY <3>1 DEF Frames, TypeOK
    <3>3. tuned' \in BOOLEAN  BY <3>1, Zenon DEF TypeOK
    <3> QED  BY <3>1, <3>2, <3>3, ReceivedKeeps DEF TypeOK
  <2>3. CASE OtherFrame
    <3>1. Received({}) /\ UNCHANGED <<watcher, tuned, notified>>
          BY <2>3 DEF OtherFrame, serverVars
    <3>2. {} \in Frames /\ {} \subseteq notified'  BY DEF Frames
    <3>3. tuned' \in BOOLEAN  BY <3>1, Zenon DEF TypeOK
    <3> QED  BY <3>1, <3>2, <3>3, ReceivedKeeps DEF TypeOK
  <2> QED  BY <2>1, <2>2, <2>3
<1>3. TypeOK'
  <2>1. lagged' \in BOOLEAN /\ tuned' \in BOOLEAN  BY <1>2, Zenon
  <2>2. /\ inbox' \in Seq(Frames) /\ Len(inbox') <= Capacity
        /\ watcher' \in {"running", "ended"}
        /\ arrived' \subseteq Keyed /\ notified' \subseteq arrived' /\ taken' \subseteq notified'
        BY <1>1, <1>2 DEF TypeOK
  <2>3. /\ pc' \in [Uploads -> Places] /\ kind' \in [Uploads -> Kinds]
        /\ id' \in [Uploads -> Ids \cup {0}]
        /\ rx' \in [Uploads -> {None, "open", "full", "closed"}]
        /\ waiters' \in [Ids -> Uploads \cup {None}]
        BY <1>1 DEF TypeOK, callVars
  <2> QED  BY <2>1, <2>2, <2>3, Zenon DEF TypeOK
<1>4. Numbered'  BY <1>1 DEF Numbered, callVars
<1>5. FromServer'  BY <1>1, <1>2 DEF FromServer, Key, callVars
<1>6. WaitersAgree'  BY <1>1 DEF WaitersAgree, InProgress, Alone, callVars
<1>7. Fulfilled'  BY <1>1 DEF Fulfilled, InProgress, Alone, Key, callVars
<1> QED  BY <1>3, <1>4, <1>5, <1>6, <1>7

LEMMA UploadStepInv == UploadInv /\ [Next]_vars => UploadInv'
<1> SUFFICES ASSUME UploadInv, [Next]_vars PROVE UploadInv'  OBVIOUS
<1>1. CASE \E u \in Uploads : Call(u) \/ UploadStep(u) \/ DataArrives(u)
  <2>1. PICK u \in Uploads : Call(u) \/ UploadStep(u) \/ DataArrives(u)  BY <1>1
  <2> QED  BY <2>1, PlaceStepKeeps, GrantKeeps, HttpRefusedKeeps, WaitFailsKeeps, DataArrivesKeeps
           DEF UploadStep
<1>2. CASE WatcherTakes  BY <1>2, WatcherTakesKeeps
<1>3. CASE \/ WatcherLagged \/ WatcherEnds \/ SpawnWatcher \/ TransportReplaced
           \/ Notify \/ OtherFrame
      BY <1>3, OutsideStepKeeps
<1>4. CASE UNCHANGED vars
  <2> USE <1>4 DEF vars, callVars, watchVars, serverVars, UploadInv
  <2>1. TypeOK'  BY Zenon DEF TypeOK
  <2>2. Numbered'  BY DEF Numbered
  <2>3. FromServer'  BY DEF FromServer, Key
  <2>4. WaitersAgree'  BY DEF WaitersAgree, InProgress, Alone
  <2>5. Fulfilled'  BY DEF Fulfilled, InProgress, Alone, Key
  <2> QED  BY <2>1, <2>2, <2>3, <2>4, <2>5
<1> QED  BY <1>1, <1>2, <1>3, <1>4 DEF Next

LEMMA UploadInvHolds == Spec => []UploadInv
BY UploadInit, UploadStepInv, PTL DEF Spec

(* Every variable keeps its type: the map of waiters, the oneshot channels   *)
(* and the frames the watcher has yet to take (files.rs 23-105).             *)
THEOREM TypeCorrect == Spec => []TypeOK
<1>1. UploadInv => TypeOK  BY DEF UploadInv
<1> QED  BY <1>1, UploadInvHolds, PTL

(* However many uploads run, no call but one under the same number takes     *)
(* another's waiter away: neither by failing, nor by its confirmation        *)
(* (files.rs 55-84).                                                         *)
THEOREM WaitersAlwaysAgree == Spec => []WaitersAgree
<1>1. UploadInv => WaitersAgree  BY DEF UploadInv
<1> QED  BY <1>1, UploadInvHolds, PTL

(* A file or video reported as uploaded was confirmed, and a confirmation    *)
(* the watcher took is not missed by a call alone under its number           *)
(* (files.rs 63-79, 226).                                                    *)
THEOREM SuccessIsConfirmed == Spec => []ConfirmedExactly
<1>1. UploadInv => ConfirmedExactly
  <2> SUFFICES ASSUME UploadInv, NEW u \in Uploads, kind[u] \in Waited
               PROVE  /\ pc[u] = "ok" => /\ \E k \in Waited : <<k, id[u]>> \in taken
                                         /\ Alone(u) => Key(u) \in taken
                      /\ Key(u) \in taken /\ InProgress(u) /\ Alone(u) => rx[u] = "full"
      BY DEF ConfirmedExactly
  <2>1. pc[u] = "ok" => \E k \in Waited : <<k, id[u]>> \in taken
        BY DEF UploadInv, Fulfilled
  <2>2. ASSUME NEW k \in Waited, <<k, id[u]>> \in taken, Alone(u) PROVE Key(u) \in taken
    <3>1. PICK v \in Uploads : <<k, id[u]>> = Key(v)
          BY <2>2 DEF UploadInv, TypeOK, FromServer
    <3>2. v = u  BY <2>2, <3>1 DEF Alone, Key
    <3> QED  BY <2>2, <3>1, <3>2
  <2>3. Key(u) \in taken /\ InProgress(u) /\ Alone(u) => rx[u] = "full"
        BY DEF UploadInv, Fulfilled
  <2> QED  BY <2>1, <2>2, <2>3
<1> QED  BY <1>1, UploadInvHolds, PTL
-----------------------------------------------------------------------------
(* The server gives each call a number that no call of its kind has, so two  *)
(* calls under one number are of different kinds.                            *)
KeysDistinct == \A u, v \in Uploads : u # v /\ id[u] # 0 => Key(u) # Key(v)

LEMMA KeysDistinctStep ==
  ASSUME UploadInv, KeysDistinct, [Next]_vars
  PROVE  KeysDistinct'
<1>1. CASE UNCHANGED <<kind, id>>  BY <1>1 DEF KeysDistinct, Key
<1>2. ASSUME NEW u \in Uploads, UrlGranted(u) PROVE KeysDistinct'
  <2>1. PICK i \in Ids : /\ \A v \in Uploads : Key(v) # <<kind[u], i>>
                         /\ id' = [id EXCEPT ![u] = i]
        BY <1>2 DEF UrlGranted
  <2>2. kind' = kind  BY <1>2 DEF UrlGranted
  <2>3. ASSUME NEW v \in Uploads, NEW w \in Uploads, v # w, id'[v] # 0
        PROVE  <<kind[v], id'[v]>> # <<kind[w], id'[w]>>
    <3>1. CASE v = u  BY <2>1, <2>3, <3>1 DEF Key, UploadInv, TypeOK
    <3>2. CASE w = u  BY <2>1, <2>3, <3>2 DEF Key, UploadInv, TypeOK
    <3>3. CASE v # u /\ w # u
      <4>1. id'[v] = id[v] /\ id'[w] = id[w]
            BY <2>1, <3>3 DEF UploadInv, TypeOK
      <4> QED  BY <2>3, <4>1 DEF KeysDistinct, Key
    <3> QED  BY <3>1, <3>2, <3>3
  <2> QED  BY <2>2, <2>3 DEF KeysDistinct, Key
<1>3. CASE \E u \in Uploads : Call(u) \/ UploadStep(u) \/ DataArrives(u)
      BY <1>1, <1>2, <1>3 DEF Call, UploadStep, DataArrives, NoCall, callVars, UrlRefused,
         PhotoUrl, HttpBroken, HttpRefused, HttpOk, PhotoOk, Confirmed, WaitFails
<1>4. CASE \/ WatcherTakes \/ WatcherLagged \/ WatcherEnds \/ SpawnWatcher
           \/ TransportReplaced \/ Notify \/ OtherFrame \/ UNCHANGED vars
      BY <1>1, <1>4 DEF WatcherTakes, WatcherLagged, WatcherEnds, SpawnWatcher,
         TransportReplaced, Notify, OtherFrame, NoCall, callVars, vars
<1> QED  BY <1>3, <1>4 DEF Next

(* The step of LostToNamesakeOnly. *)
Namesake(u) == \E v \in Uploads : /\ id'[v] = id[u] /\ kind[v] \in Waited \ {kind[u]}
                                 /\ pc[v] \in {"url", "sending", "waiting"}
                                 /\ pc'[v] \in {"sending", "failed"} \ {pc[v]}

LostStep ==
  \A u \in Uploads :
    rx[u] = "open" /\ rx'[u] = "closed" /\ InProgress(u) /\ InProgress(u)'
      => \E v \in Uploads : /\ id'[v] = id[u] /\ kind[v] \in Waited \ {kind[u]}
                            /\ pc[v] \in {"url", "sending", "waiting"}
                            /\ pc'[v] \in {"sending", "failed"} \ {pc[v]}

LEMMA LostStepHolds ==
  ASSUME UploadInv, KeysDistinct, [Next]_vars
  PROVE  LostStep
<1> SUFFICES ASSUME NEW u \in Uploads, rx[u] = "open", rx'[u] = "closed",
                    InProgress(u), InProgress(u)'
             PROVE  Namesake(u)
    BY DEF LostStep, Namesake
<1> USE DEF UploadInv
<1>1. CASE rx' = rx  BY <1>1
<1>2. ASSUME NEW v \in Uploads, UrlGranted(v) PROVE Namesake(u)
  <2>1. PICK i \in Ids : /\ \A w \in Uploads : Key(w) # <<kind[v], i>>
                         /\ id' = [id EXCEPT ![v] = i]
                         /\ WaitFor(v, i)
        BY <1>2 DEF UrlGranted
  <2>2. u # v /\ waiters[i] = u
        BY <2>1 DEF WaitFor, SendersDropped, TypeOK
  <2>3. id[u] = i  BY <2>2, NoCallIsNone DEF WaitersAgree
  <2>4. id'[v] = id[u]  BY <2>1, <2>3 DEF TypeOK
  <2>5. kind[v] \in Waited /\ pc[v] = "url" /\ pc'[v] = "sending"
        BY <1>2 DEF UrlGranted, Go, TypeOK
  <2>6. kind[v] # kind[u]  BY <2>1, <2>3 DEF Key
  <2> QED  BY <2>4, <2>5, <2>6 DEF Namesake
<1>3. ASSUME NEW v \in Uploads, HttpRefused(v) \/ WaitFails(v) PROVE Namesake(u)
  <2>1. /\ pc[v] \in {"sending", "waiting"} /\ pc'[v] = "failed"
        /\ UNCHANGED id
        BY <1>3 DEF HttpRefused, WaitFails, Go, TypeOK
  <2>2. kind[v] \in Waited /\ Cancel(id[v])
        BY <1>3, <2>1 DEF HttpRefused, WaitFails, Go, Numbered
  <2>3. id[v] \in Ids  BY <2>1, <2>2 DEF Numbered
  <2>4. waiters[id[v]] = u  BY <2>2 DEF Cancel, SendersDropped
  <2>5. id[u] = id[v] /\ u # v
        BY <2>1, <2>3, <2>4, NoCallIsNone DEF WaitersAgree, InProgress
  <2>6. kind[u] # kind[v]
        BY <2>3, <2>5, ZeroIsNoId DEF KeysDistinct, Key
  <2> QED  BY <2>1, <2>2, <2>5, <2>6 DEF Namesake
<1>4. CASE WatcherTakes
      BY <1>4 DEF WatcherTakes, TryFulfill
<1>5. CASE \E v \in Uploads : Call(v) \/ UploadStep(v) \/ DataArrives(v)
      BY <1>1, <1>2, <1>3, <1>5 DEF Call, UploadStep, DataArrives, NoCall, callVars,
         UrlRefused, PhotoUrl, HttpBroken, HttpOk, PhotoOk, Confirmed
<1>6. CASE \/ WatcherLagged \/ WatcherEnds \/ SpawnWatcher \/ TransportReplaced
           \/ Notify \/ OtherFrame \/ UNCHANGED vars
      BY <1>1, <1>6 DEF WatcherLagged, WatcherEnds, SpawnWatcher, TransportReplaced,
         Notify, OtherFrame, NoCall, callVars, vars
<1> QED  BY <1>4, <1>5, <1>6 DEF Next

(* For every number of uploads: a call in progress loses its waiter only to  *)
(* a call of the other kind under the same number (files.rs 55-84).          *)
THEOREM WaiterLostToNamesake == Spec => LostToNamesakeOnly
<1> DEFINE I == UploadInv /\ KeysDistinct
<1>1. Init => I
  <2>1. Init => KeysDistinct  BY DEF Init, KeysDistinct
  <2> QED  BY <2>1, UploadInit
<1>2. I /\ [Next]_vars => I'  BY UploadStepInv, KeysDistinctStep
<1>3. I /\ [Next]_vars => LostStep  BY LostStepHolds
<1> QED  BY <1>1, <1>2, <1>3, PTL DEF Spec, LostToNamesakeOnly, LostStep
=============================================================================
