-------------------------- MODULE DesktopAuthProofs --------------------------
(***************************************************************************)
(* Proofs about DesktopAuth, for any number of tasks at once.  The types,   *)
(* the handle of each polling task and the busy window need only know which *)
(* task is at which point, and what a client without a file or without a    *)
(* row looks like (Base).  That a window which says signed in is backed by  *)
(* a saved token, and by a client, needs to know, for a login that began    *)
(* alone, which tasks can be alive together and with which screen (Company) *)
(* and what each has opened and saved so far (Progress).                    *)
(***************************************************************************)
EXTENDS DesktopAuth, TLAPS

PointsOf(j) ==
  CASE j = "none"         -> {"none"}
    [] j = "resume"       -> {"open", "insert", "load", "connect", "store", "post"}
    [] j \in Starting     -> {"cancel", "take", "clear", "wipe", "open", "insert", "load",
                              "connect", "store", "flow", "post", "error"}
    [] j = "back"         -> {"cancel", "take", "clear", "post"}
    [] j = "logout"       -> {"cancel", "take", "clear", "wipe", "post"}
    [] j = "set_qr_task"  -> {"handle"}
    [] j = "submit_code"  -> {"clone", "ask", "save", "sync", "post", "track", "post2fa", "error"}
    [] j = "submit_2fa"   -> {"clone", "ask", "save", "sync", "post", "error"}
    [] j = "poll"         -> {"ask", "save", "sync", "post"}

(* Each task is at a point of its own job.                                   *)
OnItsWay == \A s \in Slots : at[s] \in PointsOf(job[s])

(* A task that has opened session.db has a client, and one on the file that  *)
(* the work directory names finds a row there, unless it is to insert it.    *)
Opened == {"insert", "load", "connect", "store"}
BuiltKnown == \A s \in Slots :
  /\ at[s] \in Opened => built[s].pool # "none"
  /\ built[s].pool = "linked" => at[s] = "insert" \/ tokens # {}

ClientKnown == client.pool = "none" => client = NoClient

Base == OnItsWay /\ BuiltKnown /\ ClientKnown /\ OneQrTask /\ BusyIsFreed
-----------------------------------------------------------------------------
(* The types, the polling tasks and the busy window *)

LEMMA PointsOfJobs ==
  /\ \A j \in Jobs \cup {"none"} : PointsOf(j) \subseteq Points \cup {"none"}
  /\ PointsOf("none") = {"none"}
  /\ \A j \in Jobs : "none" \notin PointsOf(j)
<1>1. \A j \in Jobs \cup {"none"} : PointsOf(j) \subseteq Points \cup {"none"}
  BY DEF PointsOf, Points, Jobs, Starting, SigningIn
<1>2. PointsOf("none") = {"none"}
  BY DEF PointsOf, Starting
<1>3. \A j \in Jobs : "none" \notin PointsOf(j)
  BY DEF PointsOf, Jobs, Starting, SigningIn
<1> QED
  BY <1>1, <1>2, <1>3

(* The job of a task that is at a point.                                     *)
LEMMA JobOfPoint ==
  ASSUME TypeOK, OnItsWay, NEW s \in Slots
  PROVE  /\ at[s] \in {"cancel", "take", "clear"} => job[s] \in Starting \cup {"back", "logout"}
         /\ at[s] = "wipe" => job[s] \in Starting \cup {"logout"}
         /\ at[s] \in {"open", "insert", "load", "connect", "store"} => job[s] \in Starting \cup {"resume"}
         /\ at[s] = "flow" => job[s] \in Starting
         /\ at[s] = "handle" <=> job[s] = "set_qr_task"
         /\ at[s] = "clone" => job[s] \in {"submit_code", "submit_2fa"}
         /\ at[s] \in {"ask", "save", "sync"} => job[s] \in SigningIn
         /\ at[s] \in {"track", "post2fa"} => job[s] = "submit_code"
         /\ at[s] = "error" => job[s] \in Starting \cup {"submit_code", "submit_2fa"}
         /\ at[s] = "none" <=> job[s] = "none"
<1>1. at[s] \in PointsOf(job[s]) /\ job[s] \in Jobs \cup {"none"}
  BY DEF TypeOK, OnItsWay
<1> QED
  BY <1>1 DEF PointsOf, Jobs, Starting, SigningIn

(* Task s goes on to another point of its job.                               *)
LEMMA GoesOn ==
  ASSUME TypeOK, Base, NEW s \in Slots, NEW point \in PointsOf(job[s]), NEW b \in Client,
         Moves({}, s, point, b), job[s] = "poll" => at[s] # "post",
         point \in {"save", "sync"} => Holders \subseteq {s},
         point \in Opened => b.pool # "none",
         b.pool = "linked" => point = "insert" \/ tokens' # {},
         tokens' \subseteq BOOLEAN, several' \in BOOLEAN, tokens # {} => tokens' # {},
         client' \in Client, client'.pool = "linked" => tokens' # {},
         client'.pool = "none" => client' = NoClient,
         temp_token' \in BOOLEAN, two_fa' \in BOOLEAN, UNCHANGED <<qr_task, window, overlap>>
  PROVE  TypeOK' /\ Base'
<1>1. /\ job' = job /\ handle' = handle
      /\ at' = [at EXCEPT ![s] = point] /\ built' = [built EXCEPT ![s] = b]
  BY DEF Moves, TypeOK
<1>2. point \in Points \cup {"none"}
  BY PointsOfJobs DEF TypeOK
<1>3. TypeOK'
  BY <1>1, <1>2 DEF TypeOK, Holders, window
<1>4. OnItsWay'
  BY <1>1 DEF Base, OnItsWay, TypeOK
<1>5. BuiltKnown'
  BY <1>1 DEF Base, BuiltKnown, TypeOK
<1>6. ClientKnown'
  BY DEF ClientKnown
<1>7. OneQrTask'
  BY <1>1 DEF Base, OneQrTask, Of, TypeOK
<1>8. BusyIsFreed'
  BY <1>1 DEF Base, BusyIsFreed, window
<1> QED
  BY <1>3, <1>4, <1>5, <1>6, <1>7, <1>8 DEF Base

(* Task s is over.                                                           *)
LEMMA GoesOver ==
  ASSUME TypeOK, Base, NEW s \in Slots, Ends(s), job[s] # "set_qr_task",
         UNCHANGED <<file, client, temp_token, two_fa, overlap>>,
         screen' \in Screens, busy' \in BOOLEAN,
         busy' => busy /\ job[s] \notin {"sms", "qr", "submit_code", "submit_2fa", "back"}
  PROVE  TypeOK' /\ Base'
<1>1. /\ job' = [job EXCEPT ![s] = "none"] /\ at' = [at EXCEPT ![s] = "none"]
      /\ built' = [built EXCEPT ![s] = NoClient]
      /\ handle' = [t \in Slots |-> IF t = s \/ handle[t] = s THEN NoTask ELSE handle[t]]
      /\ qr_task' = IF qr_task = s THEN NoTask ELSE qr_task
  BY DEF Ends, Moves, TypeOK
<1>2. NoClient \in Client /\ NoClient.pool = "none"
  BY DEF NoClient, Client
<1>3. TypeOK'
  <2>1. /\ qr_task' \in Slots \cup {NoTask} /\ built' \in [Slots -> Client]
        /\ handle' \in [Slots -> Slots \cup {NoTask}]
    BY <1>1, <1>2 DEF TypeOK
  <2>2. Holders' \subseteq Holders
    BY <1>1 DEF Holders, TypeOK
  <2>3. /\ job' \in [Slots -> Jobs \cup {"none"}] /\ at' \in [Slots -> Points \cup {"none"}]
    BY <1>1 DEF TypeOK
  <2> QED
    BY <2>1, <2>2, <2>3 DEF TypeOK, file
<1>4. OnItsWay'
  BY <1>1, PointsOfJobs DEF Base, OnItsWay, TypeOK
<1>5. BuiltKnown'
  BY <1>1, <1>2 DEF Base, BuiltKnown, TypeOK, Opened, file
<1>6. ClientKnown'
  BY DEF Base, ClientKnown
<1>7. OneQrTask'
  BY <1>1, SlotsAssumption DEF Base, OneQrTask, Of, TypeOK
<1>8. BusyIsFreed'
  BY <1>1 DEF Base, BusyIsFreed, TypeOK
<1> QED
  BY <1>3, <1>4, <1>5, <1>6, <1>7, <1>8 DEF Base

(* The task in qr_task is over unless only its post is left, and task s goes *)
(* on or, with it, is over.                                                  *)
LEMMA CancelTaskKeeps ==
  ASSUME TypeOK, Base, NEW s \in Slots, CancelTask(s)
  PROVE  TypeOK' /\ Base'
<1>1. job[s] \in Starting \cup {"back", "logout"}
  BY JobOfPoint DEF CancelTask, Base
<1>2. s \notin Aborted /\ \A p \in Aborted : job[p] = "poll" /\ p = qr_task /\ p \in Slots
  BY <1>1 DEF Aborted, Of, Starting
<1>3. /\ job' = [t \in Slots |-> IF t \in Aborted THEN "none" ELSE job[t]]
      /\ at' = [t \in Slots |-> IF t \in Aborted THEN "none" ELSE IF t = s THEN "take" ELSE at[t]]
      /\ built' = [t \in Slots |-> IF t \in Aborted THEN NoClient ELSE built[t]]
      /\ handle' = [t \in Slots |-> IF t \in Aborted \/ handle[t] \in Aborted THEN NoTask ELSE handle[t]]
      /\ qr_task' = NoTask
      /\ UNCHANGED <<file, client, temp_token, two_fa, window, overlap>>
  BY <1>2 DEF CancelTask, Moves, TypeOK
<1>4. NoClient \in Client /\ NoClient.pool = "none" /\ "take" \in Points
  BY DEF NoClient, Client, Points
<1>5. TypeOK'
  <2>1. /\ job' \in [Slots -> Jobs \cup {"none"}] /\ at' \in [Slots -> Points \cup {"none"}]
        /\ built' \in [Slots -> Client] /\ handle' \in [Slots -> Slots \cup {NoTask}]
    BY <1>3, <1>4 DEF TypeOK
  <2>2. Holders' \subseteq Holders
    BY <1>3 DEF Holders, TypeOK
  <2> QED
    BY <1>3, <2>1, <2>2 DEF TypeOK, file, window
<1>6. OnItsWay'
  BY <1>1, <1>3, PointsOfJobs DEF Base, OnItsWay, PointsOf, Starting
<1>7. BuiltKnown'
  BY <1>3, <1>4 DEF Base, BuiltKnown, TypeOK, Opened, file, CancelTask
<1>8. ClientKnown'
  BY <1>3 DEF Base, ClientKnown
<1>9. OneQrTask'
  <2> SUFFICES ASSUME NEW q \in Slots, job'[q] = "poll"
               PROVE  \/ at'[q] = "post"
                      \/ \E t \in Slots : job'[t] = "set_qr_task" /\ handle'[t] = q
    BY DEF OneQrTask, Of
  <2>1. q \notin Aborted /\ job[q] = "poll" /\ q # s
    BY <1>1, <1>3 DEF Starting
  <2>2. CASE at[q] = "post" \/ qr_task = q
    BY <1>3, <2>1, <2>2 DEF Aborted, Of
  <2>3. CASE \E t \in Slots : job[t] = "set_qr_task" /\ handle[t] = q
    BY <1>2, <1>3, <2>1, <2>3
  <2> QED
    BY <2>1, <2>2, <2>3 DEF Base, OneQrTask, Of
<1>10. BusyIsFreed'
  BY <1>1, <1>2, <1>3 DEF Base, BusyIsFreed, TypeOK, window
<1> QED
  BY <1>5, <1>6, <1>7, <1>8, <1>9, <1>10 DEF Base

LEMMA SetQrTaskKeeps ==
  ASSUME TypeOK, Base, NEW s \in Slots, SetQrTask(s)
  PROVE  TypeOK' /\ Base'
<1> DEFINE D == {s} \cup Aborted
<1>1. job[s] = "set_qr_task"
  BY JobOfPoint DEF SetQrTask, Base
<1>2. \A p \in Aborted : job[p] = "poll" /\ p = qr_task /\ p \in Slots
  BY DEF Aborted, Of
<1>3. /\ job' = [t \in Slots |-> IF t \in D THEN "none" ELSE job[t]]
      /\ at' = [t \in Slots |-> IF t \in D THEN "none" ELSE at[t]]
      /\ built' = [t \in Slots |-> IF t \in D THEN NoClient ELSE built[t]]
      /\ handle' = [t \in Slots |-> IF t \in D \/ handle[t] \in D THEN NoTask ELSE handle[t]]
      /\ qr_task' = handle[s]
      /\ UNCHANGED <<file, client, temp_token, two_fa, window, overlap>>
  BY DEF SetQrTask, Moves, TypeOK
<1>4. NoClient \in Client /\ NoClient.pool = "none"
  BY DEF NoClient, Client
<1>5. TypeOK'
  <2>1. /\ job' \in [Slots -> Jobs \cup {"none"}] /\ at' \in [Slots -> Points \cup {"none"}]
        /\ built' \in [Slots -> Client] /\ handle' \in [Slots -> Slots \cup {NoTask}]
    BY <1>3, <1>4 DEF TypeOK
  <2>2. Holders' \subseteq Holders
    BY <1>3 DEF Holders, TypeOK
  <2> QED
    BY <1>3, <2>1, <2>2 DEF TypeOK, file, window
<1>6. OnItsWay'
  BY <1>3, PointsOfJobs DEF Base, OnItsWay
<1>7. BuiltKnown'
  BY <1>3, <1>4 DEF Base, BuiltKnown, TypeOK, Opened, file
<1>8. ClientKnown'
  BY <1>3 DEF Base, ClientKnown
<1>9. OneQrTask'
  BY <1>1, <1>2, <1>3 DEF Base, OneQrTask, Of, TypeOK, Aborted
<1>10. BusyIsFreed'
  BY <1>1, <1>2, <1>3 DEF Base, BusyIsFreed, TypeOK, window
<1> QED
  BY <1>5, <1>6, <1>7, <1>8, <1>9, <1>10 DEF Base

(* The file of every client is unlinked.                                     *)
LEMMA UnlinkedClient ==
  ASSUME NEW c \in Client
  PROVE  /\ Unlinked(c) \in Client /\ Unlinked(c).pool # "linked"
         /\ Unlinked(c).pool = "none" <=> c.pool = "none"
         /\ Unlinked(c).token = c.token /\ (c.pool = "none" => Unlinked(c) = c)
BY DEF Unlinked, Client

LEMMA WipeSessionKeeps ==
  ASSUME TypeOK, Base, NEW s \in Slots, WipeSession(s)
  PROVE  TypeOK' /\ Base'
<1>1. job[s] \in Starting \cup {"logout"} /\ at[s] = "wipe"
  BY JobOfPoint DEF WipeSession, Base
<1>2. /\ tokens' = {} /\ several' = FALSE /\ client' = Unlinked(client)
      /\ at' = [at EXCEPT ![s] = AfterWipe(s)]
      /\ built' = [t \in Slots |-> Unlinked(built[t])]
      /\ UNCHANGED <<flow, job, handle, window, overlap>>
  BY DEF WipeSession
<1>3. AfterWipe(s) \in PointsOf(job[s]) /\ AfterWipe(s) \in {"open", "post"}
  BY <1>1 DEF AfterWipe, PointsOf, Starting
<1>4. TypeOK'
  <2>1. client' \in Client /\ client'.pool # "linked" /\ built' \in [Slots -> Client]
    BY <1>2, UnlinkedClient DEF TypeOK
  <2>2. Holders' \subseteq Holders /\ at' \in [Slots -> Points \cup {"none"}]
    BY <1>2, <1>3 DEF Holders, TypeOK, Points
  <2> QED
    BY <1>2, <2>1, <2>2 DEF TypeOK, flow, window
<1>5. OnItsWay'
  BY <1>2, <1>3 DEF Base, OnItsWay, TypeOK
<1>6. BuiltKnown'
  <2>1. \A t \in Slots : /\ built'[t].pool # "linked"
                         /\ built[t].pool # "none" => built'[t].pool # "none"
    BY <1>2, UnlinkedClient DEF TypeOK
  <2>2. \A t \in Slots : at'[t] \in Opened => at[t] \in Opened
    BY <1>2, <1>3 DEF TypeOK, Opened
  <2> QED
    BY <2>1, <2>2 DEF Base, BuiltKnown
<1>7. ClientKnown'
  BY <1>2, UnlinkedClient DEF Base, ClientKnown, TypeOK
<1>8. OneQrTask'
  BY <1>1, <1>2 DEF Base, OneQrTask, Of, TypeOK, flow, Starting
<1>9. BusyIsFreed'
  BY <1>2 DEF Base, BusyIsFreed, window
<1> QED
  BY <1>4, <1>5, <1>6, <1>7, <1>8, <1>9 DEF Base

(* The polling task that takes the place of the start is held by the task    *)
(* that is to store its handle.                                              *)
LEMMA QrStartedKeeps ==
  ASSUME TypeOK, Base, NEW s \in Slots, QrStarted(s)
  PROVE  TypeOK' /\ Base'
<1>1. PICK p \in Slots \ Alive :
        /\ job' = [job EXCEPT ![s] = "poll", ![p] = "set_qr_task"]
        /\ at' = [at EXCEPT ![s] = "ask", ![p] = "handle"]
        /\ handle' = [handle EXCEPT ![p] = s]
  BY DEF QrStarted
<1>2. /\ job[s] = "qr" /\ at[s] = "post" /\ job[p] = "none" /\ p # s
      /\ screen' = "qr" /\ busy' = FALSE /\ UNCHANGED <<file, client, flow, built, overlap>>
  BY <1>1 DEF QrStarted, At, Alive
<1>3. TypeOK'
  <2>1. /\ job' \in [Slots -> Jobs \cup {"none"}] /\ at' \in [Slots -> Points \cup {"none"}]
        /\ handle' \in [Slots -> Slots \cup {NoTask}]
    BY <1>1 DEF TypeOK, Jobs, SigningIn, Points
  <2>2. Holders' \subseteq Holders
    BY <1>1 DEF Holders, TypeOK
  <2> QED
    BY <1>2, <2>1, <2>2 DEF TypeOK, file, flow, Screens
<1>4. OnItsWay'
  <2>1. "ask" \in PointsOf("poll") /\ "handle" \in PointsOf("set_qr_task")
    BY DEF PointsOf, Starting
  <2> QED
    BY <1>1, <1>2, <2>1 DEF Base, OnItsWay, TypeOK
<1>5. BuiltKnown'
  BY <1>1, <1>2, JobOfPoint DEF Base, BuiltKnown, TypeOK, Opened, file
<1>6. ClientKnown'
  BY <1>2 DEF Base, ClientKnown
<1>7. OneQrTask'
  <2> SUFFICES ASSUME NEW q \in Slots, job'[q] = "poll"
               PROVE  \/ at'[q] = "post" \/ qr_task' = q
                      \/ \E t \in Slots : job'[t] = "set_qr_task" /\ handle'[t] = q
    BY DEF OneQrTask, Of
  <2>1. CASE q = s
    BY <1>1, <1>2, <2>1 DEF TypeOK
  <2>2. CASE q # s
    <3>1. job[q] = "poll" /\ at'[q] = at[q] /\ qr_task' = qr_task
      BY <1>1, <1>2, <2>2 DEF TypeOK, flow
    <3>2. CASE \E t \in Slots : job[t] = "set_qr_task" /\ handle[t] = q
      BY <1>1, <1>2, <3>2 DEF TypeOK
    <3>3. CASE at[q] = "post" \/ qr_task = q
      BY <3>1, <3>3
    <3> QED
      BY <3>1, <3>2, <3>3 DEF Base, OneQrTask, Of
  <2> QED
    BY <2>1, <2>2
<1>8. BusyIsFreed'
  BY <1>2 DEF BusyIsFreed
<1> QED
  BY <1>3, <1>4, <1>5, <1>6, <1>7, <1>8 DEF Base

(* A task begins in a slot that was idle.                                    *)
LEMMA BeginsKeeps ==
  ASSUME TypeOK, Base, NEW j \in Jobs \ {"poll", "set_qr_task"},
         NEW point \in PointsOf(j) \ ({"save", "sync"} \cup Opened), Begins(j, point),
         UNCHANGED <<file, client, flow, screen>>, overlap' \in {"none", "back", "start"},
         \/ busy' = busy
         \/ busy' = TRUE /\ j \in {"sms", "qr", "submit_code", "submit_2fa"}
  PROVE  TypeOK' /\ Base'
<1>1. PICK s \in Slots : /\ job[s] = "none"
                         /\ job' = [job EXCEPT ![s] = j] /\ at' = [at EXCEPT ![s] = point]
                         /\ built' = built /\ handle' = handle
  BY DEF Begins, Alive
<1>2. point \in Points \cup {"none"}
  BY PointsOfJobs
<1>3. TypeOK'
  <2>1. job' \in [Slots -> Jobs \cup {"none"}] /\ at' \in [Slots -> Points \cup {"none"}]
    BY <1>1, <1>2 DEF TypeOK
  <2>2. Holders' \subseteq Holders
    BY <1>1 DEF Holders, TypeOK
  <2>3. busy' \in BOOLEAN
    BY DEF TypeOK
  <2> QED
    BY <1>1, <2>1, <2>2, <2>3 DEF TypeOK, file, flow
<1>4. OnItsWay'
  BY <1>1 DEF Base, OnItsWay, TypeOK
<1>5. BuiltKnown'
  BY <1>1, JobOfPoint DEF Base, BuiltKnown, TypeOK, Opened, file
<1>6. ClientKnown'
  BY DEF Base, ClientKnown
<1>7. OneQrTask'
  <2> SUFFICES ASSUME NEW q \in Slots, job'[q] = "poll"
               PROVE  \/ at'[q] = "post" \/ qr_task' = q
                      \/ \E t \in Slots : job'[t] = "set_qr_task" /\ handle'[t] = q
    BY DEF OneQrTask, Of
  <2>1. q # s /\ job[q] = "poll" /\ at'[q] = at[q] /\ qr_task' = qr_task
    BY <1>1 DEF TypeOK, flow
  <2>2. CASE \E t \in Slots : job[t] = "set_qr_task" /\ handle[t] = q
    BY <1>1, <2>2 DEF TypeOK
  <2> QED
    BY <2>1, <2>2 DEF Base, OneQrTask, Of
<1>8. BusyIsFreed'
  BY <1>1 DEF Base, BusyIsFreed, TypeOK
<1> QED
  BY <1>3, <1>4, <1>5, <1>6, <1>7, <1>8 DEF Base

LEMMA NothingButWindow ==
  ASSUME TypeOK, Base, UNCHANGED <<file, client, flow, tasks, overlap>>,
         screen' \in Screens, busy' = busy
  PROVE  TypeOK' /\ Base'
<1>1. TypeOK'
  BY DEF TypeOK, Holders, file, flow, tasks
<1>2. OnItsWay' /\ BuiltKnown' /\ ClientKnown' /\ OneQrTask' /\ BusyIsFreed'
  BY DEF Base, OnItsWay, BuiltKnown, ClientKnown, OneQrTask, BusyIsFreed, Of, file, flow, tasks
<1> QED
  BY <1>1, <1>2 DEF Base

(* What each job has before it at a point.                                   *)
LEMMA Onward ==
  ASSUME TypeOK, OnItsWay, NEW s \in Slots
  PROVE  /\ at[s] = "cancel" => "take" \in PointsOf(job[s])
         /\ at[s] = "take" => "clear" \in PointsOf(job[s])
         /\ at[s] = "clear" => (IF job[s] = "back" THEN "post" ELSE "wipe") \in PointsOf(job[s])
         /\ at[s] = "wipe" => AfterWipe(s) \in PointsOf(job[s])
         /\ at[s] = "open" => {"insert", "load"} \subseteq PointsOf(job[s])
         /\ at[s] = "insert" => "load" \in PointsOf(job[s])
         /\ at[s] = "load" => "connect" \in PointsOf(job[s])
         /\ at[s] = "connect" => "store" \in PointsOf(job[s])
         /\ at[s] = "store" => (IF job[s] = "resume" THEN "post" ELSE "flow") \in PointsOf(job[s])
         /\ at[s] = "flow" => "post" \in PointsOf(job[s])
         /\ at[s] = "clone" => {"ask", "error"} \subseteq PointsOf(job[s])
         /\ at[s] \in {"ask", "save", "sync"} =>
              {"save", "sync", "post"} \subseteq PointsOf(job[s])
         /\ at[s] \in {"ask", "save", "sync"} /\ job[s] # "poll" => "error" \in PointsOf(job[s])
         /\ job[s] = "submit_code" => {"track", "post2fa"} \subseteq PointsOf(job[s])
         /\ job[s] \in Starting => "error" \in PointsOf(job[s])
<1>1. at[s] \in PointsOf(job[s]) /\ job[s] \in Jobs \cup {"none"}
  BY DEF TypeOK, OnItsWay
<1> QED
  BY <1>1 DEF PointsOf, Jobs, Starting, SigningIn, AfterWipe

LEMMA TakeClientKeeps ==
  ASSUME TypeOK, Base, NEW s \in Slots, TakeClient(s)
  PROVE  TypeOK' /\ Base'
<1>1. /\ "clear" \in PointsOf(job[s]) /\ Moves({}, s, "clear", built[s]) /\ built[s] \in Client
      /\ job[s] # "poll" /\ (built[s].pool = "linked" => tokens # {})
  BY Onward, JobOfPoint DEF TakeClient, Goes, Base, TypeOK, BuiltKnown, Starting
<1>2. NoClient \in Client /\ NoClient.pool = "none"
  BY DEF NoClient, Client
<1> QED
  BY <1>1, <1>2, GoesOn DEF TakeClient, TypeOK, file, flow, Opened

LEMMA ClearScratchKeeps ==
  ASSUME TypeOK, Base, NEW s \in Slots, ClearScratch(s)
  PROVE  TypeOK' /\ Base'
<1> DEFINE point == IF job[s] = "back" THEN "post" ELSE "wipe"
<1>1. /\ point \in PointsOf(job[s]) /\ Moves({}, s, point, built[s]) /\ built[s] \in Client
      /\ job[s] # "poll" /\ (built[s].pool = "linked" => tokens # {})
      /\ point \in {"post", "wipe"}
  BY Onward, JobOfPoint DEF ClearScratch, Goes, Base, TypeOK, BuiltKnown, Starting
<1> HIDE DEF point
<1> QED
  BY <1>1, GoesOn DEF ClearScratch, TypeOK, Base, ClientKnown, file, Opened

LEMMA WipeFailsKeeps ==
  ASSUME TypeOK, Base, NEW s \in Slots, WipeFails(s)
  PROVE  TypeOK' /\ Base'
<1>1. /\ AfterWipe(s) \in PointsOf(job[s]) /\ AfterWipe(s) \in {"open", "post"}
      /\ Moves({}, s, AfterWipe(s), built[s]) /\ built[s] \in Client
      /\ job[s] # "poll" /\ (built[s].pool = "linked" => tokens # {})
  BY Onward, JobOfPoint DEF WipeFails, Goes, Base, TypeOK, BuiltKnown, Starting, AfterWipe
<1> QED
  BY <1>1, GoesOn DEF WipeFails, TypeOK, Base, ClientKnown, file, flow, Opened

LEMMA OpenSessionKeeps ==
  ASSUME TypeOK, Base, NEW s \in Slots, OpenSession(s)
  PROVE  TypeOK' /\ Base'
<1> DEFINE point == IF tokens = {} THEN "insert" ELSE "load"
           b == [pool |-> "linked", token |-> FALSE]
<1>1. /\ point \in PointsOf(job[s]) /\ Moves({}, s, point, b) /\ b \in Client
      /\ job[s] # "poll" /\ b.pool = "linked" /\ (point = "insert" \/ tokens # {})
      /\ point \in {"insert", "load"}
  BY Onward, JobOfPoint DEF OpenSession, Base, TypeOK, Starting, Client
<1> HIDE DEF point, b
<1> QED
  BY <1>1, GoesOn DEF OpenSession, TypeOK, Base, ClientKnown, file, flow

LEMMA InsertDeviceKeeps ==
  ASSUME TypeOK, Base, NEW s \in Slots, InsertDevice(s)
  PROVE  TypeOK' /\ Base'
<1>1. /\ "load" \in PointsOf(job[s]) /\ Moves({}, s, "load", built[s]) /\ built[s] \in Client
      /\ job[s] # "poll" /\ built[s].pool # "none"
  BY Onward, JobOfPoint DEF InsertDevice, Goes, Base, TypeOK, BuiltKnown, Opened, Starting
<1>2. /\ tokens' \subseteq BOOLEAN /\ several' \in BOOLEAN /\ (tokens # {} => tokens' # {})
      /\ built[s].pool = "linked" => tokens' # {}
  BY DEF InsertDevice, TypeOK, file
<1> QED
  BY <1>1, <1>2, GoesOn DEF InsertDevice, TypeOK, Base, ClientKnown, flow

LEMMA LoadAuthKeeps ==
  ASSUME TypeOK, Base, NEW s \in Slots, LoadAuth(s)
  PROVE  TypeOK' /\ Base'
<1>1. PICK t \in BOOLEAN : Moves({}, s, "connect", [pool |-> built[s].pool, token |-> t])
  BY DEF LoadAuth, TypeOK
<1> DEFINE b == [pool |-> built[s].pool, token |-> t]
<1>2. /\ b \in Client /\ b.pool # "none" /\ (b.pool = "linked" => tokens # {})
      /\ Moves({}, s, "connect", b)
  BY <1>1 DEF LoadAuth, TypeOK, Client, Base, BuiltKnown, Opened
<1>3. "connect" \in PointsOf(job[s]) /\ job[s] # "poll"
  BY Onward, JobOfPoint DEF LoadAuth, Base, Starting
<1> HIDE DEF b
<1> QED
  BY <1>2, <1>3, GoesOn DEF LoadAuth, TypeOK, Base, ClientKnown, file, flow

LEMMA StoreClientKeeps ==
  ASSUME TypeOK, Base, NEW s \in Slots, StoreClient(s)
  PROVE  TypeOK' /\ Base'
<1> DEFINE point == IF job[s] = "resume" THEN "post" ELSE "flow"
<1>1. /\ point \in PointsOf(job[s]) /\ Moves({}, s, point, NoClient)
      /\ job[s] # "poll" /\ point \in {"post", "flow"}
  BY Onward, JobOfPoint DEF StoreClient, Base, Starting
<1>2. NoClient \in Client /\ NoClient.pool = "none"
  BY DEF NoClient, Client
<1>3. /\ client' = built[s] /\ client' \in Client /\ client'.pool # "none"
      /\ client'.pool = "linked" => tokens # {}
  BY DEF StoreClient, TypeOK, Base, BuiltKnown, Opened
<1> HIDE DEF point
<1> QED
  BY <1>1, <1>2, <1>3, GoesOn DEF StoreClient, TypeOK, file, flow, Opened

(* The steps that leave the file and the client, but for a token in memory,  *)
(* as they are.                                                              *)
LEMMA PlainStepKeeps ==
  ASSUME TypeOK, Base, NEW s \in Slots, NEW point \in PointsOf(job[s]), Goes(s, point),
         at[s] # "insert", job[s] = "poll" => at[s] # "post", point \notin Opened \ {"store"},
         point = "store" => at[s] = "connect",
         point \in {"save", "sync"} => Holders \subseteq {s},
         UNCHANGED <<file, client, qr_task, window, overlap>>,
         temp_token' \in BOOLEAN, two_fa' \in BOOLEAN
  PROVE  TypeOK' /\ Base'
<1>1. /\ Moves({}, s, point, built[s]) /\ built[s] \in Client
      /\ built[s].pool = "linked" => tokens # {}
      /\ point \in Opened => built[s].pool # "none"
  BY DEF Goes, TypeOK, Base, BuiltKnown, Opened
<1> QED
  BY <1>1, GoesOn DEF TypeOK, Base, ClientKnown, file

LEMMA StartFailsKeeps ==
  ASSUME TypeOK, Base, NEW s \in Slots, StartFails(s)
  PROVE  TypeOK' /\ Base'
<1>1. /\ "error" \in PointsOf(job[s]) /\ Moves({}, s, "error", NoClient) /\ job[s] # "poll"
      /\ NoClient \in Client /\ NoClient.pool = "none"
  BY Onward DEF StartFails, Base, Starting, NoClient, Client
<1> QED
  BY <1>1, GoesOn DEF StartFails, TypeOK, Base, ClientKnown, file, flow, Opened

LEMMA GotTokenKeeps ==
  ASSUME TypeOK, Base, NEW s \in Slots, GotToken(s)
  PROVE  TypeOK' /\ Base'
<1>1. /\ "save" \in PointsOf(job[s]) /\ Moves({}, s, "save", built[s]) /\ built[s] \in Client
      /\ (built[s].pool = "linked" => tokens # {}) /\ at[s] = "ask" /\ Holders = {}
  BY Onward DEF GotToken, Goes, Base, TypeOK, BuiltKnown, Held
<1>2. /\ client' \in Client /\ client'.pool = client.pool /\ client.pool # "none"
  BY DEF GotToken, TypeOK, Client, Base, ClientKnown
<1> QED
  BY <1>1, <1>2, GoesOn DEF GotToken, TypeOK, file, flow, Opened

LEMMA SaveTokenKeeps ==
  ASSUME TypeOK, Base, NEW s \in Slots, SaveToken(s)
  PROVE  TypeOK' /\ Base'
<1>1. /\ "sync" \in PointsOf(job[s]) /\ Moves({}, s, "sync", built[s]) /\ built[s] \in Client
      /\ (built[s].pool = "linked" => tokens # {}) /\ at[s] = "save" /\ Holders \subseteq {s}
  BY Onward DEF SaveToken, Goes, Base, TypeOK, BuiltKnown, Holders
<1>2. tokens' \subseteq BOOLEAN /\ (tokens # {} => tokens' # {})
  BY DEF SaveToken, SaveAuth, TypeOK
<1> QED
  BY <1>1, <1>2, GoesOn DEF SaveToken, TypeOK, Base, ClientKnown, flow, Opened

LEMMA StepKeeps ==
  ASSUME TypeOK, Base, NEW s \in Slots, Step(s)
  PROVE  TypeOK' /\ Base'
<1> USE Onward, JobOfPoint
<1>1. CASE ClearScratch(s) \/ TakeClient(s) \/ CancelTask(s) \/ WipeSession(s) \/ WipeFails(s)
  BY <1>1, ClearScratchKeeps, TakeClientKeeps, CancelTaskKeeps, WipeSessionKeeps, WipeFailsKeeps
<1>2. CASE GoneBack(s)
  BY <1>2, GoesOver DEF GoneBack, At, Screens
<1>3. CASE LoggedOut(s)
  BY <1>3, GoesOver DEF LoggedOut, At, Screens, TypeOK
<1>4. CASE OpenSession(s) \/ InsertDevice(s) \/ LoadAuth(s) \/ StartFails(s) \/ StoreClient(s)
  BY <1>4, OpenSessionKeeps, InsertDeviceKeeps, LoadAuthKeeps, StartFailsKeeps, StoreClientKeeps
<1>5. CASE Connects(s)
  BY <1>5, PlainStepKeeps DEF Connects, Base, Opened, flow, TypeOK
<1>6. CASE NeedLogin(s)
  BY <1>6, GoesOver DEF NeedLogin, Screens, TypeOK
<1>7. CASE StoreFlow(s)
  BY <1>7, PlainStepKeeps DEF StoreFlow, Base, Opened, TypeOK, Starting
<1>8. CASE SmsStarted(s)
  BY <1>8, GoesOver DEF SmsStarted, At, Screens
<1>9. CASE QrStarted(s) \/ SetQrTask(s) \/ GotToken(s) \/ SaveToken(s)
  BY <1>9, QrStartedKeeps, SetQrTaskKeeps, GotTokenKeeps, SaveTokenKeeps
<1>10. CASE QrRenderFails(s)
  BY <1>10, PlainStepKeeps DEF QrRenderFails, At, Base, Opened, TypeOK, flow, Starting
<1>11. CASE CloneScratch(s)
  <2>1. PICK point \in {"ask", "error"} : Goes(s, point)
    BY <1>11 DEF CloneScratch
  <2> QED
    BY <1>11, <2>1, PlainStepKeeps DEF CloneScratch, Base, Opened, TypeOK, flow
<1>12. CASE SignInFails(s)
  <2>1. CASE job[s] = "poll"
    BY <1>12, <2>1, GoesOver DEF SignInFails, TypeOK, window
  <2>2. CASE job[s] # "poll"
    BY <1>12, <2>2, PlainStepKeeps DEF SignInFails, Base, Opened, TypeOK
  <2> QED
    BY <2>1, <2>2
<1>13. CASE TwoFactorRequired(s)
  BY <1>13, PlainStepKeeps DEF TwoFactorRequired, At, Base, Opened, TypeOK, flow
<1>14. CASE StoreTrack(s)
  BY <1>14, PlainStepKeeps DEF StoreTrack, Base, Opened, TypeOK
<1>15. CASE AskTwoFactor(s)
  BY <1>15, GoesOver DEF AskTwoFactor, Base, Screens
<1>16. CASE Synced(s)
  BY <1>16, PlainStepKeeps DEF Synced, Base, Opened, TypeOK, flow
<1>17. CASE FinishLogin(s)
  BY <1>17, GoesOver DEF FinishLogin, At, Screens, SigningIn, TypeOK
<1>18. CASE ShowError(s)
  BY <1>18, GoesOver DEF ShowError, Base, Starting, TypeOK
<1> QED
  BY <1>1, <1>2, <1>3, <1>4, <1>5, <1>6, <1>7, <1>8, <1>9, <1>10, <1>11, <1>12, <1>13, <1>14,
     <1>15, <1>16, <1>17, <1>18 DEF Step

LEMMA PressKeeps ==
  ASSUME TypeOK, Base, Press
  PROVE  TypeOK' /\ Base'
<1>1. /\ "cancel" \in PointsOf("sms") /\ "cancel" \in PointsOf("qr") /\ "cancel" \in PointsOf("back")
      /\ "cancel" \in PointsOf("logout")
      /\ "clone" \in PointsOf("submit_code") /\ "clone" \in PointsOf("submit_2fa")
  BY DEF PointsOf, Starting
<1>2. /\ {"sms", "qr", "back", "logout", "submit_code", "submit_2fa"} \subseteq Jobs \ {"poll", "set_qr_task"}
      /\ {"cancel", "clone"} \cap ({"save", "sync"} \cup Opened) = {}
  BY DEF Jobs, Starting, SigningIn, Opened
<1>3. CASE ChoosePhone
  BY <1>3, NothingButWindow DEF ChoosePhone, Screens
<1>4. ASSUME NEW j \in {"sms", "qr"}, NEW n, Starts(j, n)
      PROVE  TypeOK' /\ Base'
  <2>1. "cancel" \in PointsOf(j) \ ({"save", "sync"} \cup Opened) /\ j \in Jobs \ {"poll", "set_qr_task"}
    BY <1>1, <1>2
  <2> QED
    BY <1>4, <2>1, BeginsKeeps DEF Starts
<1>5. ASSUME NEW j \in {"submit_code", "submit_2fa"}, Submits(j)
      PROVE  TypeOK' /\ Base'
  <2>1. "clone" \in PointsOf(j) \ ({"save", "sync"} \cup Opened) /\ j \in Jobs \ {"poll", "set_qr_task"}
    BY <1>1, <1>2
  <2> QED
    BY <1>5, <2>1, BeginsKeeps DEF Submits, Races, TypeOK
<1>6. CASE Back
  <2>1. "cancel" \in PointsOf("back") \ ({"save", "sync"} \cup Opened)
    BY <1>1, <1>2
  <2> QED
    BY <1>2, <1>6, <2>1, BeginsKeeps DEF Back, Races, TypeOK, window
<1>7. CASE Logout
  <2>1. "cancel" \in PointsOf("logout") \ ({"save", "sync"} \cup Opened)
    BY <1>1, <1>2
  <2> QED
    BY <1>2, <1>7, <2>1, BeginsKeeps DEF Logout, TypeOK, window
<1> QED
  BY <1>3, <1>4, <1>5, <1>6, <1>7 DEF Press, ChooseQr, SubmitPhone, SubmitCode, Submit2fa

(* The process starts with no task and no client.                            *)
LEMMA InitBase == Init => TypeOK /\ Base
<1> SUFFICES ASSUME Init PROVE TypeOK /\ Base
  OBVIOUS
<1>1. NoClient \in Client /\ NoClient.pool = "none"
  BY DEF NoClient, Client
<1>2. TypeOK
  BY <1>1 DEF Init, TypeOK, Screens, Holders
<1>3. OnItsWay
  BY PointsOfJobs DEF Init, OnItsWay
<1>4. BuiltKnown /\ ClientKnown /\ OneQrTask /\ BusyIsFreed
  BY <1>1 DEF Init, BuiltKnown, ClientKnown, OneQrTask, BusyIsFreed, Opened, Of
<1> QED
  BY <1>2, <1>3, <1>4 DEF Base

LEMMA RelaunchKeeps ==
  ASSUME TypeOK, Base, Relaunch
  PROVE  TypeOK' /\ Base'
<1>1. NoClient \in Client /\ NoClient.pool = "none"
  BY DEF NoClient, Client
<1>2. TypeOK'
  BY <1>1 DEF Relaunch, TypeOK, file, Screens, Holders
<1>3. OnItsWay'
  BY PointsOfJobs DEF Relaunch, OnItsWay
<1>4. BuiltKnown' /\ ClientKnown' /\ OneQrTask' /\ BusyIsFreed'
  BY <1>1 DEF Relaunch, BuiltKnown, ClientKnown, OneQrTask, BusyIsFreed, Opened, Of
<1> QED
  BY <1>2, <1>3, <1>4 DEF Base

LEMMA SpawnResumeKeeps ==
  ASSUME TypeOK, Base, SpawnResume
  PROVE  TypeOK' /\ Base'
<1>1. "open" \in PointsOf("resume") \ ({"save", "sync"} \cup Opened)
  BY DEF PointsOf, Opened
<1>2. "resume" \in Jobs \ {"poll", "set_qr_task"}
  BY DEF Jobs
<1> QED
  BY <1>1, <1>2, BeginsKeeps DEF SpawnResume, TypeOK, window

LEMMA NextBase == TypeOK /\ Base /\ [Next]_vars => TypeOK' /\ Base'
<1> SUFFICES ASSUME TypeOK, Base, [Next]_vars PROVE TypeOK' /\ Base'
  OBVIOUS
<1>1. CASE UNCHANGED vars
  BY <1>1, NothingButWindow DEF vars, window, TypeOK
<1> QED
  BY <1>1, RelaunchKeeps, SpawnResumeKeeps, PressKeeps, StepKeeps DEF Next

LEMMA AlwaysBase == Spec => [](TypeOK /\ Base)
<1>1. TypeOK /\ Base /\ [Next]_vars => TypeOK' /\ Base'
  BY NextBase
<1> QED
  BY <1>1, InitBase, PTL DEF Spec

(* Tasks, flow, mutex and session file keep their types, with one holder of  *)
(* the client mutex and no client on a file without a row.                   *)
THEOREM TypeCorrect == Spec => []TypeOK
<1> QED
  BY AlwaysBase, PTL

(* Every polling task with more than its post to do has its handle where the *)
(* next login, Back or logout finds it (auth.rs 200-209, main.rs 290-293).   *)
THEOREM EveryPollHeld == Spec => []OneQrTask
<1>1. Base => OneQrTask
  BY DEF Base
<1> QED
  BY <1>1, AlwaysBase, PTL

(* A busy window has a task alive whose every end frees it (main.rs 66-185).  *)
THEOREM BusyAlwaysFreed == Spec => []BusyIsFreed
<1>1. Base => BusyIsFreed
  BY DEF Base
<1> QED
  BY <1>1, AlwaysBase, PTL
-----------------------------------------------------------------------------
(* A login that began alone *)

Opening == {"resume"} \cup Starting

(* A task that opens a session is alone.                                     *)
StartsAlone == \A s \in Slots : job[s] \in Opening =>
  /\ \A t \in Slots : job[t] # "none" => t = s
  /\ IF job[s] = "resume" THEN screen = "bootstrap" ELSE busy /\ screen \in {"choose", "phone"}

(* One sign-in is alive, on its own screen or on one that Back has shown.    *)
OneSignsIn == \A s \in Slots : job[s] \in SigningIn =>
  /\ \A t \in Slots : job[t] \in SigningIn => t = s
  /\ \/ screen \in {"choose", "phone"}
     \/ job[s] = "poll" /\ screen = "qr"
     \/ job[s] # "poll" /\ screen \in {"code", "2fa"} /\ busy

(* No sign-in is alive while a logout is.                                    *)
LogoutApart == Of("logout") # {} =>
  /\ screen \in {"authed", "choose", "phone"}
  /\ \A s \in Slots : job[s] \notin SigningIn

Company == StartsAlone /\ OneSignsIn /\ LogoutApart

(* From its take to its store a task leaves no client in the controller.     *)
Clientless(s) == \/ job[s] \in Starting /\ at[s] \in {"clear", "wipe", "open"} \cup Opened
                 \/ job[s] = "logout" /\ at[s] \in {"clear", "wipe"}

(* What each task has opened and saved so far.                               *)
Progress == \A s \in Slots :
  /\ at[s] = "save" => client.pool = "linked"
  /\ job[s] \in SigningIn /\ at[s] \in {"sync", "post"} => TRUE \in tokens
  /\ job[s] = "resume" /\ at[s] = "post" => TRUE \in tokens
  /\ at[s] \in Opened => built[s].pool = "linked"
  /\ at[s] \in {"connect", "store"} /\ built[s].token => TRUE \in tokens
  /\ job[s] = "resume" /\ at[s] = "store" => built[s].token
  /\ Clientless(s) => client = NoClient

(* Only a client that a start is about to take may have lost its file.       *)
ClientLinked == client.pool = "unlinked" =>
  \E s \in Slots : job[s] \in Starting /\ at[s] \in {"cancel", "take"}

AuthedSaved == screen = "authed" /\ Of("logout") = {} => TRUE \in tokens

Saved == Company /\ Progress /\ ClientLinked /\ AuthedSaved

(* Unless a Back met the sign-in, its client stays.                          *)
HasToken == client # NoClient /\ client.token

NoBack ==
  /\ screen = "authed" \/ (\E s \in Slots : job[s] \in SigningIn) => Of("back") = {}
  /\ \A s \in Slots : job[s] \in SigningIn /\ at[s] \in {"save", "sync", "post"} => HasToken
  /\ \A s \in Slots : job[s] = "resume" /\ at[s] = "post" => HasToken
  /\ screen = "authed" /\ Of("logout") = {} => HasToken

Alone    == Saved /\ (overlap = "none" => NoBack)
AloneInv == overlap # "start" => Alone
-----------------------------------------------------------------------------
(* Which tasks are alive together *)

(* Tasks go on or are over, and the window stays as it is.                   *)
LEMMA CompanyKept ==
  ASSUME Company, \A t \in Slots : job'[t] \in {job[t], "none"}, UNCHANGED window
  PROVE  Company'
<1>1. StartsAlone'
  BY DEF Company, StartsAlone, Opening, Starting, window
<1>2. OneSignsIn'
  BY DEF Company, OneSignsIn, SigningIn, window
<1>3. LogoutApart'
  BY DEF Company, LogoutApart, Of, SigningIn, window
<1> QED
  BY <1>1, <1>2, <1>3 DEF Company

LEMMA MovesJobs ==
  ASSUME TypeOK, NEW s \in Slots, NEW D, NEW point, NEW b, Moves(D, s, point, b)
  PROVE  \A t \in Slots : /\ job'[t] = (IF t \in D THEN "none" ELSE job[t])
                          /\ at'[t] = (IF t \in D THEN "none" ELSE IF t = s THEN point ELSE at[t])
                          /\ built'[t] = (IF t \in D THEN NoClient ELSE IF t = s THEN b ELSE built[t])
BY DEF Moves

(* A task is over and the window changes with it.                            *)
LEMMA CompanyPosts ==
  ASSUME TypeOK, Company, NEW s \in Slots, job[s] # "none", Ends(s), screen' \in Screens,
         busy' = busy \/ job[s] # "logout",
         \/ screen' = "choose" /\ (job[s] = "logout" => busy' = busy)
         \/ screen' = screen /\ job[s] \in {"submit_code", "submit_2fa"} \cup Starting
         \/ job[s] \in SigningIn \cup Opening
  PROVE  Company'
<1>1. /\ job'[s] = "none" /\ \A t \in Slots : t # s => job'[t] = job[t]
  BY MovesJobs DEF Ends
<1>2. StartsAlone'
  BY <1>1 DEF Company, StartsAlone, Opening, Starting, SigningIn
<1>3. OneSignsIn'
  BY <1>1 DEF Company, OneSignsIn, StartsAlone, SigningIn, Opening, Starting
<1>4. LogoutApart'
  BY <1>1 DEF Company, LogoutApart, OneSignsIn, StartsAlone, Of, SigningIn, Opening, Starting
<1> QED
  BY <1>2, <1>3, <1>4 DEF Company
-----------------------------------------------------------------------------
(* What each step leaves saved, and signed in *)

LEMMA GoesDoes ==
  ASSUME TypeOK, NEW s \in Slots, NEW point, NEW b, Moves({}, s, point, b)
  PROVE  /\ job' = job /\ at' = [at EXCEPT ![s] = point] /\ built' = [built EXCEPT ![s] = b]
BY DEF Moves, TypeOK

LEMMA EndsDoes ==
  ASSUME TypeOK, NEW s \in Slots, Ends(s)
  PROVE  /\ job' = [job EXCEPT ![s] = "none"] /\ at' = [at EXCEPT ![s] = "none"]
         /\ built' = [built EXCEPT ![s] = NoClient]
BY DEF Ends, Moves, TypeOK

(* A step that leaves the file, the client and the window as they are: only   *)
(* polling tasks and the tasks that store their handles end in one.          *)
LEMMA QuietAlone ==
  ASSUME TypeOK, Base, Alone, NEW s \in Slots, UNCHANGED <<file, client, window, overlap>>,
         \A t \in Slots : \/ job'[t] = job[t]
                          \/ job[t] \in {"poll", "set_qr_task"} /\ job'[t] = "none" /\ at'[t] = "none",
         \A t \in Slots \ {s} : job'[t] = job[t] => at'[t] = at[t] /\ built'[t] = built[t],
         job'[s] = job[s] =>
            \/ at'[s] \in {"track", "post2fa", "error", "ask"} /\ at[s] \notin {"cancel", "take"}
            \/ at[s] = "cancel" /\ at'[s] = "take"
            \/ at[s] = "clear" /\ at'[s] = IF job[s] = "back" THEN "post" ELSE "wipe"
            \/ at[s] = "wipe" /\ at'[s] = AfterWipe(s)
            \/ at[s] = "connect" /\ at'[s] = "store" /\ built'[s] = built[s]
                 /\ (job[s] = "resume" => built[s].token)
            \/ at[s] = "flow" /\ at'[s] = "post"
            \/ at[s] = "sync" /\ at'[s] = "post"
  PROVE  Alone'
<1>1. Company'
  BY CompanyKept DEF Alone, Saved
<1>2. \A t \in Slots \ {s} : \/ job'[t] = job[t] /\ at'[t] = at[t] /\ built'[t] = built[t]
                             \/ job'[t] = "none" /\ at'[t] = "none"
  OBVIOUS
<1>3. /\ client' = client /\ tokens' = tokens /\ screen' = screen /\ overlap' = overlap
  BY DEF file, window
<1>4. \/ job'[s] = "none" /\ at'[s] = "none"
      \/ job'[s] = job[s] /\ at'[s] \in {"track", "post2fa", "error", "ask"} /\ at[s] \notin {"cancel", "take"}
      \/ job'[s] = job[s] /\ job[s] \in Starting \cup {"back", "logout"} /\ at[s] = "cancel" /\ at'[s] = "take"
      \/ job'[s] = job[s] /\ at[s] = "clear" /\ job[s] = "back" /\ at'[s] = "post"
      \/ job'[s] = job[s] /\ at[s] = "clear" /\ job[s] \in Starting \cup {"logout"} /\ at'[s] = "wipe"
      \/ job'[s] = job[s] /\ at[s] = "wipe" /\ job[s] = "logout" /\ at'[s] = "post"
      \/ job'[s] = job[s] /\ at[s] = "wipe" /\ job[s] \in Starting /\ at'[s] = "open"
      \/ /\ job'[s] = job[s] /\ at[s] = "connect" /\ at'[s] = "store" /\ built'[s] = built[s]
         /\ (job[s] = "resume" => built[s].token) /\ job[s] \in Opening
      \/ job'[s] = job[s] /\ at[s] = "flow" /\ job[s] \in Starting /\ at'[s] = "post"
      \/ job'[s] = job[s] /\ at[s] = "sync" /\ job[s] \in SigningIn /\ at'[s] = "post"
  BY JobOfPoint DEF Base, AfterWipe, Opening
<1>5. Progress'
  <2> SUFFICES ASSUME NEW t \in Slots
               PROVE  /\ at'[t] = "save" => client'.pool = "linked"
                      /\ job'[t] \in SigningIn /\ at'[t] \in {"sync", "post"} => TRUE \in tokens'
                      /\ job'[t] = "resume" /\ at'[t] = "post" => TRUE \in tokens'
                      /\ at'[t] \in Opened => built'[t].pool = "linked"
                      /\ at'[t] \in {"connect", "store"} /\ built'[t].token => TRUE \in tokens'
                      /\ job'[t] = "resume" /\ at'[t] = "store" => built'[t].token
                      /\ Clientless(t)' => client' = NoClient
    BY DEF Progress
  <2>1. CASE t # s
    BY <1>2, <1>3, <2>1 DEF Alone, Saved, Progress, Clientless, Opened, Opening, Starting, SigningIn
  <2>2. CASE t = s
    BY <1>3, <1>4, <2>2 DEF Alone, Saved, Progress, Clientless, Opened, Opening, Starting, SigningIn
  <2> QED
    BY <2>1, <2>2
<1>6. ClientLinked'
  BY <1>2, <1>3, <1>4 DEF Alone, Saved, ClientLinked, Starting
<1>7. AuthedSaved'
  BY <1>3 DEF Alone, Saved, AuthedSaved, Of
<1>8. overlap' = "none" => NoBack'
  BY <1>2, <1>3, <1>4 DEF Alone, NoBack, HasToken, Of, SigningIn, Starting
<1> QED
  BY <1>1, <1>5, <1>6, <1>7, <1>8 DEF Alone, Saved

(* A task posts to the window and is over.                                   *)
LEMMA PostAlone ==
  ASSUME TypeOK, Base, Alone, NEW s \in Slots, Ends(s), job[s] # "none",
         UNCHANGED <<file, client, overlap>>, screen' \in Screens,
         at[s] \notin {"cancel", "take"},
         \/ screen' = "choose" /\ (job[s] = "logout" => busy' = busy)
         \/ screen' = screen /\ job[s] \in {"submit_code", "submit_2fa"} \cup Starting
         \/ screen' \in {"2fa", "code"} /\ job[s] \in SigningIn \cup Opening
         \/ screen' = "authed" /\ job[s] \in SigningIn \cup {"resume"} /\ at[s] = "post",
         busy' = busy \/ job[s] # "logout"
  PROVE  Alone'
<1>1. /\ job' = [job EXCEPT ![s] = "none"] /\ at' = [at EXCEPT ![s] = "none"]
      /\ built' = [built EXCEPT ![s] = NoClient]
      /\ client' = client /\ tokens' = tokens /\ overlap' = overlap
  BY EndsDoes DEF file
<1>2. Company'
  <2>1. \/ screen' = "choose" /\ (job[s] = "logout" => busy' = busy)
        \/ screen' = screen /\ job[s] \in {"submit_code", "submit_2fa"} \cup Starting
        \/ job[s] \in SigningIn \cup Opening
    BY DEF Opening
  <2>2. Company
    BY DEF Alone, Saved
  <2> QED
    BY <2>1, <2>2, CompanyPosts
<1>3. Progress'
  BY <1>1 DEF Alone, Saved, Progress, Clientless, Opened, Opening, Starting, SigningIn, TypeOK
<1>4. ClientLinked'
  BY <1>1 DEF Alone, Saved, ClientLinked, Starting, TypeOK
<1>5. screen = "authed" => job[s] \notin {"submit_code", "submit_2fa"} \cup Starting
  BY DEF Alone, Saved, Company, StartsAlone, OneSignsIn, Opening, Starting, SigningIn
<1>6. AuthedSaved'
  BY <1>1, <1>5 DEF Alone, Saved, AuthedSaved, Progress, Of, TypeOK
<1>7. overlap' = "none" => NoBack'
  <2> SUFFICES ASSUME overlap = "none"
               PROVE  NoBack'
    BY <1>1
  <2>1. NoBack
    BY DEF Alone
  <2>2. (screen' = "authed" \/ (\E t \in Slots : job'[t] \in SigningIn)) => Of("back")' = {}
    <3>1. CASE job[s] = "resume"
      BY <1>1, <3>1 DEF Alone, Saved, Company, StartsAlone, Opening, Of, TypeOK
    <3>2. CASE job[s] # "resume"
      BY <1>1, <1>5, <2>1, <3>2 DEF NoBack, Of, TypeOK, SigningIn
    <3> QED
      BY <3>1, <3>2
  <2>3. screen' = "authed" => HasToken \/ (Of("logout") # {} /\ job[s] # "logout")
    BY <1>5, <2>1 DEF NoBack, Of
  <2> QED
    BY <1>1, <1>5, <2>1, <2>2, <2>3 DEF NoBack, HasToken, Of, TypeOK, SigningIn
<1> QED
  BY <1>2, <1>3, <1>4, <1>6, <1>7 DEF Alone, Saved

LEMMA TakeClientAlone ==
  ASSUME TypeOK, Base, Alone, NEW s \in Slots, TakeClient(s)
  PROVE  Alone'
<1>1. /\ job' = job /\ at' = [at EXCEPT ![s] = "clear"] /\ built' = built
      /\ client' = NoClient /\ tokens' = tokens /\ overlap' = overlap /\ screen' = screen
      /\ at[s] = "take" /\ Holders = {} /\ job[s] \in Starting \cup {"back", "logout"}
  BY GoesDoes, JobOfPoint DEF TakeClient, Goes, TypeOK, file, window, Held, Base
<1>2. Company'
  BY <1>1, CompanyKept DEF Alone, Saved, TakeClient
<1>3. Progress'
  BY <1>1 DEF Alone, Saved, Progress, Clientless, Opened, Opening, Starting, SigningIn, TypeOK, Holders
<1>4. ClientLinked' /\ AuthedSaved'
  BY <1>1 DEF Alone, Saved, ClientLinked, AuthedSaved, Of, NoClient
<1>5. overlap' = "none" => NoBack'
  <2> SUFFICES ASSUME overlap = "none"
               PROVE  NoBack'
    BY <1>1
  <2>1. NoBack
    BY DEF Alone
  <2>2. screen # "authed" \/ Of("logout") # {}
    <3>1. CASE job[s] \in Starting
      BY <3>1 DEF Alone, Saved, Company, StartsAlone, Opening, Starting
    <3>2. CASE job[s] \in {"back", "logout"}
      BY <2>1, <3>2 DEF NoBack, Of
    <3> QED
      BY <1>1, <3>1, <3>2
  <2>3. \A t \in Slots : job[t] \notin SigningIn \cup {"resume"}
    <3>1. CASE job[s] \in Starting
      BY <3>1 DEF Alone, Saved, Company, StartsAlone, Opening, Starting, SigningIn
    <3>2. CASE job[s] = "back"
      BY <2>1, <3>2 DEF Alone, Saved, Company, StartsAlone, Opening, NoBack, Of
    <3>3. CASE job[s] = "logout"
      BY <3>3 DEF Alone, Saved, Company, StartsAlone, LogoutApart, Opening, Of
    <3> QED
      BY <1>1, <3>1, <3>2, <3>3
  <2> QED
    BY <1>1, <2>1, <2>2, <2>3 DEF NoBack, Of
<1> QED
  BY <1>2, <1>3, <1>4, <1>5 DEF Alone, Saved

(* Who wipes is alone with tasks that have nothing to save.                  *)
LEMMA WipeSessionAlone ==
  ASSUME TypeOK, Base, Alone, NEW s \in Slots, WipeSession(s)
  PROVE  Alone'
<1>1. /\ job' = job /\ at' = [at EXCEPT ![s] = AfterWipe(s)]
      /\ built' = [t \in Slots |-> Unlinked(built[t])] /\ client' = Unlinked(client)
      /\ overlap' = overlap /\ screen' = screen
      /\ at[s] = "wipe" /\ job[s] \in Starting \cup {"logout"}
  BY JobOfPoint DEF WipeSession, TypeOK, window, Base
<1>2. client = NoClient /\ client' = NoClient
  <2>1. Clientless(s)
    BY <1>1 DEF Clientless, Opening
  <2>2. client = NoClient
    BY <2>1 DEF Alone, Saved, Progress
  <2>3. NoClient.pool = "none"
    BY DEF NoClient
  <2> QED
    BY <1>1, <2>2, <2>3 DEF Unlinked
<1>3. /\ \A t \in Slots : job[t] \notin SigningIn \cup {"resume"}
      /\ \A t \in Slots \ {s} : job[t] \notin Opening
      /\ job[s] \in Starting => screen # "authed"
      /\ job[s] = "logout" => job[s] \notin Opening
  <2>1. CASE job[s] \in Starting
    BY <2>1 DEF Alone, Saved, Company, StartsAlone, Opening, Starting, SigningIn
  <2>2. CASE job[s] = "logout"
    BY <2>2 DEF Alone, Saved, Company, StartsAlone, LogoutApart, Opening, Starting, Of
  <2> QED
    BY <1>1, <2>1, <2>2
<1>4. Company'
  BY <1>1, CompanyKept DEF Alone, Saved, WipeSession
<1>5. \A t \in Slots : at'[t] \notin Opened \cup {"save"}
  <2>1. \A t \in Slots \ {s} : at[t] \notin Opened \cup {"save"}
    BY <1>3, JobOfPoint DEF Base, Opened, Opening
  <2> QED
    BY <1>1, <2>1 DEF AfterWipe, Opened, TypeOK
<1>6. Progress'
  BY <1>1, <1>2, <1>3, <1>5 DEF Progress, Clientless, Opened
<1>7. ClientLinked'
  BY <1>2 DEF ClientLinked, NoClient
<1>8. AuthedSaved'
  BY <1>1, <1>3 DEF AuthedSaved, Of
<1>9. overlap' = "none" => NoBack'
  BY <1>1, <1>3 DEF Alone, NoBack, Of
<1> QED
  BY <1>4, <1>6, <1>7, <1>8, <1>9 DEF Alone, Saved

(* A task that opens a session does so alone, on the file in place.          *)
LEMMA OpeningAlone ==
  ASSUME TypeOK, Base, Alone, NEW s \in Slots, NEW point, NEW b, Moves({}, s, point, b),
         job[s] \in Opening, job[s] \in Starting => client = NoClient, UNCHANGED <<client, window, overlap>>,
         point \in {"insert", "load", "connect"}, b.pool = "linked",
         point = "connect" /\ b.token => TRUE \in tokens, TRUE \in tokens => TRUE \in tokens'
  PROVE  Alone'
<1>1. /\ job' = job /\ at' = [at EXCEPT ![s] = point] /\ built' = [built EXCEPT ![s] = b]
      /\ client' = client /\ screen' = screen /\ overlap' = overlap
  BY GoesDoes DEF window
<1>2. Company'
  BY <1>1, CompanyKept DEF Alone, Saved
<1>3. \A t \in Slots \ {s} : job[t] = "none" /\ at[t] = "none"
  BY JobOfPoint DEF Alone, Saved, Company, StartsAlone, Base
<1>4. Progress'
  BY <1>1, <1>3 DEF Progress, Clientless, Opened, Opening, Starting, SigningIn, TypeOK
<1>5. ClientLinked'
  BY <1>1, <1>3 DEF Alone, Saved, ClientLinked, NoClient, Starting
<1>6. screen # "authed"
  BY DEF Alone, Saved, Company, StartsAlone
<1>7. AuthedSaved'
  BY <1>1, <1>6 DEF AuthedSaved
<1>8. \A t \in Slots : job'[t] \notin SigningIn /\ at'[t] # "post"
  BY <1>1, <1>3 DEF Opening, Starting, SigningIn, TypeOK
<1>9. overlap' = "none" => NoBack'
  BY <1>1, <1>6, <1>8 DEF NoBack
<1> QED
  BY <1>2, <1>4, <1>5, <1>7, <1>9 DEF Alone, Saved

LEMMA OpenSessionAlone ==
  ASSUME TypeOK, Base, Alone, NEW s \in Slots, OpenSession(s)
  PROVE  Alone'
<1> DEFINE point == IF tokens = {} THEN "insert" ELSE "load"
           b == [pool |-> "linked", token |-> FALSE]
<1>1. /\ job[s] \in Opening /\ (job[s] \in Starting => client = NoClient) /\ Moves({}, s, point, b)
      /\ point \in {"insert", "load"} /\ b.pool = "linked" /\ tokens' = tokens
  BY JobOfPoint DEF OpenSession, Base, Opening, Alone, Saved, Progress, Clientless, file
<1> HIDE DEF point, b
<1> QED
  BY <1>1, OpeningAlone DEF OpenSession

LEMMA InsertDeviceAlone ==
  ASSUME TypeOK, Base, Alone, NEW s \in Slots, InsertDevice(s)
  PROVE  Alone'
<1>1. /\ job[s] \in Opening /\ (job[s] \in Starting => client = NoClient) /\ Moves({}, s, "load", built[s])
      /\ built[s].pool = "linked" /\ tokens' = tokens \cup {FALSE}
  BY JobOfPoint DEF InsertDevice, Goes, Base, Opening, Alone, Saved, Progress, Clientless, Opened
<1> QED
  BY <1>1, OpeningAlone DEF InsertDevice

LEMMA LoadAuthAlone ==
  ASSUME TypeOK, Base, Alone, NEW s \in Slots, LoadAuth(s)
  PROVE  Alone'
<1>1. /\ job[s] \in Opening /\ (job[s] \in Starting => client = NoClient)
      /\ built[s].pool = "linked"
  BY JobOfPoint DEF LoadAuth, Base, Opening, Alone, Saved, Progress, Clientless, Opened
<1>2. PICK t \in tokens : Moves({}, s, "connect", [pool |-> built[s].pool, token |-> t])
  BY <1>1 DEF LoadAuth
<1> DEFINE b == [pool |-> built[s].pool, token |-> t]
<1>3. Moves({}, s, "connect", b) /\ b.pool = "linked" /\ (b.token => TRUE \in tokens)
  BY <1>1, <1>2 DEF TypeOK
<1> HIDE DEF b
<1> QED
  BY <1>1, <1>3, OpeningAlone DEF LoadAuth, file

LEMMA StoreClientAlone ==
  ASSUME TypeOK, Base, Alone, NEW s \in Slots, StoreClient(s)
  PROVE  Alone'
<1> DEFINE point == IF job[s] = "resume" THEN "post" ELSE "flow"
<1>1. /\ job' = job /\ at' = [at EXCEPT ![s] = point] /\ built' = [built EXCEPT ![s] = NoClient]
      /\ client' = built[s] /\ tokens' = tokens /\ screen' = screen /\ overlap' = overlap
      /\ at[s] = "store" /\ job[s] \in Opening
  BY GoesDoes, JobOfPoint DEF StoreClient, TypeOK, file, window, Base, Opening
<1>2. /\ built[s].pool = "linked"
      /\ job[s] = "resume" => built[s].token /\ TRUE \in tokens
  BY <1>1 DEF Alone, Saved, Progress, Opened
<1>3. Company'
  BY <1>1, CompanyKept DEF Alone, Saved, StoreClient
<1>4. (\A t \in Slots \ {s} : job[t] = "none" /\ at[t] = "none") /\ screen # "authed"
  BY <1>1, JobOfPoint DEF Alone, Saved, Company, StartsAlone, Base
<1>5. Progress'
  BY <1>1, <1>2, <1>4 DEF Progress, Clientless, Opened, Opening, Starting, SigningIn, TypeOK
<1>6. ClientLinked' /\ AuthedSaved'
  BY <1>1, <1>2, <1>4 DEF ClientLinked, AuthedSaved
<1>7. HasToken' \/ job[s] # "resume"
  <2>1. NoClient.pool = "none"
    BY DEF NoClient
  <2> QED
    BY <1>1, <1>2, <2>1 DEF HasToken
<1>8. overlap' = "none" => NoBack'
  BY <1>1, <1>4, <1>7 DEF NoBack, Opening, Starting, SigningIn, Of, TypeOK
<1> QED
  BY <1>3, <1>5, <1>6, <1>8 DEF Alone, Saved

LEMMA GotTokenAlone ==
  ASSUME TypeOK, Base, Alone, NEW s \in Slots, GotToken(s)
  PROVE  Alone'
<1>1. /\ job' = job /\ at' = [at EXCEPT ![s] = "save"] /\ built' = built
      /\ client' = [pool |-> client.pool, token |-> TRUE]
      /\ tokens' = tokens /\ screen' = screen /\ overlap' = overlap
      /\ at[s] = "ask" /\ job[s] \in SigningIn /\ client # NoClient
  BY GoesDoes, JobOfPoint DEF GotToken, Goes, TypeOK, file, window, Base
<1>2. \A t \in Slots : job[t] \notin Opening
  BY <1>1 DEF Alone, Saved, Company, StartsAlone, Opening, Starting, SigningIn
<1>3. client.pool = "linked" /\ client'.pool = "linked" /\ client'.token
  <2>1. client.pool # "none"
    BY <1>1 DEF Base, ClientKnown
  <2>2. client.pool # "unlinked"
    BY <1>2 DEF Alone, Saved, ClientLinked, Opening
  <2> QED
    BY <1>1, <2>1, <2>2 DEF TypeOK, Client
<1>4. Company'
  BY <1>1, CompanyKept DEF Alone, Saved, GotToken
<1>5. \A t \in Slots : job[t] # "logout"
  BY <1>1 DEF Alone, Saved, Company, LogoutApart, Of
<1>6. Progress'
  BY <1>1, <1>2, <1>3, <1>5, JobOfPoint DEF Base, Alone, Saved, Progress, Clientless, Opened, Opening, SigningIn, TypeOK
<1>7. ClientLinked' /\ AuthedSaved'
  BY <1>1, <1>3 DEF Alone, Saved, ClientLinked, AuthedSaved, Of
<1>8. HasToken'
  BY <1>3 DEF HasToken, NoClient
<1>9. overlap' = "none" => NoBack'
  BY <1>1, <1>8 DEF Alone, NoBack, Of
<1> QED
  BY <1>4, <1>6, <1>7, <1>9 DEF Alone, Saved

LEMMA SaveTokenAlone ==
  ASSUME TypeOK, Base, Alone, NEW s \in Slots, SaveToken(s)
  PROVE  Alone'
<1>1. /\ job' = job /\ at' = [at EXCEPT ![s] = "sync"] /\ built' = built /\ client' = client
      /\ screen' = screen /\ overlap' = overlap /\ at[s] = "save" /\ tokens' = SaveAuth
  BY GoesDoes DEF SaveToken, Goes, TypeOK, window
<1>2. TRUE \in tokens'
  BY <1>1 DEF SaveAuth, Alone, Saved, Progress
<1>3. Company'
  BY <1>1, CompanyKept DEF Alone, Saved, SaveToken
<1>4. Progress'
  BY <1>1, <1>2 DEF Alone, Saved, Progress, Clientless, Opened, TypeOK
<1>5. ClientLinked' /\ AuthedSaved'
  <2>1. \A t \in Slots : at[t] \in {"cancel", "take"} => at'[t] = at[t]
    BY <1>1 DEF TypeOK
  <2>2. ClientLinked'
    BY <1>1, <2>1 DEF Alone, Saved, ClientLinked
  <2> QED
    BY <1>2, <2>2 DEF AuthedSaved
<1>6. overlap' = "none" => NoBack'
  BY <1>1 DEF Alone, NoBack, HasToken, Of
<1> QED
  BY <1>3, <1>4, <1>5, <1>6 DEF Alone, Saved

(* The polling task that follows a login by QR code signs in next.           *)
LEMMA QrStartedAlone ==
  ASSUME TypeOK, Base, Alone, NEW s \in Slots, QrStarted(s)
  PROVE  Alone'
<1>1. PICK p \in Slots \ Alive :
        /\ job' = [job EXCEPT ![s] = "poll", ![p] = "set_qr_task"]
        /\ at' = [at EXCEPT ![s] = "ask", ![p] = "handle"]
  BY DEF QrStarted
<1>2. /\ job[s] = "qr" /\ p # s /\ screen' = "qr"
      /\ built' = built /\ client' = client /\ tokens' = tokens /\ overlap' = overlap
  BY <1>1 DEF QrStarted, At, Alive, file
<1>3. \A t \in Slots \ {s} : job[t] = "none" /\ at[t] = "none"
  BY <1>2, JobOfPoint DEF Alone, Saved, Company, StartsAlone, Base, Opening, Starting
<1>4. /\ job'[s] = "poll" /\ at'[s] = "ask" /\ job'[p] = "set_qr_task" /\ at'[p] = "handle"
      /\ \A t \in Slots \ {s, p} : job'[t] = "none" /\ at'[t] = "none"
  BY <1>1, <1>2, <1>3 DEF TypeOK
<1>5. \A t \in Slots : /\ job'[t] \in {"poll", "set_qr_task", "none"} /\ at'[t] \in {"ask", "handle", "none"}
                       /\ (job'[t] = "poll" => t = s)
  BY <1>4
<1>6. Company'
  BY <1>2, <1>5 DEF Company, StartsAlone, OneSignsIn, LogoutApart, Opening, Starting, SigningIn, Of
<1>7. Progress'
  BY <1>5 DEF Progress, Clientless, Opened, Opening, Starting
<1>8. client.pool # "unlinked"
  BY <1>2, <1>3 DEF Alone, Saved, ClientLinked, QrStarted, At
<1>9. ClientLinked' /\ AuthedSaved'
  BY <1>2, <1>8 DEF ClientLinked, AuthedSaved
<1>10. overlap' = "none" => NoBack'
  BY <1>2, <1>5 DEF NoBack, Of
<1> QED
  BY <1>6, <1>7, <1>9, <1>10 DEF Alone, Saved

LEMMA StepAlone ==
  ASSUME TypeOK, Base, AloneInv, NEW s \in Slots, Step(s)
  PROVE  AloneInv'
<1> USE JobOfPoint
<1>1. overlap' = overlap
  BY DEF Step, CancelTask, TakeClient, ClearScratch, WipeSession, WipeFails, GoneBack, LoggedOut,
         OpenSession, InsertDevice, LoadAuth, Connects, NeedLogin, StartFails, StoreClient, StoreFlow,
         SmsStarted, QrStarted, QrRenderFails, SetQrTask, CloneScratch, SignInFails, GotToken,
         TwoFactorRequired, StoreTrack, AskTwoFactor, SaveToken, Synced, FinishLogin, ShowError
<1> SUFFICES ASSUME Alone PROVE Alone'
  BY <1>1 DEF AloneInv
<1>2. OnItsWay
  BY DEF Base
<1>3. CASE TakeClient(s) \/ WipeSession(s) \/ OpenSession(s) \/ InsertDevice(s) \/ LoadAuth(s)
           \/ StoreClient(s) \/ GotToken(s) \/ SaveToken(s) \/ QrStarted(s)
  BY <1>3, TakeClientAlone, WipeSessionAlone, OpenSessionAlone, InsertDeviceAlone, LoadAuthAlone,
     StoreClientAlone, GotTokenAlone, SaveTokenAlone, QrStartedAlone
<1>4. CASE CancelTask(s)
  <2>1. \A t \in Aborted : job[t] = "poll"
    BY DEF Aborted, Of
  <2>2. s \notin Aborted
    BY <1>2, <1>4, <2>1 DEF CancelTask, Starting
  <2> QED
    BY <1>4, <2>1, <2>2, MovesJobs, QuietAlone DEF CancelTask
<1>5. CASE SetQrTask(s)
  <2>1. \A t \in Aborted : job[t] = "poll"
    BY DEF Aborted, Of
  <2>2. job[s] = "set_qr_task"
    BY <1>2, <1>5 DEF SetQrTask
  <2> QED
    BY <1>5, <2>1, <2>2, MovesJobs, QuietAlone DEF SetQrTask
<1>6. ASSUME NEW point, Goes(s, point), UNCHANGED <<file, client, window, overlap>>,
             \/ point \in {"track", "post2fa", "error", "ask"} /\ at[s] \notin {"cancel", "take"}
             \/ at[s] = "clear" /\ point = IF job[s] = "back" THEN "post" ELSE "wipe"
             \/ at[s] = "wipe" /\ point = AfterWipe(s)
             \/ at[s] = "connect" /\ point = "store" /\ (job[s] = "resume" => built[s].token)
             \/ at[s] = "flow" /\ point = "post"
             \/ at[s] = "sync" /\ point = "post"
      PROVE  Alone'
  <2>1. \A t \in Slots : /\ job'[t] = job[t] /\ built'[t] = built[t]
                         /\ at'[t] = IF t = s THEN point ELSE at[t]
    BY <1>6, MovesJobs DEF Goes
  <2> QED
    BY <1>6, <2>1, QuietAlone
<1>7. CASE ClearScratch(s) \/ WipeFails(s) \/ Connects(s) \/ StoreFlow(s) \/ Synced(s)
  BY <1>6, <1>7 DEF ClearScratch, WipeFails, Connects, StoreFlow, Synced
<1>8. CASE QrRenderFails(s) \/ TwoFactorRequired(s) \/ StoreTrack(s)
  BY <1>6, <1>8 DEF QrRenderFails, TwoFactorRequired, StoreTrack, At
<1>9. CASE CloneScratch(s)
  <2>1. PICK point \in {"ask", "error"} : Goes(s, point)
    BY <1>9 DEF CloneScratch
  <2> QED
    BY <1>6, <1>9, <2>1 DEF CloneScratch
<1>10. CASE StartFails(s)
  <2>1. \A t \in Slots : /\ job'[t] = job[t] /\ (t # s => built'[t] = built[t])
                         /\ at'[t] = IF t = s THEN "error" ELSE at[t]
    BY <1>10, MovesJobs DEF StartFails
  <2> QED
    BY <1>10, <2>1, QuietAlone DEF StartFails, Building
<1>11. CASE SignInFails(s)
  <2>1. CASE job[s] = "poll"
    <3>1. \A t \in Slots : /\ job'[t] = (IF t = s THEN "none" ELSE job[t])
                           /\ at'[t] = (IF t = s THEN "none" ELSE at[t])
                           /\ (t # s => built'[t] = built[t])
      BY <1>11, <2>1, MovesJobs DEF SignInFails, Ends
    <3> QED
      BY <1>11, <2>1, <3>1, QuietAlone DEF SignInFails
  <2>2. CASE job[s] # "poll"
    BY <1>6, <1>11, <2>2 DEF SignInFails
  <2> QED
    BY <2>1, <2>2
<1>12. CASE GoneBack(s) \/ LoggedOut(s) \/ NeedLogin(s)
  <2>1. /\ Ends(s) /\ job[s] # "none" /\ UNCHANGED <<file, client, overlap>> /\ screen' = "choose"
        /\ at[s] \notin {"cancel", "take"} /\ (busy' = busy \/ job[s] # "logout")
    BY <1>12 DEF GoneBack, LoggedOut, NeedLogin, At, Building
  <2> QED
    BY <1>12, <2>1, PostAlone DEF Screens, LoggedOut, GoneBack, NeedLogin, At
<1>13. CASE SmsStarted(s) \/ AskTwoFactor(s)
  <2>1. /\ Ends(s) /\ job[s] \in SigningIn \cup Opening /\ job[s] \notin {"none", "logout"}
        /\ UNCHANGED <<file, client, overlap>> /\ screen' \in {"2fa", "code"}
        /\ at[s] \notin {"cancel", "take"}
    BY <1>2, <1>13 DEF SmsStarted, AskTwoFactor, At, Opening, Starting, SigningIn
  <2> QED
    BY <2>1, PostAlone DEF Screens
<1>14. CASE FinishLogin(s)
  <2>1. job[s] \notin {"none", "logout"} /\ at[s] = "post" /\ screen' = "authed"
    BY <1>14 DEF FinishLogin, At, SigningIn
  <2> QED
    BY <1>14, <2>1, PostAlone DEF FinishLogin, At, Screens
<1>15. CASE ShowError(s)
  <2>1. job[s] \in {"submit_code", "submit_2fa"} \cup Starting /\ job[s] \notin {"none", "logout"}
    BY <1>2, <1>15 DEF ShowError, Starting
  <2> QED
    BY <1>15, <2>1, PostAlone DEF ShowError, TypeOK
<1> QED
  BY <1>3, <1>4, <1>5, <1>7, <1>8, <1>9, <1>10, <1>11, <1>12, <1>13, <1>14, <1>15 DEF Step

(* A button spawns a task that has opened and saved nothing.                 *)
LEMMA BeginsDoes ==
  ASSUME TypeOK, OnItsWay, NEW j, NEW point, Begins(j, point)
  PROVE  \E s \in Slots : /\ job[s] = "none" /\ at[s] = "none" /\ job'[s] = j /\ at'[s] = point
                          /\ \A t \in Slots \ {s} : job'[t] = job[t] /\ at'[t] = at[t]
                          /\ built' = built
BY JobOfPoint DEF Begins, Alive, TypeOK

LEMMA BeginsProgress ==
  ASSUME TypeOK, OnItsWay, Saved, NEW j \in Jobs, NEW point \in {"cancel", "clone"}, Begins(j, point),
         UNCHANGED <<file, client>>
  PROVE  Progress' /\ ClientLinked'
<1>1. PICK s \in Slots : /\ at[s] = "none" /\ job'[s] = j /\ at'[s] = point
                         /\ \A t \in Slots \ {s} : job'[t] = job[t] /\ at'[t] = at[t]
                         /\ built' = built
  BY BeginsDoes
<1>2. Progress'
  BY <1>1 DEF Saved, Progress, Clientless, Opened, file
<1>3. ClientLinked'
  BY <1>1 DEF Saved, ClientLinked
<1> QED
  BY <1>2, <1>3

LEMMA StartsBegin ==
  ASSUME TypeOK, Base, AloneInv, NEW j \in Starting, NEW n, Starts(j, n), screen \in {"choose", "phone"}
  PROVE  AloneInv'
<1> SUFFICES ASSUME Alive = {} PROVE Alone'
  BY DEF AloneInv, Starts
<1>1. PICK s \in Slots : /\ job'[s] = j /\ at'[s] = "cancel"
                         /\ \A t \in Slots \ {s} : job'[t] = job[t] /\ at'[t] = at[t]
  BY BeginsDoes DEF Starts, Base
<1>2. \A t \in Slots \ {s} : job'[t] = "none" /\ at'[t] = "none"
  BY <1>1, JobOfPoint DEF Alive, Base
<1>3. screen' \in {"choose", "phone"} /\ busy'
  BY DEF Starts
<1>4. Company'
  BY <1>1, <1>2, <1>3 DEF Company, StartsAlone, OneSignsIn, LogoutApart, Opening, Starting, SigningIn, Of
<1>5. Progress'
  BY <1>1, <1>2 DEF Progress, Clientless, Opened, Starting, SigningIn
<1>6. ClientLinked' /\ AuthedSaved'
  BY <1>1, <1>3 DEF ClientLinked, AuthedSaved
<1>7. NoBack'
  BY <1>1, <1>2, <1>3 DEF NoBack, Starting, SigningIn
<1> QED
  BY <1>4, <1>5, <1>6, <1>7 DEF Alone, Saved

LEMMA SubmitsBegin ==
  ASSUME TypeOK, Base, AloneInv, NEW j \in {"submit_code", "submit_2fa"}, Submits(j),
         screen \in {"code", "2fa"}
  PROVE  AloneInv'
<1> SUFFICES ASSUME Alone PROVE Alone'
  BY DEF AloneInv, Submits, Races
<1>1. PICK s \in Slots : /\ job[s] = "none" /\ job'[s] = j /\ at'[s] = "clone"
                         /\ \A t \in Slots \ {s} : job'[t] = job[t] /\ at'[t] = at[t]
  BY BeginsDoes DEF Submits, Base
<1>2. screen' = screen /\ ~busy /\ busy' /\ client' = client /\ tokens' = tokens /\ j \in SigningIn
  BY DEF Submits, file, SigningIn
<1>3. \A t \in Slots : job[t] \notin SigningIn \cup Opening \cup {"logout"}
  BY <1>2 DEF Alone, Saved, Company, StartsAlone, OneSignsIn, LogoutApart, Of
<1>4. \A t \in Slots \ {s} : job'[t] \notin SigningIn \cup Opening \cup {"logout"}
  BY <1>1, <1>3
<1>5. Company'
  BY <1>1, <1>2, <1>4 DEF Company, StartsAlone, OneSignsIn, LogoutApart, Opening, Starting, SigningIn, Of
<1>6. Progress' /\ ClientLinked'
  BY BeginsProgress DEF Submits, Base, Alone, Jobs, SigningIn
<1>7. AuthedSaved'
  BY <1>2 DEF AuthedSaved
<1>8. overlap' = "none" => NoBack'
  BY <1>1, <1>2, <1>4 DEF NoBack, Submits, Races, Of, Opening
<1> QED
  BY <1>5, <1>6, <1>7, <1>8 DEF Alone, Saved

LEMMA BackBegins ==
  ASSUME TypeOK, Base, AloneInv, Back
  PROVE  AloneInv'
<1> SUFFICES ASSUME Alone PROVE Alone'
  BY DEF AloneInv, Back, Races
<1>1. PICK s \in Slots : /\ job[s] = "none" /\ job'[s] = "back" /\ at'[s] = "cancel"
                         /\ \A t \in Slots \ {s} : job'[t] = job[t] /\ at'[t] = at[t]
  BY BeginsDoes DEF Back, Base
<1>2. /\ screen' = screen /\ busy' = busy /\ ~busy /\ client' = client /\ tokens' = tokens
      /\ screen \in {"phone", "code", "2fa", "qr"}
  BY DEF Back, file, window
<1>3. \A t \in Slots : job[t] \notin Opening
  BY <1>2 DEF Alone, Saved, Company, StartsAlone
<1>4. StartsAlone'
  BY <1>1, <1>3 DEF StartsAlone, Opening, Starting
<1>5. OneSignsIn'
  BY <1>1, <1>2 DEF Alone, Saved, Company, OneSignsIn, SigningIn
<1>6. LogoutApart'
  BY <1>1, <1>2 DEF Alone, Saved, Company, LogoutApart, SigningIn, Of
<1>7. Progress' /\ ClientLinked'
  BY BeginsProgress DEF Back, Base, Alone, Jobs
<1>8. AuthedSaved'
  BY <1>2 DEF AuthedSaved
<1>9. overlap' = "none" => NoBack'
  <2> SUFFICES ASSUME overlap' = "none" PROVE NoBack'
    OBVIOUS
  <2>1. \A t \in Slots : job[t] \notin SigningIn \cup {"resume"}
    BY <1>3 DEF Back, Races, Opening
  <2>2. \A t \in Slots : job'[t] \notin SigningIn \cup {"resume"}
    BY <1>1, <2>1 DEF SigningIn
  <2> QED
    BY <1>2, <2>2 DEF NoBack
<1> QED
  BY <1>4, <1>5, <1>6, <1>7, <1>8, <1>9 DEF Alone, Saved, Company

LEMMA LogoutBegins ==
  ASSUME TypeOK, Base, AloneInv, Logout
  PROVE  AloneInv'
<1> SUFFICES ASSUME Alone PROVE Alone'
  BY DEF AloneInv, Logout
<1>1. PICK s \in Slots : /\ job[s] = "none" /\ job'[s] = "logout" /\ at'[s] = "cancel"
                         /\ \A t \in Slots \ {s} : job'[t] = job[t] /\ at'[t] = at[t]
  BY BeginsDoes DEF Logout, Base
<1>2. /\ screen' = screen /\ screen = "authed" /\ client' = client /\ tokens' = tokens
      /\ overlap' = overlap
  BY DEF Logout, file, window
<1>3. \A t \in Slots : job[t] \notin SigningIn \cup Opening
  BY <1>2 DEF Alone, Saved, Company, StartsAlone, OneSignsIn
<1>4. \A t \in Slots : job'[t] \notin SigningIn \cup Opening
  BY <1>1, <1>3 DEF SigningIn, Opening, Starting
<1>5. Company'
  BY <1>2, <1>4 DEF Company, StartsAlone, OneSignsIn, LogoutApart
<1>6. Progress' /\ ClientLinked'
  BY BeginsProgress DEF Logout, Base, Alone, Jobs
<1>7. s \in Of("logout")'
  BY <1>1 DEF Of
<1>8. AuthedSaved'
  BY <1>7 DEF AuthedSaved
<1>9. overlap' = "none" => NoBack'
  BY <1>1, <1>2, <1>4, <1>7 DEF Alone, NoBack, Of, Opening
<1> QED
  BY <1>5, <1>6, <1>8, <1>9 DEF Alone, Saved

LEMMA PressAlone ==
  ASSUME TypeOK, Base, AloneInv, Press
  PROVE  AloneInv'
<1>1. CASE ChoosePhone
  <2> SUFFICES ASSUME Alone PROVE Alone'
    BY <1>1 DEF AloneInv, ChoosePhone
  <2>1. /\ screen = "choose" /\ screen' = "phone" /\ job' = job /\ at' = at /\ built' = built
        /\ client' = client /\ tokens' = tokens /\ overlap' = overlap /\ busy' = busy
    BY <1>1 DEF ChoosePhone, tasks, file
  <2>2. Company'
    BY <2>1 DEF Alone, Saved, Company, StartsAlone, OneSignsIn, LogoutApart, Of
  <2>3. Progress' /\ ClientLinked' /\ AuthedSaved'
    BY <2>1 DEF Alone, Saved, Progress, Clientless, ClientLinked, AuthedSaved
  <2>4. overlap' = "none" => NoBack'
    BY <2>1 DEF Alone, NoBack, HasToken, Of
  <2> QED
    BY <2>2, <2>3, <2>4 DEF Alone, Saved
<1>2. CASE ChooseQr \/ SubmitPhone
  BY <1>2, StartsBegin DEF ChooseQr, SubmitPhone, Starting
<1>3. CASE SubmitCode \/ Submit2fa
  BY <1>3, SubmitsBegin DEF SubmitCode, Submit2fa
<1> QED
  BY <1>1, <1>2, <1>3, BackBegins, LogoutBegins DEF Press

(* A launch leaves no task and no client.                                    *)
LEMMA InitAlone == Init => AloneInv
<1> SUFFICES ASSUME Init PROVE Alone
  BY DEF AloneInv
<1>1. Company
  BY DEF Init, Company, StartsAlone, OneSignsIn, LogoutApart, Opening, Starting, SigningIn, Of
<1>2. Progress
  BY DEF Init, Progress, Clientless, Opened, Starting, SigningIn
<1>3. ClientLinked /\ AuthedSaved /\ NoBack
  BY DEF Init, ClientLinked, AuthedSaved, NoClient, NoBack, SigningIn
<1> QED
  BY <1>1, <1>2, <1>3 DEF Alone, Saved

LEMMA RelaunchAlone == Relaunch => AloneInv'
<1> SUFFICES ASSUME Relaunch PROVE Alone'
  BY DEF AloneInv
<1>1. Company'
  BY DEF Relaunch, Company, StartsAlone, OneSignsIn, LogoutApart, Opening, Starting, SigningIn, Of
<1>2. Progress'
  BY DEF Relaunch, Progress, Clientless, Opened, Starting, SigningIn
<1>3. ClientLinked' /\ AuthedSaved' /\ NoBack'
  BY DEF Relaunch, ClientLinked, AuthedSaved, NoClient, NoBack, SigningIn
<1> QED
  BY <1>1, <1>2, <1>3 DEF Alone, Saved

LEMMA SpawnResumeAlone ==
  ASSUME TypeOK, Base, AloneInv, SpawnResume
  PROVE  AloneInv'
<1> SUFFICES ASSUME Alone PROVE Alone'
  BY DEF AloneInv, SpawnResume
<1>1. PICK s \in Slots : /\ job'[s] = "resume" /\ at'[s] = "open"
                         /\ \A t \in Slots \ {s} : job'[t] = job[t] /\ at'[t] = at[t]
  BY BeginsDoes DEF SpawnResume, Base
<1>2. \A t \in Slots \ {s} : job'[t] = "none" /\ at'[t] = "none"
  BY <1>1, JobOfPoint DEF SpawnResume, Alive, Base
<1>3. client' = client /\ screen' = "bootstrap" /\ \A t \in Slots : job[t] = "none"
  BY DEF SpawnResume, window, Alive
<1>4. Company'
  BY <1>1, <1>2, <1>3 DEF Company, StartsAlone, OneSignsIn, LogoutApart, Opening, Starting, SigningIn, Of
<1>5. Progress'
  BY <1>1, <1>2 DEF Progress, Clientless, Opened, Starting, SigningIn
<1>6. ClientLinked' /\ AuthedSaved'
  BY <1>3 DEF Alone, Saved, ClientLinked, AuthedSaved, Starting
<1>7. NoBack'
  BY <1>1, <1>2, <1>3 DEF NoBack, SigningIn
<1> QED
  BY <1>4, <1>5, <1>6, <1>7 DEF Alone, Saved

LEMMA NextAlone == TypeOK /\ Base /\ AloneInv /\ [Next]_vars => AloneInv'
<1> SUFFICES ASSUME TypeOK, Base, AloneInv, [Next]_vars PROVE AloneInv'
  OBVIOUS
<1>1. CASE UNCHANGED vars
  BY <1>1 DEF vars, tasks, window, file, AloneInv, Alone, Saved, Company, StartsAlone, OneSignsIn, LogoutApart,
              Progress, Clientless, ClientLinked, AuthedSaved, NoBack, HasToken, Of
<1> QED
  BY <1>1, RelaunchAlone, SpawnResumeAlone, PressAlone, StepAlone DEF Next

LEMMA AlwaysAlone == Spec => []AloneInv
<1>1. TypeOK /\ Base /\ AloneInv /\ [Next]_vars => AloneInv'
  BY NextAlone
<1> QED
  BY <1>1, InitAlone, AlwaysBase, PTL DEF Spec

(* No order of steps signs in with a token in memory only, unless the login  *)
(* began while another task was alive: also not when a poll that Back has    *)
(* come too late to abort says signed in after it (auth.rs 68-93, 113-160,   *)
(* 188-245, main.rs 170-204, 246-305).                                       *)
THEOREM AuthedAlwaysPersisted == Spec => []AuthedIsPersisted
<1>1. AloneInv => AuthedIsPersisted
  BY DEF AloneInv, Alone, Saved, AuthedSaved, AuthedIsPersisted
<1> QED
  BY <1>1, AlwaysAlone, PTL

(* A login that no Back met and no start overlapped ends with a client that  *)
(* has a token (auth.rs 33-44, 84, 108, 122-133, 148-159, 175, 188-224).     *)
THEOREM AuthedKeepsClient == Spec => []AuthedHasClient
<1>1. AloneInv => AuthedHasClient
  BY DEF AloneInv, Alone, NoBack, HasToken, AuthedHasClient
<1> QED
  BY <1>1, AlwaysAlone, PTL
=============================================================================
