------------------------------ MODULE DesktopAuth ------------------------------
(***************************************************************************)
(* Signing in with the desktop app: the AuthController (auth.rs), the tasks  *)
(* that the buttons of its window spawn on the multi-thread runtime          *)
(* (main.rs), the MaxClient each login builds (client.rs, protocol/auth.rs)  *)
(* and the session.db it is opened on (storage/sqlite.rs).                   *)
(*                                                                           *)
(* A task takes one step from one await to the next, and a further one after *)
(* its last await, to post to the window.  An abort takes effect at an       *)
(* await: a task with only its post left still posts.  The client mutex is   *)
(* held by a task that has obtained a token, until it has saved it and       *)
(* synced; a call that takes the mutex for one request only is one step that *)
(* waits for the mutex.  Posts are applied in the order they are posted.     *)
(***************************************************************************)
EXTENDS Naturals, FiniteSets

CONSTANTS Slots,    \* bound: the tasks that may be alive at once
          NoTask    \* no task

ASSUME SlotsAssumption == IsFiniteSet(Slots) /\ NoTask \notin Slots

VARIABLES tokens,      \* session.db: the rows' tokens, TRUE for one and FALSE for none
          several,     \* session.db: whether it has more than one row
          client,      \* AuthController.client
          temp_token,  \* FlowState.temp_token: whether there is one
          two_fa,      \* FlowState.two_fa_track_id: whether there is one
          qr_task,     \* FlowState.qr_task
          job,         \* what the task of each slot does
          at,          \* the next step of each task
          built,       \* the client that each task builds
          handle,      \* the task whose handle each task carries
          screen,      \* window: screen
          busy,        \* window: busy
          overlap      \* history: what the login in hand overlapped

file   == <<tokens, several>>
flow   == <<temp_token, two_fa, qr_task>>
tasks  == <<job, at, built, handle>>
window == <<screen, busy>>
vars   == <<file, client, flow, tasks, window, overlap>>

Screens == {"bootstrap", "choose", "phone", "code", "2fa", "qr", "authed"}
Points  == {"cancel", "take", "clear", "wipe", "open", "insert", "load", "connect", "store",
            "flow", "handle", "clone", "ask", "save", "sync", "track", "post", "post2fa", "error"}

Starting  == {"sms", "qr"}
SigningIn == {"submit_code", "submit_2fa", "poll"}
Jobs      == {"resume", "back", "logout", "set_qr_task"} \cup Starting \cup SigningIn

(* A MaxClient: whether its pool is open on the session.db that the work     *)
(* directory names, or on one that was unlinked, and whether it has a token. *)
Client   == [pool : {"none", "linked", "unlinked"}, token : BOOLEAN]
NoClient == [pool |-> "none", token |-> FALSE]

Alive   == {s \in Slots : job[s] # "none"}
Of(j)   == {s \in Slots : job[s] = j}
Holders == {s \in Slots : at[s] \in {"save", "sync"}}
Held    == Holders # {}

(* The client mutex has one holder, and a client of the session.db has its   *)
(* device in it.                                                             *)
TypeOK == /\ tokens \subseteq BOOLEAN /\ several \in BOOLEAN
          /\ client \in Client
          /\ temp_token \in BOOLEAN /\ two_fa \in BOOLEAN /\ qr_task \in Slots \cup {NoTask}
          /\ job \in [Slots -> Jobs \cup {"none"}] /\ at \in [Slots -> Points \cup {"none"}]
          /\ built \in [Slots -> Client] /\ handle \in [Slots -> Slots \cup {NoTask}]
          /\ screen \in Screens /\ busy \in BOOLEAN
          /\ overlap \in {"none", "back", "start"}
          /\ \A s, t \in Holders : s = t
          /\ client.pool = "linked" => tokens # {}
-----------------------------------------------------------------------------
(* Tasks *)

(* The tasks of D are over, handles of them do nothing, and task s goes on   *)
(* to a point, with the client it builds.                                    *)
Moves(D, s, point, b) ==
  /\ job'    = [t \in Slots |-> IF t \in D THEN "none" ELSE job[t]]
  /\ at'     = [t \in Slots |-> IF t \in D THEN "none" ELSE IF t = s THEN point ELSE at[t]]
  /\ built'  = [t \in Slots |-> IF t \in D THEN NoClient ELSE IF t = s THEN b ELSE built[t]]
  /\ handle' = [t \in Slots |-> IF t \in D \/ handle[t] \in D THEN NoTask ELSE handle[t]]

Goes(s, point) == Moves({}, s, point, built[s])
Ends(s) == Moves({s}, s, "none", NoClient) /\ qr_task' = (IF qr_task = s THEN NoTask ELSE qr_task)

(* What the abort of the task in qr_task ends: a poll that has more than its *)
(* post to do.                                                               *)
Aborted == {p \in Of("poll") : p = qr_task /\ at[p] # "post"}

Begins(j, point) == \E s \in Slots \ Alive :
                      /\ job' = [job EXCEPT ![s] = j] /\ at' = [at EXCEPT ![s] = point]
                      /\ UNCHANGED <<built, handle>>

At(s, jobs, point) == job[s] \in jobs /\ at[s] = point

Init == /\ tokens \in {{}, {FALSE}, {TRUE}} /\ several = FALSE
        /\ client = NoClient /\ temp_token = FALSE /\ two_fa = FALSE /\ qr_task = NoTask
        /\ job = [s \in Slots |-> "none"] /\ at = [s \in Slots |-> "none"]
        /\ built = [s \in Slots |-> NoClient] /\ handle = [s \in Slots |-> NoTask]
        /\ screen = "bootstrap" /\ busy = FALSE /\ overlap = "none"

(* The process is killed at any point and launched again: only the file stays. *)
Relaunch == /\ client' = NoClient /\ temp_token' = FALSE /\ two_fa' = FALSE /\ qr_task' = NoTask
            /\ job' = [s \in Slots |-> "none"] /\ at' = [s \in Slots |-> "none"]
            /\ built' = [s \in Slots |-> NoClient] /\ handle' = [s \in Slots |-> NoTask]
            /\ screen' = "bootstrap" /\ busy' = FALSE /\ overlap' = "none"
            /\ UNCHANGED file

(* A process launched resumes the session of the file, with no other task.   *)
SpawnResume == /\ screen = "bootstrap" /\ Alive = {} /\ Begins("resume", "open")
               /\ UNCHANGED <<file, client, flow, window, overlap>>
-----------------------------------------------------------------------------
(* The window: what its buttons let the user press *)

Room(n) == Cardinality(Alive) + n <= Cardinality(Slots)

ChoosePhone == /\ screen = "choose" /\ screen' = "phone"
               /\ UNCHANGED <<file, client, flow, tasks, busy, overlap>>

(* A login begins; one that begins with no other task alive overlaps none.   *)
Starts(j, n) == /\ Room(n) /\ Begins(j, "cancel") /\ busy' = TRUE
                /\ overlap' = (IF Alive = {} THEN "none" ELSE "start")
                /\ UNCHANGED <<file, client, flow, screen>>

ChooseQr    == screen = "choose" /\ Starts("qr", 2)
SubmitPhone == screen = "phone" /\ ~busy /\ Starts("sms", 1)

(* A Back and a sign-in are alive together.                                  *)
Races == overlap' = (IF overlap = "none" THEN "back" ELSE overlap)

Submits(j) == /\ ~busy /\ Room(1) /\ Begins(j, "clone") /\ busy' = TRUE
              /\ IF Of("back") = {} THEN UNCHANGED overlap ELSE Races
              /\ UNCHANGED <<file, client, flow, screen>>

SubmitCode == screen = "code" /\ Submits("submit_code")
Submit2fa  == screen = "2fa" /\ Submits("submit_2fa")

Back == /\ screen \in {"phone", "code", "2fa", "qr"} /\ ~busy /\ Room(1) /\ Begins("back", "cancel")
        /\ IF \A s \in Slots : job[s] \notin SigningIn THEN UNCHANGED overlap ELSE Races
        /\ UNCHANGED <<file, client, flow, window>>

Logout == /\ screen = "authed" /\ Room(1) /\ Begins("logout", "cancel")
          /\ UNCHANGED <<file, client, flow, window, overlap>>
-----------------------------------------------------------------------------
(* cancel_flow, logout and wipe_session *)

(* The polling task whose handle is stored is aborted.                       *)
CancelTask(s) == /\ at[s] = "cancel" /\ Moves(Aborted, s, "take", built[s]) /\ qr_task' = NoTask
                 /\ UNCHANGED <<file, client, temp_token, two_fa, window, overlap>>

(* The client is taken, and closed under the mutex.                          *)
TakeClient(s) == /\ at[s] = "take" /\ ~Held /\ client' = NoClient /\ Goes(s, "clear")
                 /\ UNCHANGED <<file, flow, window, overlap>>

ClearScratch(s) == /\ at[s] = "clear" /\ temp_token' = FALSE /\ two_fa' = FALSE
                   /\ Goes(s, IF job[s] = "back" THEN "post" ELSE "wipe")
                   /\ UNCHANGED <<file, client, qr_task, window, overlap>>

AfterWipe(s) == IF job[s] = "logout" THEN "post" ELSE "open"

(* session.db is unlinked: pools open on it keep the old file.               *)
Unlinked(c) == IF c.pool = "linked"
               THEN [pool |-> "unlinked", token |-> c.token] ELSE c

WipeSession(s) == /\ at[s] = "wipe" /\ tokens' = {} /\ several' = FALSE /\ client' = Unlinked(client)
                  /\ at' = [at EXCEPT ![s] = AfterWipe(s)]
                  /\ built' = [t \in Slots |-> Unlinked(built[t])]
                  /\ UNCHANGED <<flow, job, handle, window, overlap>>

(* A file that cannot be removed is left, with a warning.                    *)
WipeFails(s) == /\ at[s] = "wipe" /\ Goes(s, AfterWipe(s))
                /\ UNCHANGED <<file, client, flow, window, overlap>>

GoneBack(s) == /\ At(s, {"back"}, "post") /\ Ends(s) /\ screen' = "choose" /\ busy' = FALSE
               /\ UNCHANGED <<file, client, temp_token, two_fa, overlap>>

LoggedOut(s) == /\ At(s, {"logout"}, "post") /\ Ends(s) /\ screen' = "choose"
                /\ UNCHANGED <<file, client, temp_token, two_fa, busy, overlap>>
-----------------------------------------------------------------------------
(* MaxClient::new and connect: the tasks resume, sms and qr *)

(* The device is that of a row; an empty table is read in one step and given *)
(* a row in another.                                                         *)
OpenSession(s) ==
  /\ at[s] = "open"
  /\ Moves({}, s, IF tokens = {} THEN "insert" ELSE "load", [pool |-> "linked", token |-> FALSE])
  /\ UNCHANGED <<file, client, flow, window, overlap>>

InsertDevice(s) == /\ at[s] = "insert" /\ Goes(s, "load")
                   /\ IF built[s].pool = "linked"
                      THEN tokens' = tokens \cup {FALSE} /\ several' = (several \/ tokens # {})
                      ELSE UNCHANGED file
                   /\ UNCHANGED <<client, flow, window, overlap>>

(* The token is that of a row: which, of several, is SQLite's choice.  What  *)
(* an unlinked file holds may be anything.                                   *)
LoadAuth(s) ==
  /\ at[s] = "load"
  /\ \E t \in (IF built[s].pool = "linked" THEN tokens ELSE BOOLEAN) :
       Moves({}, s, "connect", [pool |-> built[s].pool, token |-> t])
  /\ UNCHANGED <<file, client, flow, window, overlap>>

(* Mutant of Connects: the session is resumed without a look at its token. *)
ConnectsWithoutToken(s) == /\ at[s] = "connect" /\ Goes(s, "store")
                           /\ UNCHANGED <<file, client, flow, window, overlap>>

(* connect, with its sync when there is a token, and request_code or request_qr. *)
Connects(s) == /\ at[s] = "connect" /\ (job[s] = "resume" => built[s].token) /\ Goes(s, "store")
               /\ UNCHANGED <<file, client, flow, window, overlap>>

Building == {"open", "insert", "load", "connect"}

(* try_resume gives up: no token, a failure, or a session without a profile. *)
NeedLogin(s) == /\ job[s] = "resume" /\ at[s] \in Building /\ Ends(s) /\ screen' = "choose"
                /\ UNCHANGED <<file, client, temp_token, two_fa, busy, overlap>>

(* Storage, handshake or request fails: the client is dropped.               *)
StartFails(s) == /\ job[s] \in Starting /\ at[s] \in Building /\ Moves({}, s, "error", NoClient)
                 /\ UNCHANGED <<file, client, flow, window, overlap>>

StoreClient(s) == /\ at[s] = "store" /\ ~Held /\ client' = built[s]
                  /\ Moves({}, s, IF job[s] = "resume" THEN "post" ELSE "flow", NoClient)
                  /\ UNCHANGED <<file, flow, window, overlap>>

StoreFlow(s) == /\ at[s] = "flow" /\ Goes(s, "post")
                /\ temp_token' = (temp_token \/ job[s] = "sms")
                /\ UNCHANGED <<file, client, two_fa, qr_task, window, overlap>>

SmsStarted(s) == /\ At(s, {"sms"}, "post") /\ Ends(s) /\ screen' = "code" /\ busy' = FALSE
                 /\ UNCHANGED <<file, client, temp_token, two_fa, overlap>>

(* The code is shown; start_qr_polling spawns the polling task and a task    *)
(* that stores its handle.                                                   *)
QrStarted(s) == /\ At(s, {"qr"}, "post")
                /\ \E p \in Slots \ Alive :
                     /\ job' = [job EXCEPT ![s] = "poll", ![p] = "set_qr_task"]
                     /\ at' = [at EXCEPT ![s] = "ask", ![p] = "handle"]
                     /\ handle' = [handle EXCEPT ![p] = s]
                /\ screen' = "qr" /\ busy' = FALSE
                /\ UNCHANGED <<file, client, flow, built, overlap>>

(* The code cannot be drawn: an error is shown and nothing polls.            *)
QrRenderFails(s) == /\ At(s, {"qr"}, "post") /\ Goes(s, "error")
                    /\ UNCHANGED <<file, client, flow, window, overlap>>

(* Mutant of SetQrTask: the task it replaces is not aborted. *)
SetQrTaskKeepsPrevious(s) ==
  /\ at[s] = "handle" /\ Moves({s}, s, "none", NoClient) /\ qr_task' = handle[s]
  /\ UNCHANGED <<file, client, temp_token, two_fa, window, overlap>>

SetQrTask(s) ==
  /\ at[s] = "handle" /\ Moves({s} \cup Aborted, s, "none", NoClient) /\ qr_task' = handle[s]
  /\ UNCHANGED <<file, client, temp_token, two_fa, window, overlap>>
-----------------------------------------------------------------------------
(* Obtaining a token: the tasks submit_code, submit_2fa and poll *)

(* The scratch of the flow is cloned before the client is waited for.        *)
CloneScratch(s) ==
  /\ at[s] = "clone"
  /\ Goes(s, IF (IF job[s] = "submit_code" THEN temp_token ELSE two_fa) THEN "ask" ELSE "error")
  /\ UNCHANGED <<file, client, flow, window, overlap>>

(* There is no client, the server refuses, the code expired, or a call       *)
(* fails; what a poll has to say of it leaves the window as it is.           *)
SignInFails(s) == /\ at[s] \in {"ask", "save", "sync"}
                  /\ IF job[s] = "poll" THEN Ends(s) ELSE Goes(s, "error") /\ UNCHANGED qr_task
                  /\ UNCHANGED <<file, client, temp_token, two_fa, window, overlap>>

(* Mutant of GotToken: the client mutex is not held. *)
GotTokenUnlocked(s) ==
  /\ at[s] = "ask" /\ client # NoClient
  /\ client' = [pool |-> client.pool, token |-> TRUE] /\ Goes(s, "save")
  /\ UNCHANGED <<file, flow, window, overlap>>

(* The server answers with a token: set_token puts it in memory first.       *)
GotToken(s) == /\ at[s] = "ask" /\ ~Held /\ client # NoClient
               /\ client' = [pool |-> client.pool, token |-> TRUE]
               /\ Goes(s, "save")
               /\ UNCHANGED <<file, flow, window, overlap>>

TwoFactorRequired(s) == /\ At(s, {"submit_code"}, "ask") /\ ~Held /\ client # NoClient
                        /\ Goes(s, "track")
                        /\ UNCHANGED <<file, client, flow, window, overlap>>

StoreTrack(s) == /\ at[s] = "track" /\ two_fa' = TRUE /\ Goes(s, "post2fa")
                 /\ UNCHANGED <<file, client, temp_token, qr_task, window, overlap>>

(* Mutant of AskTwoFactor: set_busy(false) forgotten. *)
AskTwoFactorStaysBusy(s) == /\ at[s] = "post2fa" /\ Ends(s) /\ screen' = "2fa"
                            /\ UNCHANGED <<file, client, temp_token, two_fa, busy, overlap>>

AskTwoFactor(s) == /\ at[s] = "post2fa" /\ Ends(s) /\ screen' = "2fa" /\ busy' = FALSE
                   /\ UNCHANGED <<file, client, temp_token, two_fa, overlap>>

(* save_auth writes the row of the client's device, which of several may not *)
(* be the last that lacked a token.  One saved through an unlinked file is   *)
(* saved to nowhere.                                                         *)
SaveAuth == IF client.pool # "linked" THEN tokens
            ELSE IF several THEN tokens \cup {TRUE} ELSE {TRUE}

(* Mutant of SaveToken: a token that could not be saved is used all the same. *)
SaveTokenOrNot(s) == /\ at[s] = "save" /\ tokens' \in {tokens, SaveAuth} /\ Goes(s, "sync")
                     /\ UNCHANGED <<several, client, flow, window, overlap>>

SaveToken(s) == /\ at[s] = "save" /\ tokens' = SaveAuth /\ Goes(s, "sync")
                /\ UNCHANGED <<several, client, flow, window, overlap>>

(* The sync ends, and with it the hold of the mutex.                         *)
Synced(s) == /\ at[s] = "sync" /\ Goes(s, "post")
             /\ UNCHANGED <<file, client, flow, window, overlap>>

(* finish_login, and what spawn_resume does for a session resumed.           *)
FinishLogin(s) == /\ At(s, SigningIn \cup {"resume"}, "post") /\ Ends(s) /\ screen' = "authed"
                  /\ busy' = (busy /\ job[s] = "resume")
                  /\ UNCHANGED <<file, client, temp_token, two_fa, overlap>>

ShowError(s) == /\ at[s] = "error" /\ Ends(s) /\ busy' = FALSE
                /\ UNCHANGED <<file, client, temp_token, two_fa, screen, overlap>>
-----------------------------------------------------------------------------
Step(s) ==
  \/ CancelTask(s) \/ TakeClient(s) \/ ClearScratch(s) \/ WipeSession(s) \/ WipeFails(s)
  \/ GoneBack(s) \/ LoggedOut(s)
  \/ OpenSession(s) \/ InsertDevice(s) \/ LoadAuth(s) \/ Connects(s) \/ NeedLogin(s)
  \/ StartFails(s) \/ StoreClient(s) \/ StoreFlow(s) \/ SmsStarted(s) \/ QrStarted(s)
  \/ QrRenderFails(s) \/ SetQrTask(s)
  \/ CloneScratch(s) \/ SignInFails(s) \/ GotToken(s) \/ TwoFactorRequired(s) \/ StoreTrack(s)
  \/ AskTwoFactor(s) \/ SaveToken(s) \/ Synced(s) \/ FinishLogin(s) \/ ShowError(s)

Press == ChoosePhone \/ ChooseQr \/ SubmitPhone \/ SubmitCode \/ Submit2fa \/ Back \/ Logout

Next == Relaunch \/ SpawnResume \/ Press \/ \E s \in Slots : Step(s)

Spec == Init /\ [][Next]_vars
-----------------------------------------------------------------------------
(* Once the screen says signed in, and no logout is under way, the file that *)
(* the next launch opens has a token (desktop auth.rs 68-93, 113-160,        *)
(* 188-245, main.rs 170-204, 246-305, protocol/auth.rs 233-243, sqlite.rs    *)
(* 43-91): no order of Back, submits, polls, aborts, failures, files that    *)
(* cannot be removed and relaunches signs in with a token in memory only,    *)
(* unless the login began while another task was alive.                      *)
AuthedIsPersisted == screen = "authed" /\ overlap # "start" /\ Of("logout") = {} => TRUE \in tokens

(* The client of a window that says signed in is there and has a token       *)
(* (desktop auth.rs 33-44, 84, 108, 122-133, 148-159, 175, 188-224), unless a *)
(* start overlapped another task, or a Back met the sign-in: see             *)
(* BackLeavesClient.                                                         *)
AuthedHasClient ==
  screen = "authed" /\ overlap = "none" /\ Of("logout") = {} => client # NoClient /\ client.token

(* "The same client stays around for follow-up operations" (desktop auth.rs   *)
(* 37): signed in with no task alive, after a login that overlapped no other  *)
(* start, there is a client.  The code does not keep it (main.rs 174-183,    *)
(* 269-305): a Back pressed while the poll finishes finds the mutex free,    *)
(* takes the client, and the poll says signed in after it.                   *)
BackLeavesClient == screen = "authed" /\ overlap # "start" /\ Alive = {} => client # NoClient

(* At most one polling task stays (desktop auth.rs 200-209, main.rs 290-293): *)
(* each that has more than its post to do has its handle in the flow, where   *)
(* the next login, Back or logout aborts it, or in a task about to store it   *)
(* there, which aborts the other.                                            *)
OneQrTask == \A p \in Of("poll") : \/ at[p] = "post" \/ qr_task = p
                                   \/ \E t \in Of("set_qr_task") : handle[t] = p

(* A window that waits has a task to wait for (main.rs 66-169, 173-185): as  *)
(* long as busy disables its buttons, a task is alive whose every end frees  *)
(* it.                                                                       *)
BusyIsFreed ==
  busy => \E s \in Slots : job[s] \in {"sms", "qr", "submit_code", "submit_2fa", "back"}
=============================================================================
