----------------------------- MODULE FfiSession -----------------------------
(***************************************************************************)
(* ZeroMaxClient of zeromax-ffi (client.rs, events.rs) as the macOS app     *)
(* drives it: one MaxClient behind a mutex that every call holds until its *)
(* request is answered, a login (connect, or connect_for_auth, set_token   *)
(* and sync_after_login), the event bridge, the background reconnect loop, *)
(* and other calls that send a request.                                    *)
(*                                                                         *)
(* Actors wait for the mutex, hold it and let it go; only the network moves *)
(* while it is held, and nothing bounds the time it takes: connect has no   *)
(* timer at all, and the timer of a request starts after its write.         *)
(***************************************************************************)
EXTENDS MaxClient

CONSTANT Requesters   \* threads that call an operation of the client
CONSTANTS NoOne, App, Loop   \* holders of the mutex besides the requesters

Actors == Requesters \cup {App, Loop}
ASSUME ActorsAssumption == /\ NoOne \notin Actors /\ App # Loop
                           /\ App \notin Requesters /\ Loop \notin Requesters

VARIABLES lock,    \* who holds `inner`
          app,     \* where the app's login is
          loop,    \* where the reconnect loop is
          req,     \* requester -> where its call is
          hung,    \* the holder of `inner` is in a connect or a write that never ends
          bridge,  \* the event bridge: the transport it listens to, its state
          lived    \* transports on which a login or a reconnect ended (history)

actorVars == <<lock, app, loop, req, hung, bridge, lived>>
vars == <<clientVars, actorVars>>

AppPlaces  == {"start", "connect", "handshake", "sync",
               "auth", "authHandshake", "signedOut", "login", "synced",
               "bridge", "up", "gone"}
LoopPlaces == {"off", "watch", "delay", "connect", "handshake", "sync"}
ReqPlaces  == {"idle", "waiting", "sent", "answered", "refused"}

(* The mutex is held by the actor that is in the middle of a call. *)
LockTypeOK ==
  /\ lock \in Actors \cup {NoOne}
  /\ lock = App <=> app \in {"connect", "handshake", "sync", "auth",
                             "authHandshake", "synced"}
  /\ lock = Loop <=> loop \in {"connect", "handshake", "sync"}
  /\ \A r \in Requesters : lock = r <=> req[r] = "sent"

TypeOK == /\ ClientTypeOK /\ LockTypeOK
          /\ app \in AppPlaces /\ loop \in LoopPlaces
          /\ req \in [Requesters -> ReqPlaces]
          /\ hung \in BOOLEAN
          /\ bridge \in [on : Transports \cup {NoOne}, ended : BOOLEAN]
          /\ lived \subseteq Transports

Init == /\ ClientInit
        /\ lock = NoOne /\ app = "start" /\ loop = "off"
        /\ req = [r \in Requesters |-> "idle"]
        /\ hung = FALSE
        /\ bridge = [on |-> NoOne, ended |-> FALSE]
        /\ lived = {}

Acquire(a) == lock = NoOne /\ lock' = a
Release    == lock' = NoOne
-----------------------------------------------------------------------------
(* The app's calls *)

AppGo(from, to) == ~hung /\ app = from /\ app' = to
AppOnly == UNCHANGED <<loop, req, hung, bridge>>

(* connect(), at launch, with whatever token the storage held. *)
AppConnect == /\ AppGo("start", "connect") /\ Acquire(App)
              /\ AppOnly /\ UNCHANGED <<clientVars, lived>>

(* connect_for_auth(), before a login and again after a failed one. *)
AppConnectForAuth == /\ app \in {"start", "signedOut"} /\ app' = "auth" /\ Acquire(App)
                     /\ AppOnly /\ UNCHANGED <<clientVars, lived>>

AppTransport == /\ \/ AppGo("connect", "handshake")
                   \/ AppGo("auth", "authHandshake")
                /\ TransportConnects
                /\ AppOnly /\ UNCHANGED <<lock, lived>>

AppHandshake == /\ AppGo("handshake", IF token THEN "sync" ELSE "bridge")
                /\ HandshakeOk
                /\ IF token THEN UNCHANGED <<lock, lived>>
                   ELSE Release /\ lived' = lived \cup {transport}
                /\ AppOnly

AppSync == /\ AppGo("sync", "bridge") /\ SyncOk
           /\ Release /\ lived' = lived \cup {transport}
           /\ AppOnly

(* The handshake of connect_for_auth leaves `connected` alone. *)
AuthHandshake == /\ AppGo("authHandshake", "login") /\ Answered /\ Release
                 /\ AppOnly /\ UNCHANGED <<clientVars, lived>>

(* An error ends the launch (the app drops the client) or shows the login.   *)
AppFails == /\ ~hung
            /\ \/ app \in {"connect", "auth"} /\ TransportFails
               \/ app \in {"handshake", "sync", "authHandshake", "synced"} /\ RequestFails
            /\ app' = IF app \in {"connect", "handshake", "sync"} THEN "gone" ELSE "signedOut"
            /\ Release
            /\ AppOnly /\ UNCHANGED lived

(* set_token() and then sync_after_login(): two calls. *)
SetToken == /\ AppGo("login", "synced") /\ Acquire(App)
            /\ token' = TRUE
            /\ AppOnly /\ UNCHANGED <<wireVars, sessionVars, lived>>

(* sync_after_login() does not set `connected` either. *)
SyncAfterLogin == /\ AppGo("synced", "bridge")
                  /\ Answered /\ SyncRows
                  /\ Release /\ lived' = lived \cup {transport}
                  /\ AppOnly /\ UNCHANGED <<wireVars, transport, connected, token>>

(* set_event_listener, start_event_loop (it takes the mutex to subscribe, and *)
(* nobody calls it again) and start_background_reconnect.                    *)
StartEventLoop == /\ AppGo("bridge", "up") /\ lock = NoOne
                  /\ bridge' = [on |-> transport, ended |-> FALSE]
                  /\ loop' = "watch"
                  /\ UNCHANGED <<clientVars, lock, req, hung, lived>>

AppStep == \/ AppConnect \/ AppConnectForAuth \/ AppTransport \/ AppHandshake
           \/ AppSync \/ AuthHandshake \/ AppFails \/ SetToken \/ SyncAfterLogin
           \/ StartEventLoop
-----------------------------------------------------------------------------
(* The reconnect loop *)

LoopGo(from, to) == ~hung /\ loop = from /\ loop' = to
LoopOnly == UNCHANGED <<app, req, hung, bridge>>

(* Once a second, under the mutex, which is given back at once. *)
Watch == /\ LoopGo("watch", "delay") /\ lock = NoOne /\ ~IsConnected
         /\ LoopOnly /\ UNCHANGED <<clientVars, lock, lived>>

Reusable(t) == t \notin open \cup flag /\ (bridge.on = t => bridge.ended)

(* After a sleep of 2 s the loop takes the mutex again, does not look again  *)
(* whether the client is connected, and resets it.                           *)
LoopResets == /\ LoopGo("delay", "connect") /\ Acquire(Loop)
              /\ ResetOn({t \in Transports \ {transport} : Reusable(t)})
              /\ LoopOnly /\ UNCHANGED lived

LoopTransport == /\ LoopGo("connect", "handshake") /\ TransportConnects
                 /\ LoopOnly /\ UNCHANGED <<lock, lived>>

LoopHandshake == /\ LoopGo("handshake", IF token THEN "sync" ELSE "watch")
                 /\ HandshakeOk
                 /\ IF token THEN UNCHANGED <<lock, lived>>
                    ELSE Release /\ lived' = lived \cup {transport}
                 /\ LoopOnly

LoopSync == /\ LoopGo("sync", "watch") /\ SyncOk
            /\ Release /\ lived' = lived \cup {transport}
            /\ LoopOnly

(* Mutants of LoopFails: the error ends the loop; the mutex is kept. *)
LoopFailsForGood ==
  /\ ~hung
  /\ \/ loop = "connect" /\ TransportFails
     \/ loop \in {"handshake", "sync"} /\ RequestFails
  /\ loop' = "off" /\ Release
  /\ LoopOnly /\ UNCHANGED lived
LoopFailsHoldingLock ==
  /\ ~hung
  /\ \/ loop = "connect" /\ TransportFails
     \/ loop \in {"handshake", "sync"} /\ RequestFails
  /\ loop' = "watch"
  /\ LoopOnly /\ UNCHANGED <<lock, lived>>

LoopFails == /\ ~hung
             /\ \/ loop = "connect" /\ TransportFails
                \/ loop \in {"handshake", "sync"} /\ RequestFails
             /\ loop' = "watch" /\ Release
             /\ LoopOnly /\ UNCHANGED lived

LoopStep == \/ Watch \/ LoopResets \/ LoopTransport \/ LoopHandshake
            \/ LoopSync \/ LoopFails
-----------------------------------------------------------------------------
(* Any other call: the mutex, one request, the answer or an error. *)

ReqGo(r, from, to) == req[r] = from /\ req' = [req EXCEPT ![r] = to]
ReqOnly == UNCHANGED <<app, loop, hung, bridge, lived>>

Call(r) == /\ app = "up" /\ ReqGo(r, "idle", "waiting")
           /\ ReqOnly /\ UNCHANGED <<clientVars, lock>>
Send(r) == /\ ReqGo(r, "waiting", "sent") /\ Acquire(r)
           /\ ReqOnly /\ UNCHANGED clientVars
Return(r) == /\ ~hung /\ Release
             /\ \/ ReqGo(r, "sent", "answered") /\ Answered /\ UNCHANGED clientVars
                \/ ReqGo(r, "sent", "refused") /\ RequestFails
             /\ ReqOnly
-----------------------------------------------------------------------------
(* The peer keeps the connection and neither completes the connect, nor      *)
(* takes what is written (external).                                         *)
Hang == /\ lock # NoOne /\ ~hung /\ hung' = TRUE
        /\ IF app \in {"connect", "auth"} \/ loop = "connect"
           THEN transport \notin flag ELSE transport \in open
        /\ UNCHANGED <<clientVars, lock, app, loop, req, bridge, lived>>

(* The bridge ends when every sender of its channel is gone: the client has  *)
(* another transport, and the old one's receive loop has ended.              *)
BridgeEnds == /\ bridge.on \in Transports \ (flag \cup {transport}) /\ ~bridge.ended
              /\ bridge' = [bridge EXCEPT !.ended = TRUE]
              /\ UNCHANGED <<clientVars, lock, app, loop, req, hung, lived>>

Next == \/ AppStep \/ LoopStep \/ BridgeEnds \/ Hang
        \/ \E r \in Requesters : Call(r) \/ Send(r) \/ Return(r)
        \/ \E t \in Transports : (WireDown(t) \/ RecvLoopEnds(t)) /\ UNCHANGED actorVars

Spec == Init /\ [][Next]_vars

(* The runtime runs every task, tokio's mutex is first come first served, a  *)
(* request that is written has a timer, and a connect that is tried again    *)
(* and again succeeds in the end.  That a connect or a write ends at all is  *)
(* not assumed: it may Hang.                                                 *)
FairSpec ==
  /\ Spec /\ WF_vars(BridgeEnds)
  /\ SF_vars(LoopResets) /\ SF_vars(Watch)
  /\ WF_vars(LoopStep)
  /\ SF_vars(LoopTransport) /\ SF_vars(LoopHandshake) /\ SF_vars(LoopSync)
  /\ \A r \in Requesters : SF_vars(Send(r)) /\ WF_vars(Return(r))
  /\ \A t \in Transports : WF_vars(RecvLoopEnds(t) /\ UNCHANGED actorVars)
-----------------------------------------------------------------------------
(* Properties *)

(* Once the background loop runs, the client ends up connected, with the     *)
(* session in its lists if it has a token, unless a connect or a write hangs *)
(* (ffi client.rs 220-254).                                                  *)
EndsUpConnected ==
  loop # "off" ~> hung \/ [](IsConnected /\ (token => rows = 1))

(* A call returns, answered or refused, through any number of reconnects:    *)
(* the loop and every other call give the mutex back on every path.  The one *)
(* exception is a connect or a write under the mutex that hangs, for which   *)
(* the code has no timer (websocket.rs 88, 137): then nothing does.          *)
CallsReturn ==
  \A r \in Requesters : req[r] = "waiting" ~> req[r] \in {"answered", "refused"} \/ hung

(* A connected client that was given a listener is heard: the bridge listens *)
(* to the transport in use, also after a reconnect.                          *)
ConnectedIsHeard == app = "up" /\ IsConnected => bridge.on = transport

(* A launch that ends signed in had a token to sign in with. *)
SignedInHasToken == app \in {"bridge", "up"} => token

(* The loop reconnects on a disconnect: it never throws away the transport   *)
(* of a session that is alive.                                               *)
HealthyNotReset ==
  [][transport' # transport => transport \notin open \cap lived]_vars
=============================================================================
