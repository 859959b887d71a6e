--------------------------- MODULE FfiSessionProofs ---------------------------
(***************************************************************************)
(* What holds of FfiSession for every set of requesting threads and of     *)
(* transport objects, and any number of faults.                            *)
(***************************************************************************)
EXTENDS FfiSession, TLAPS

(* The steps that leave the session alone: the transport, the token, the lists. *)
WireStep == \/ \E t \in Transports : WireDown(t) \/ RecvLoopEnds(t)
            \/ TransportConnects \/ TransportFails \/ HandshakeOk \/ RequestFails

LEMMA ObjectOfSet == ASSUME NEW S, S # {} PROVE NewObject(S) \in S
  BY DEF NewObject

LEMMA ClientInitType == ClientInit => ClientTypeOK
<1> SUFFICES ASSUME ClientInit PROVE ClientTypeOK  OBVIOUS
<1>1. transport \in Transports
      BY ObjectOfSet, TransportsAssumption DEF ClientInit
<1>2. connected \in BOOLEAN /\ token \in BOOLEAN  BY Zenon DEF ClientInit
<1>3. /\ open \subseteq Transports /\ flag \subseteq Transports
      /\ rows \in Nat /\ rowsFrom \subseteq Transports /\ faults \in 0 .. MaxFaults
      BY MaxFaultsAssumption DEF ClientInit
<1> QED  BY <1>1, <1>2, <1>3, Zenon DEF ClientTypeOK

(* One more fault is still within the bound. *)
LEMMA FaultType == ASSUME ClientTypeOK, Fault PROVE faults' \in 0 .. MaxFaults
  BY MaxFaultsAssumption DEF ClientTypeOK, Fault

LEMMA WireStepKeeps ==
  ASSUME ClientTypeOK, WireStep
  PROVE  UNCHANGED <<transport, rows, rowsFrom, token>>
  BY DEF WireStep, WireDown, RecvLoopEnds, TransportConnects, TransportFails,
         HandshakeOk, RequestFails, sessionVars, clientVars

LEMMA WireStepType ==
  ASSUME ClientTypeOK, WireStep
  PROVE  ClientTypeOK'
<1>1. /\ transport' \in Transports /\ rows' \in Nat /\ rowsFrom' \subseteq Transports
      BY WireStepKeeps DEF ClientTypeOK
<1>2. token' \in BOOLEAN
      BY WireStepKeeps, Zenon DEF ClientTypeOK
<1>3. connected' \in BOOLEAN
  <2>1. CASE HandshakeOk
    <3>1. CASE token  BY <2>1, <3>1, Zenon DEF HandshakeOk, ClientTypeOK
    <3>2. CASE ~token  BY <2>1, <3>2, Zenon DEF HandshakeOk
    <3> QED  BY <3>1, <3>2
  <2>2. CASE UNCHANGED connected  BY <2>2, Zenon DEF ClientTypeOK
  <2> QED  BY <2>1, <2>2 DEF WireStep, WireDown, RecvLoopEnds, TransportConnects,
              TransportFails, RequestFails, sessionVars, clientVars
<1>4. open' \subseteq Transports /\ flag' \subseteq Transports
      BY DEF ClientTypeOK, WireStep, WireDown, RecvLoopEnds, TransportConnects,
             TransportFails, HandshakeOk, RequestFails, clientVars, wireVars
<1>5. faults' \in 0 .. MaxFaults
  <2>1. CASE Fault  BY <2>1, FaultType
  <2>2. CASE UNCHANGED faults  BY <2>2 DEF ClientTypeOK
  <2> QED  BY <2>1, <2>2 DEF WireStep, WireDown, RecvLoopEnds, TransportConnects,
              TransportFails, HandshakeOk, RequestFails, Refused, clientVars, wireVars
<1> QED  BY <1>1, <1>2, <1>3, <1>4, <1>5, Zenon DEF ClientTypeOK

LEMMA SyncOkType == ASSUME ClientTypeOK, SyncOk PROVE ClientTypeOK'
<1>1. /\ transport' \in Transports /\ rows' \in Nat /\ rowsFrom' \subseteq Transports
      /\ open' \subseteq Transports /\ flag' \subseteq Transports
      /\ faults' \in 0 .. MaxFaults
      BY DEF ClientTypeOK, SyncOk, SyncRows, wireVars
<1>2. connected' \in BOOLEAN /\ token' \in BOOLEAN  BY Zenon DEF ClientTypeOK, SyncOk
<1> QED  BY <1>1, <1>2, Zenon DEF ClientTypeOK

LEMMA ResetOnType ==
  ASSUME ClientTypeOK, NEW S \in SUBSET Transports, ResetOn(S)
  PROVE  ClientTypeOK' /\ rows' = 0 /\ rowsFrom' = {} /\ transport' \in S
<1>1. /\ transport' \in S /\ rows' = 0 /\ rowsFrom' = {}
      /\ open' \subseteq Transports /\ flag' \subseteq Transports
      /\ faults' \in 0 .. MaxFaults
      BY ObjectOfSet DEF ClientTypeOK, ResetOn, wireVars
<1>2. connected' \in BOOLEAN /\ token' \in BOOLEAN  BY Zenon DEF ClientTypeOK, ResetOn
<1>3. transport' \in Transports /\ rows' \in Nat /\ rowsFrom' \subseteq Transports
      BY <1>1
<1> QED  BY <1>1, <1>2, <1>3, Zenon DEF ClientTypeOK

LEMMA ClientKept == ASSUME ClientTypeOK, UNCHANGED clientVars PROVE ClientTypeOK'
<1>1. connected' \in BOOLEAN /\ token' \in BOOLEAN
      BY Zenon DEF ClientTypeOK, clientVars, sessionVars
<1> QED  BY <1>1 DEF ClientTypeOK, clientVars, sessionVars, wireVars
-----------------------------------------------------------------------------
ActorsOK == /\ lock \in Actors \cup {NoOne}
            /\ app \in AppPlaces /\ loop \in LoopPlaces
            /\ req \in [Requesters -> ReqPlaces]
            /\ bridge \in [on : Transports \cup {NoOne}, ended : BOOLEAN]
            /\ lived \subseteq Transports

AppHolds  == {"connect", "handshake", "sync", "auth", "authHandshake", "synced"}
LoopHolds == {"connect", "handshake", "sync"}

(* A sync finds the lists empty: the app syncs once, before the loop starts, *)
(* and the loop syncs only after a reset.                                    *)
RowsInv == /\ rows <= 1 /\ rowsFrom \subseteq {transport}
           /\ rows = 0 => rowsFrom = {}
           /\ app \notin {"bridge", "up"} => rows = 0
           /\ loop # "off" => app = "up"
           /\ loop \in LoopHolds => rows = 0

SessionInv == ClientTypeOK /\ ActorsOK /\ hung \in BOOLEAN /\ LockTypeOK /\ RowsInv

LEMMA SessionInit == Init => SessionInv
<1> SUFFICES ASSUME Init PROVE SessionInv  OBVIOUS
<1>1. ClientTypeOK  BY ClientInitType DEF Init
<1>2. ActorsOK  BY DEF Init, ActorsOK, AppPlaces, LoopPlaces, ReqPlaces
<1>3. LockTypeOK  BY ActorsAssumption DEF Init, LockTypeOK, Actors
<1>4. RowsInv  BY DEF Init, ClientInit, RowsInv, LoopHolds
<1>5. hung \in BOOLEAN  BY DEF Init
<1> QED  BY <1>1, <1>2, <1>3, <1>4, <1>5 DEF SessionInv
-----------------------------------------------------------------------------
(* Types *)

LEMMA ClientStep == ASSUME SessionInv, [Next]_vars PROVE ClientTypeOK'
<1> USE DEF SessionInv
<1>1. CASE UNCHANGED clientVars  BY <1>1, ClientKept
<1>2. CASE WireStep  BY <1>2, WireStepType
<1>3. CASE SyncOk  BY <1>3, SyncOkType
<1>4. CASE LoopResets  BY <1>4, ResetOnType DEF LoopResets
<1>5. CASE SetToken
  <2>1. connected' \in BOOLEAN /\ token' \in BOOLEAN
        BY <1>5, Zenon DEF SetToken, ClientTypeOK, sessionVars
  <2> QED  BY <1>5, <2>1 DEF SetToken, ClientTypeOK, wireVars, sessionVars
<1>6. CASE SyncAfterLogin
  <2>1. connected' \in BOOLEAN /\ token' \in BOOLEAN
        BY <1>6, Zenon DEF SyncAfterLogin, ClientTypeOK
  <2> QED  BY <1>6, <2>1 DEF SyncAfterLogin, SyncRows, ClientTypeOK, wireVars
<1>7. CASE AppStep
      BY <1>1, <1>2, <1>3, <1>5, <1>6, <1>7
      DEF AppStep, AppConnect, AppConnectForAuth, AppTransport, AppHandshake, AppSync,
          AuthHandshake, AppFails, StartEventLoop, WireStep
<1>8. CASE LoopStep
      BY <1>1, <1>2, <1>3, <1>4, <1>8
      DEF LoopStep, Watch, LoopTransport, LoopHandshake, LoopSync, LoopFails, WireStep
<1>9. ASSUME NEW r \in Requesters, Call(r) \/ Send(r) \/ Return(r) PROVE ClientTypeOK'
      BY <1>1, <1>2, <1>9 DEF Call, Send, Return, WireStep
<1>10. CASE \E t \in Transports : (WireDown(t) \/ RecvLoopEnds(t)) /\ UNCHANGED actorVars
      BY <1>2, <1>10 DEF WireStep
<1>11. CASE BridgeEnds \/ Hang \/ UNCHANGED vars  BY <1>1, <1>11 DEF BridgeEnds, Hang, vars
<1> QED  BY <1>7, <1>8, <1>9, <1>10, <1>11 DEF Next

(* What a step of the app does to its place and to the mutex. *)
LEMMA AppMoves ==
  ASSUME SessionInv, AppStep
  PROVE  /\ app' \in AppPlaces /\ UNCHANGED req
         /\ \/ lock = NoOne /\ lock' = App /\ app' \in AppHolds
            \/ app \in AppHolds /\ app' \in AppHolds /\ UNCHANGED lock
            \/ app \in AppHolds /\ app' \notin AppHolds /\ lock' = NoOne
            \/ app \notin AppHolds /\ app' \notin AppHolds /\ UNCHANGED lock
         /\ \/ UNCHANGED <<loop, bridge>>
            \/ /\ app = "bridge" /\ app' = "up" /\ lock = NoOne /\ loop' = "watch"
               /\ bridge' = [on |-> transport, ended |-> FALSE]
<1> USE DEF AppPlaces, AppHolds, AppGo, AppOnly, Acquire, Release
<1>1. CASE AppConnect \/ AppConnectForAuth  BY <1>1 DEF AppConnect, AppConnectForAuth
<1>2. CASE AppTransport  BY <1>2 DEF AppTransport
<1>3. CASE AppHandshake  BY <1>3 DEF AppHandshake
<1>4. CASE AppSync \/ AuthHandshake  BY <1>4 DEF AppSync, AuthHandshake
<1>5. CASE AppFails  BY <1>5 DEF AppFails
<1>6. CASE SetToken \/ SyncAfterLogin  BY <1>6 DEF SetToken, SyncAfterLogin
<1>7. CASE StartEventLoop  BY <1>7 DEF StartEventLoop
<1> QED  BY <1>1, <1>2, <1>3, <1>4, <1>5, <1>6, <1>7 DEF AppStep

LEMMA LoopMoves ==
  ASSUME SessionInv, LoopStep
  PROVE  /\ loop' \in LoopPlaces \ {"off"} /\ loop # "off" /\ UNCHANGED <<app, req, bridge>>
         /\ \/ lock = NoOne /\ lock' = Loop /\ loop' \in LoopHolds
            \/ loop \in LoopHolds /\ loop' \in LoopHolds /\ UNCHANGED lock
            \/ loop \in LoopHolds /\ loop' \notin LoopHolds /\ lock' = NoOne
            \/ loop \notin LoopHolds /\ loop' \notin LoopHolds /\ UNCHANGED lock
<1> USE DEF LoopPlaces, LoopHolds, LoopGo, LoopOnly, Acquire, Release
<1>1. CASE Watch \/ LoopResets  BY <1>1 DEF Watch, LoopResets
<1>2. CASE LoopTransport \/ LoopHandshake  BY <1>2 DEF LoopTransport, LoopHandshake
<1>3. CASE LoopSync \/ LoopFails  BY <1>3 DEF LoopSync, LoopFails
<1> QED  BY <1>1, <1>2, <1>3 DEF LoopStep

LEMMA ReqMoves ==
  ASSUME SessionInv, NEW r \in Requesters, Call(r) \/ Send(r) \/ Return(r)
  PROVE  /\ \E p \in ReqPlaces : req' = [req EXCEPT ![r] = p]
         /\ UNCHANGED <<app, loop, bridge, lived, transport, rows, rowsFrom>>
         /\ \/ lock = NoOne /\ lock' = r /\ req'[r] = "sent"
            \/ req[r] = "sent" /\ req'[r] # "sent" /\ lock' = NoOne
            \/ req[r] # "sent" /\ req'[r] # "sent" /\ UNCHANGED lock
<1> USE DEF ReqPlaces, ReqGo, ReqOnly, Acquire, Release, SessionInv, ActorsOK,
            clientVars, sessionVars
<1>1. CASE Call(r)  BY <1>1 DEF Call
<1>2. CASE Send(r)  BY <1>2 DEF Send
<1>3. CASE Return(r)  BY <1>3 DEF Return, RequestFails
<1> QED  BY <1>1, <1>2, <1>3

LEMMA ActorsStep == ASSUME SessionInv, [Next]_vars PROVE ActorsOK'
<1> USE DEF SessionInv, ActorsOK, Actors
<1>0. transport \in Transports /\ transport' \in Transports
      BY ClientStep DEF ClientTypeOK
<1>1. lived' \subseteq Transports
  <2>1. lived' = lived \/ lived' = lived \cup {transport}
        BY DEF Next, AppStep, AppConnect, AppConnectForAuth, AppTransport, AppHandshake,
               AppSync, AuthHandshake, AppFails, SetToken, SyncAfterLogin,
               StartEventLoop, LoopStep, Watch, LoopResets, LoopTransport,
               LoopHandshake, LoopSync, LoopFails, BridgeEnds, Hang, Call, Send, Return,
               ReqOnly, actorVars, vars
  <2> QED  BY <1>0, <2>1
<1>2. CASE AppStep
  <2>1. bridge' \in [on : Transports \cup {NoOne}, ended : BOOLEAN]
    <3>1. CASE UNCHANGED bridge  BY <3>1
    <3>2. CASE bridge' = [on |-> transport, ended |-> FALSE]  BY <1>0, <3>2
    <3> QED  BY <1>2, <3>1, <3>2, AppMoves
  <2> QED  BY <1>1, <1>2, <2>1, AppMoves DEF LoopPlaces
<1>3. CASE LoopStep  BY <1>1, <1>3, LoopMoves
<1>4. ASSUME NEW r \in Requesters, Call(r) \/ Send(r) \/ Return(r) PROVE ActorsOK'
      BY <1>1, <1>4, ReqMoves
<1>5. CASE BridgeEnds \/ Hang  BY <1>5 DEF BridgeEnds, Hang
<1>6. CASE UNCHANGED actorVars  BY <1>6 DEF actorVars
<1> QED  BY <1>2, <1>3, <1>4, <1>5, <1>6 DEF Next, vars

LEMMA LockStep == ASSUME SessionInv, [Next]_vars PROVE LockTypeOK'
<1> USE ActorsAssumption DEF SessionInv, ActorsOK, Actors, LockTypeOK, AppHolds, LoopHolds
<1>1. CASE AppStep
  <2>1. /\ lock' \in Actors \cup {NoOne}
        /\ lock' = App <=> app' \in AppHolds
        /\ lock' = Loop <=> loop' \in LoopHolds
        /\ \A r \in Requesters : lock' = r <=> req'[r] = "sent"
        BY <1>1, AppMoves
  <2> QED  BY <2>1
<1>2. CASE LoopStep
  <2>1. /\ lock' \in Actors \cup {NoOne}
        /\ lock' = App <=> app' \in AppHolds
        /\ lock' = Loop <=> loop' \in LoopHolds
        /\ \A r \in Requesters : lock' = r <=> req'[r] = "sent"
        BY <1>2, LoopMoves
  <2> QED  BY <2>1
<1>3. ASSUME NEW r \in Requesters, Call(r) \/ Send(r) \/ Return(r) PROVE LockTypeOK'
  <2>1. /\ lock' \in Actors \cup {NoOne}
        /\ lock' = App <=> app' \in AppHolds
        /\ lock' = Loop <=> loop' \in LoopHolds
        BY <1>3, ReqMoves
  <2>2. \A q \in Requesters : lock' = q <=> req'[q] = "sent"
        BY <1>3, ReqMoves
  <2> QED  BY <2>1, <2>2
<1>4. CASE BridgeEnds \/ Hang \/ UNCHANGED actorVars
  <2>1. UNCHANGED <<lock, app, loop, req>>  BY <1>4 DEF BridgeEnds, Hang, actorVars
  <2> QED  BY <2>1
<1> QED  BY <1>1, <1>2, <1>3, <1>4 DEF Next, vars
-----------------------------------------------------------------------------
(* The lists *)

LEMMA RowsStep == ASSUME SessionInv, [Next]_vars PROVE RowsInv'
<1> USE DEF SessionInv, RowsInv, LoopHolds
<1>0. rows \in Nat  BY DEF ClientTypeOK
<1>1. CASE AppStep
  <2>1. CASE AppSync \/ SyncAfterLogin
    <3>1. /\ app \in {"sync", "synced"} /\ app' = "bridge" /\ UNCHANGED <<loop, transport>>
          /\ rows' = rows + 1 /\ rowsFrom' = rowsFrom \cup {transport}
          BY <2>1 DEF AppSync, SyncAfterLogin, SyncOk, SyncRows, AppGo, AppOnly
    <3> QED  BY <1>0, <3>1
  <2>2. CASE ~AppSync /\ ~SyncAfterLogin
    <3>1. UNCHANGED <<transport, rows, rowsFrom>>
          BY <1>1, <2>2
          DEF AppStep, AppConnect, AppConnectForAuth, AppTransport, TransportConnects,
              AppHandshake, HandshakeOk, AuthHandshake, AppFails, TransportFails,
              RequestFails, SetToken, StartEventLoop, clientVars, sessionVars
    <3>2. /\ app' \in {"bridge", "up"} => rows = 0 \/ app \in {"bridge", "up"}
          /\ app' \notin {"bridge", "up"} => app \notin {"bridge", "up"}
          /\ (loop' = loop /\ app # "up") \/ (loop' = "watch" /\ app' = "up")
          BY <1>1, <2>2
          DEF AppStep, AppConnect, AppConnectForAuth, AppTransport, AppHandshake,
              AuthHandshake, AppFails, SetToken, StartEventLoop, AppGo, AppOnly
    <3> QED  BY <3>1, <3>2
  <2> QED  BY <2>1, <2>2
<1>2. CASE LoopStep
  <2>1. loop # "off" /\ app = "up" /\ app' = "up" /\ loop' # "off"
        BY <1>2, LoopMoves
  <2>2. CASE LoopResets
    <3>1. rows' = 0 /\ rowsFrom' = {}  BY <2>2 DEF LoopResets, ResetOn
    <3> QED  BY <2>1, <3>1
  <2>3. CASE LoopSync
    <3>1. /\ loop = "sync" /\ loop' = "watch" /\ UNCHANGED transport
          /\ rows' = rows + 1 /\ rowsFrom' = rowsFrom \cup {transport}
          BY <2>3 DEF LoopSync, SyncOk, SyncRows, LoopGo
    <3> QED  BY <1>0, <2>1, <3>1
  <2>4. CASE ~LoopResets /\ ~LoopSync
    <3>1. UNCHANGED <<transport, rows, rowsFrom>>
          BY <1>2, <2>4
          DEF LoopStep, Watch, LoopTransport, TransportConnects, LoopHandshake,
              HandshakeOk, LoopFails, TransportFails, RequestFails, clientVars,
              sessionVars
    <3>2. loop' \in LoopHolds => loop \in LoopHolds
          BY <1>2, <2>4
          DEF LoopStep, Watch, LoopTransport, LoopHandshake, LoopFails, LoopGo
    <3> QED  BY <2>1, <3>1, <3>2
  <2> QED  BY <2>2, <2>3, <2>4
<1>3. ASSUME NEW r \in Requesters, Call(r) \/ Send(r) \/ Return(r) PROVE RowsInv'
      BY <1>3, ReqMoves
<1>4. CASE BridgeEnds \/ Hang \/ UNCHANGED vars
      BY <1>4 DEF BridgeEnds, Hang, vars, clientVars, sessionVars, actorVars
<1>5. CASE \E t \in Transports : (WireDown(t) \/ RecvLoopEnds(t)) /\ UNCHANGED actorVars
  <2>1. UNCHANGED <<transport, rows, rowsFrom, app, loop>>
        BY <1>5, WireStepKeeps DEF WireStep, actorVars
  <2> QED  BY <2>1
<1> QED  BY <1>1, <1>2, <1>3, <1>4, <1>5 DEF Next

LEMMA HungStep == ASSUME SessionInv, [Next]_vars PROVE hung' \in BOOLEAN
<1>1. hung' = hung \/ hung' = TRUE
      BY Zenon DEF Next, AppStep, AppConnect, AppConnectForAuth, AppTransport, AppHandshake,
         AppSync, AuthHandshake, AppFails, SetToken, SyncAfterLogin, StartEventLoop,
         AppOnly, LoopStep, Watch, LoopResets, LoopTransport, LoopHandshake, LoopSync,
         LoopFails, LoopOnly, BridgeEnds, Hang, Call, Send, Return, ReqOnly,
         actorVars, vars
<1> QED  BY <1>1, Zenon DEF SessionInv

LEMMA SessionStep == SessionInv /\ [Next]_vars => SessionInv'
  BY ClientStep, ActorsStep, LockStep, RowsStep, HungStep, Zenon DEF SessionInv
-----------------------------------------------------------------------------
(* Every variable keeps its type, and the mutex is held exactly by the actor *)
(* that is in the middle of a call: the app, the loop and the requesters     *)
(* exclude each other.                                                       *)
THEOREM TypeCorrect == Spec => []TypeOK
<1>1. SessionInv => TypeOK  BY Zenon DEF SessionInv, ActorsOK, TypeOK
<1> QED  BY <1>1, SessionInit, SessionStep, PTL DEF Spec

(* The lists hold each chat once, and from the session in use (client.rs):   *)
(* through any login, failed launch and background reconnection a sync never *)
(* appends to lists that another sync filled.                                *)
THEOREM RowsAlwaysOfThisSession == Spec => []RowsOfThisSession
<1>1. SessionInv => RowsOfThisSession
      BY DEF SessionInv, RowsInv, RowsOfThisSession
<1> QED  BY <1>1, SessionInit, SessionStep, PTL DEF Spec
=============================================================================
