-------------------------- MODULE ClientStartProofs --------------------------
(***************************************************************************)
(* What holds of ClientStart for every set of transport objects, number of *)
(* faults and events, and capacity of the broadcast channel.               *)
(***************************************************************************)
EXTENDS ClientStart, TLAPS

(* The steps that leave the session alone: the transport, the token, the lists. *)
WireStep == \/ \E t \in Transports : WireDown(t) \/ RecvLoopEnds(t)
            \/ TransportConnects \/ TransportFails \/ HandshakeOk \/ RequestFails

LEMMA ObjectOfSet == ASSUME NEW S, S # {} PROVE NewObject(S) \in S
  BY DEF NewObject

LEMMA ClientInitType == ClientInit => ClientTypeOK
<1> SUFFICES ASSUME ClientInit PROVE ClientTypeOK  OBVIOUS
<1>1. transport \in Transports
      BY ObjectOfSet, TransportsAssumption DEF ClientInit
<1>2. connected \in BOOLEAN /\ token \in BOOLEAN  BY Zenon DEF ClientInit
<1>3. /\ open \subseteq Transports /\ flag \subseteq Transports
      /\ rows \in Nat /\ rowsFrom \subseteq Transports /\ faults \in 0 .. MaxFaults
      BY MaxFaultsAssumption DEF ClientInit
<1> QED  BY <1>1, <1>2, <1>3, Zenon DEF ClientTypeOK

(* One more fault is still within the bound. *)
LEMMA FaultType == ASSUME ClientTypeOK, Fault PROVE faults' \in 0 .. MaxFaults
  BY MaxFaultsAssumption DEF ClientTypeOK, Fault

LEMMA WireStepKeeps ==
  ASSUME ClientTypeOK, WireStep
  PROVE  UNCHANGED <<transport, rows, rowsFrom, token>>
  BY DEF WireStep, WireDown, RecvLoopEnds, TransportConnects, TransportFails,
         HandshakeOk, RequestFails, sessionVars, clientVars

LEMMA WireStepType ==
  ASSUME ClientTypeOK, WireStep
  PROVE  ClientTypeOK'
<1>1. /\ transport' \in Transports /\ rows' \in Nat /\ rowsFrom' \subseteq Transports
      BY WireStepKeeps DEF ClientTypeOK
<1>2. token' \in BOOLEAN
      BY WireStepKeeps, Zenon DEF ClientTypeOK
<1>3. connected' \in BOOLEAN
  <2>1. CASE HandshakeOk
    <3>1. CASE token  BY <2>1, <3>1, Zenon DEF HandshakeOk, ClientTypeOK
    <3>2. CASE ~token  BY <2>1, <3>2, Zenon DEF HandshakeOk
    <3> QED  BY <3>1, <3>2
  <2>2. CASE UNCHANGED connected  BY <2>2, Zenon DEF ClientTypeOK
  <2> QED  BY <2>1, <2>2 DEF WireStep, WireDown, RecvLoopEnds, TransportConnects,
              TransportFails, RequestFails, sessionVars, clientVars
<1>4. open' \subseteq Transports /\ flag' \subseteq Transports
      BY DEF ClientTypeOK, WireStep, WireDown, RecvLoopEnds, TransportConnects,
             TransportFails, HandshakeOk, RequestFails, clientVars, wireVars
<1>5. faults' \in 0 .. MaxFaults
  <2>1. CASE Fault  BY <2>1, FaultType
  <2>2. CASE UNCHANGED faults  BY <2>2 DEF ClientTypeOK
  <2> QED  BY <2>1, <2>2 DEF WireStep, WireDown, RecvLoopEnds, TransportConnects,
              TransportFails, HandshakeOk, RequestFails, Refused, clientVars, wireVars
<1> QED  BY <1>1, <1>2, <1>3, <1>4, <1>5, Zenon DEF ClientTypeOK

LEMMA SyncOkType == ASSUME ClientTypeOK, SyncOk PROVE ClientTypeOK'
<1>1. /\ transport' \in Transports /\ rows' \in Nat /\ rowsFrom' \subseteq Transports
      /\ open' \subseteq Transports /\ flag' \subseteq Transports
      /\ faults' \in 0 .. MaxFaults
      BY DEF ClientTypeOK, SyncOk, SyncRows, wireVars
<1>2. connected' \in BOOLEAN /\ token' \in BOOLEAN  BY Zenon DEF ClientTypeOK, SyncOk
<1> QED  BY <1>1, <1>2, Zenon DEF ClientTypeOK

LEMMA ResetOnType ==
  ASSUME ClientTypeOK, NEW S \in SUBSET Transports, ResetOn(S)
  PROVE  ClientTypeOK' /\ rows' = 0 /\ rowsFrom' = {} /\ transport' \in S
<1>1. /\ transport' \in S /\ rows' = 0 /\ rowsFrom' = {}
      /\ open' \subseteq Transports /\ flag' \subseteq Transports
      /\ faults' \in 0 .. MaxFaults
      BY ObjectOfSet DEF ClientTypeOK, ResetOn, wireVars
<1>2. connected' \in BOOLEAN /\ token' \in BOOLEAN  BY Zenon DEF ClientTypeOK, ResetOn
<1>3. transport' \in Transports /\ rows' \in Nat /\ rowsFrom' \subseteq Transports
      BY <1>1
<1> QED  BY <1>1, <1>2, <1>3, Zenon DEF ClientTypeOK

LEMMA ClientKept == ASSUME ClientTypeOK, UNCHANGED clientVars PROVE ClientTypeOK'
<1>1. connected' \in BOOLEAN /\ token' \in BOOLEAN
      BY Zenon DEF ClientTypeOK, clientVars, sessionVars
<1> QED  BY <1>1 DEF ClientTypeOK, clientVars, sessionVars, wireVars
-----------------------------------------------------------------------------
Dispatcher == [state : TaskStates, sub : Transports, has : BOOLEAN,
               inbox : Seq(Events), lagged : BOOLEAN]

DispatchersOK == /\ disp \in [Dispatchers -> Dispatcher]
                 /\ \A d \in Dispatchers : Len(disp[d].inbox) <= Capacity

ControlOK == /\ pc \in Places
             /\ handle \in Dispatchers \cup {0}
             /\ pushed \in 0 .. MaxEvents

ConfigOK == reconnect \in BOOLEAN /\ registered \in BOOLEAN /\ handlers \in BOOLEAN

(* The handle is kept from the start of the dispatcher to close(), which     *)
(* aborts it: before and after, none is running.                             *)
HandleInv == /\ pc \notin {"serving", "close"} => handle = 0
             /\ \A d \in Dispatchers : disp[d].state = "running" => d = handle
             /\ pc = "serving" => /\ handle \in Dispatchers
                                  /\ disp[handle].state = "running"
                                  /\ disp[handle].sub = transport

StartInv == ClientTypeOK /\ DispatchersOK /\ ControlOK /\ ConfigOK /\ HandleInv

LEMMA StartInvInit == Init => StartInv
<1> SUFFICES ASSUME Init PROVE StartInv  OBVIOUS
<1>1. ClientTypeOK  BY ClientInitType DEF Init
<1>2. DispatchersOK
  <2>1. [state |-> "none", sub |-> transport, has |-> FALSE, inbox |-> <<>>,
         lagged |-> FALSE] \in Dispatcher
        BY <1>1 DEF Dispatcher, TaskStates, ClientTypeOK
  <2> QED  BY <2>1, EventsAssumption DEF Init, DispatchersOK
<1>3. ControlOK  BY EventsAssumption DEF Init, ControlOK, Places
<1>4. ConfigOK  BY Zenon DEF Init, ConfigOK
<1>5. HandleInv  BY DEF Init, HandleInv
<1> QED  BY <1>1, <1>2, <1>3, <1>4, <1>5 DEF StartInv
-----------------------------------------------------------------------------
(* The steps of start() that neither begin nor end a dispatcher. *)
QuietStep == ConnectTransport \/ Handshake \/ Sync \/ ConnectErr \/ RetryDelayOver \/ Reset

LEMMA QuietKeeps ==
  ASSUME StartInv, QuietStep
  PROVE  UNCHANGED <<config, taskVars, pushed>> /\ pc' \in Places \ {"serving", "close"}
         /\ pc \notin {"serving", "close"}
  BY DEF QuietStep, ConnectTransport, Handshake, Sync, ConnectErr, RetryDelayOver,
         Reset, Go, Places

LEMMA QuietClient ==
  ASSUME StartInv, QuietStep
  PROVE  ClientTypeOK'
<1> USE DEF StartInv
<1>1. CASE ConnectTransport \/ Handshake \/ ConnectErr
      BY <1>1, WireStepType DEF ConnectTransport, Handshake, ConnectErr, WireStep
<1>2. CASE Sync  BY <1>2, SyncOkType DEF Sync
<1>3. CASE RetryDelayOver  BY <1>3, ClientKept DEF RetryDelayOver
<1>4. CASE Reset  BY <1>4, ResetOnType DEF Reset
<1> QED  BY <1>1, <1>2, <1>3, <1>4 DEF QuietStep

LEMMA QuietInv == ASSUME StartInv, QuietStep PROVE StartInv'
<1>1. ClientTypeOK'  BY QuietClient
<1>2. /\ UNCHANGED <<config, taskVars, pushed>> /\ pc' \in Places \ {"serving", "close"}
      /\ pc \notin {"serving", "close"}
      BY QuietKeeps
<1>3. DispatchersOK' /\ ControlOK' /\ HandleInv'
      BY <1>2 DEF StartInv, DispatchersOK, ControlOK, HandleInv, taskVars
<1>4. ConfigOK'  BY <1>2, Zenon DEF StartInv, ConfigOK, config, taskVars
<1> QED  BY <1>1, <1>3, <1>4 DEF StartInv

LEMMA StartDispatcherInv == ASSUME StartInv, StartDispatcher PROVE StartInv'
<1> USE DEF StartInv
<1> DEFINE fresh == [state |-> "running", sub |-> transport, has |-> handlers,
                     inbox |-> <<>>, lagged |-> FALSE]
<1>1. ClientTypeOK'  BY ClientKept DEF StartDispatcher
<1>2. PICK d \in Dispatchers : disp' = [disp EXCEPT ![d] = fresh] /\ handle' = d
      BY DEF StartDispatcher
<1>3. UNCHANGED <<transport, pushed>> /\ pc = "subscribe" /\ pc' = "serving"
      BY DEF StartDispatcher, Go, clientVars, sessionVars
<1>4. fresh \in Dispatcher
  <2>1. handlers \in BOOLEAN /\ transport \in Transports
        BY Zenon DEF ConfigOK, ClientTypeOK
  <2>2. "running" \in TaskStates /\ <<>> \in Seq(Events)  BY DEF TaskStates
  <2> QED  BY <2>1, <2>2, Zenon DEF Dispatcher
<1>5. fresh.state = "running" /\ fresh.sub = transport /\ Len(fresh.inbox) = 0
      OBVIOUS
<1> HIDE DEF fresh
<1>6. DispatchersOK'
      BY <1>2, <1>4, <1>5, EventsAssumption DEF DispatchersOK
<1>7. ControlOK'  BY <1>2, <1>3 DEF ControlOK, Places
<1>8. ConfigOK'  BY Zenon DEF StartDispatcher, ConfigOK, config
<1>9. HandleInv'
  <2>1. \A e \in Dispatchers : disp[e].state # "running"
        BY <1>3 DEF HandleInv, Dispatchers
  <2> QED  BY <1>2, <1>3, <1>5, <2>1 DEF HandleInv, DispatchersOK
<1> QED  BY <1>1, <1>6, <1>7, <1>8, <1>9

LEMMA NoticeLossInv == ASSUME StartInv, NoticeLoss PROVE StartInv'
<1> USE DEF StartInv
<1>1. ClientTypeOK'  BY ClientKept DEF NoticeLoss
<1>2. UNCHANGED <<config, taskVars, pushed>> /\ pc = "serving" /\ pc' = "close"
      BY DEF NoticeLoss, Go
<1>3. DispatchersOK' /\ ControlOK' /\ HandleInv'
      BY <1>2 DEF DispatchersOK, ControlOK, HandleInv, taskVars, Places
<1>4. ConfigOK'  BY <1>2, Zenon DEF ConfigOK, config, taskVars
<1> QED  BY <1>1, <1>3, <1>4

(* close() aborts the one dispatcher that runs. *)
LEMMA CloseInv == ASSUME StartInv, Close PROVE StartInv'
<1> USE DEF StartInv
<1>1. ClientTypeOK'
  <2>1. connected' \in BOOLEAN /\ token' \in BOOLEAN  BY Zenon DEF Close, ClientTypeOK
  <2>2. /\ transport' \in Transports /\ rows' \in Nat /\ rowsFrom' \subseteq Transports
        /\ open' \subseteq Transports /\ flag' \subseteq Transports
        /\ faults' \in 0 .. MaxFaults
        BY DEF Close, ClientTypeOK
  <2> QED  BY <2>1, <2>2, Zenon DEF ClientTypeOK
<1>2. \A d \in Dispatchers :
        /\ disp'[d] \in Dispatcher /\ disp'[d].inbox = disp[d].inbox
        /\ disp'[d].state # "running"
  <2> SUFFICES ASSUME NEW d \in Dispatchers
               PROVE  /\ disp'[d] \in Dispatcher /\ disp'[d].inbox = disp[d].inbox
                      /\ disp'[d].state # "running"
      OBVIOUS
  <2>1. disp[d] \in Dispatcher  BY DEF DispatchersOK
  <2>2. CASE disp[d].state = "running"
    <3>1. disp'[d] = [disp[d] EXCEPT !.state = "aborted"]
          BY <2>2 DEF Close, HandleInv
    <3> QED  BY <2>1, <3>1 DEF Dispatcher, TaskStates
  <2>3. CASE disp[d].state # "running"
    <3>1. disp'[d] = disp[d]  BY <2>3 DEF Close
    <3> QED  BY <2>1, <2>3, <3>1
  <2> QED  BY <2>2, <2>3
<1>3. DispatchersOK'
  <2>1. disp' = [d \in Dispatchers |-> disp'[d]]  BY DEF Close
  <2> QED  BY <1>2, <2>1 DEF DispatchersOK
<1>4. handle' = 0 /\ pc' \in Places \ {"serving"} /\ UNCHANGED pushed
      BY DEF Close, Go, Places
<1>5. ControlOK' /\ HandleInv'  BY <1>2, <1>4 DEF ControlOK, HandleInv
<1>6. ConfigOK'  BY Zenon DEF Close, ConfigOK, config
<1> QED  BY <1>1, <1>3, <1>5, <1>6
-----------------------------------------------------------------------------
(* Events and the dispatchers' own steps leave start() and the client alone  *)
(* and no dispatcher comes to life.                                          *)
LEMMA DispatcherStepInv ==
  ASSUME StartInv, UNCHANGED <<clientVars, pc, config, handlers, handle>>,
         pushed' \in 0 .. MaxEvents,
         disp' \in [Dispatchers -> Dispatcher],
         \A d \in Dispatchers :
           /\ Len(disp'[d].inbox) <= Capacity
           /\ disp'[d].sub = disp[d].sub
           /\ \/ disp'[d].state = disp[d].state
              \/ disp'[d].state = "ended" /\ (disp[d].state # "running" \/ disp[d].sub # transport)
  PROVE  StartInv'
<1> USE DEF StartInv
<1>1. ClientTypeOK'  BY ClientKept
<1>2. DispatchersOK' /\ ControlOK'  BY DEF DispatchersOK, ControlOK
<1>3. ConfigOK'  BY Zenon DEF ConfigOK, config
<1>4. HandleInv'
  <2>1. UNCHANGED transport  BY DEF clientVars, sessionVars
  <2> QED  BY <2>1 DEF HandleInv
<1> QED  BY <1>1, <1>2, <1>3, <1>4

(* A receiver that is full loses its oldest frame and stays full. *)
LEMMA DeliveredType ==
  ASSUME NEW r \in Dispatcher, NEW e \in Events, Len(r.inbox) <= Capacity
  PROVE  /\ Delivered(r, e) \in Dispatcher
         /\ Len(Delivered(r, e).inbox) <= Capacity
         /\ Delivered(r, e).state = r.state /\ Delivered(r, e).sub = r.sub
<1>1. r.inbox \in Seq(Events) /\ Len(r.inbox) \in Nat /\ Capacity \in Nat \ {0}
      BY EventsAssumption DEF Dispatcher
<1>2. CASE Len(r.inbox) < Capacity
  <2>1. Append(r.inbox, e) \in Seq(Events) /\ Len(Append(r.inbox, e)) <= Capacity
        BY <1>1, <1>2
  <2>2. Delivered(r, e) = [r EXCEPT !.inbox = Append(@, e)]  BY <1>2 DEF Delivered
  <2> QED  BY <2>1, <2>2 DEF Dispatcher
<1>3. CASE ~(Len(r.inbox) < Capacity)
  <2>1. r.inbox # <<>>  BY <1>1, <1>3
  <2>2. Tail(r.inbox) \in Seq(Events) /\ Len(Tail(r.inbox)) = Len(r.inbox) - 1
        BY <1>1, <2>1
  <2>3. /\ Append(Tail(r.inbox), e) \in Seq(Events)
        /\ Len(Append(Tail(r.inbox), e)) <= Capacity
        BY <1>1, <2>2
  <2>4. Delivered(r, e) = [r EXCEPT !.inbox = Append(Tail(@), e), !.lagged = TRUE]
        BY <1>3 DEF Delivered
  <2> QED  BY <2>3, <2>4 DEF Dispatcher
<1> QED  BY <1>2, <1>3

LEMMA PublishInv == ASSUME StartInv, NEW t \in Transports, Publish(t) PROVE StartInv'
<1> USE DEF StartInv
<1>1. pushed + 1 \in Events /\ pushed' \in 0 .. MaxEvents
      BY EventsAssumption DEF Publish, ControlOK, Events
<1>2. ASSUME NEW d \in Dispatchers
      PROVE  /\ disp'[d] \in Dispatcher /\ Len(disp'[d].inbox) <= Capacity
             /\ disp'[d].state = disp[d].state /\ disp'[d].sub = disp[d].sub
  <2>1. disp[d] \in Dispatcher /\ Len(disp[d].inbox) <= Capacity  BY DEF DispatchersOK
  <2>2. disp'[d] = Delivered(disp[d], pushed + 1) \/ disp'[d] = disp[d]
        BY DEF Publish
  <2> QED  BY <1>1, <2>1, <2>2, DeliveredType
<1>3. disp' \in [Dispatchers -> Dispatcher]
  <2>1. disp' = [d \in Dispatchers |-> disp'[d]]  BY DEF Publish
  <2> QED  BY <1>2, <2>1
<1>4. UNCHANGED <<clientVars, pc, config, handlers, handle>>  BY DEF Publish
<1> QED  BY <1>1, <1>2, <1>3, <1>4, DispatcherStepInv

LEMMA OwnStepInv ==
  ASSUME StartInv, NEW d \in Dispatchers,
         Dispatch(d) \/ DispatcherLags(d) \/ DispatcherEnds(d)
  PROVE  StartInv'
<1> USE DEF StartInv
<1>0. disp \in [Dispatchers -> Dispatcher] /\ pushed \in 0 .. MaxEvents
      /\ \A e \in Dispatchers : Len(disp[e].inbox) <= Capacity
      BY DEF DispatchersOK, ControlOK
<1>1. UNCHANGED <<clientVars, pc, config, handlers, handle, pushed>>
      BY DEF Dispatch, DispatcherLags, DispatcherEnds
<1>2. disp[d] \in Dispatcher /\ disp[d].inbox \in Seq(Events)  BY <1>0 DEF Dispatcher
<1>3. CASE Dispatch(d)
  <2>1. Tail(disp[d].inbox) \in Seq(Events) /\ Len(Tail(disp[d].inbox)) <= Len(disp[d].inbox)
        BY <1>2, <1>3 DEF Dispatch
  <2>2. disp' = [disp EXCEPT ![d].inbox = Tail(@)]  BY <1>3 DEF Dispatch
  <2>3. Len(Tail(disp[d].inbox)) <= Capacity
        BY <1>0, <1>2, <2>1, EventsAssumption
  <2>4. [disp[d] EXCEPT !.inbox = Tail(@)] \in Dispatcher  BY <1>2, <2>1 DEF Dispatcher
  <2>5. disp' \in [Dispatchers -> Dispatcher]  BY <1>0, <2>2, <2>4
  <2>6. \A e \in Dispatchers : /\ Len(disp'[e].inbox) <= Capacity
                               /\ disp'[e].sub = disp[e].sub
                               /\ disp'[e].state = disp[e].state
        BY <1>0, <1>2, <2>2, <2>3 DEF Dispatcher
  <2> QED  BY <1>0, <1>1, <2>5, <2>6, DispatcherStepInv
<1>4. CASE DispatcherLags(d)
  <2>1. disp' = [disp EXCEPT ![d].lagged = FALSE]  BY <1>4 DEF DispatcherLags
  <2>2. [disp[d] EXCEPT !.lagged = FALSE] \in Dispatcher  BY <1>2 DEF Dispatcher
  <2>3. disp' \in [Dispatchers -> Dispatcher]  BY <1>0, <2>1, <2>2
  <2>4. \A e \in Dispatchers : /\ Len(disp'[e].inbox) <= Capacity
                               /\ disp'[e].sub = disp[e].sub
                               /\ disp'[e].state = disp[e].state
        BY <1>0, <1>2, <2>1 DEF Dispatcher
  <2> QED  BY <1>0, <1>1, <2>3, <2>4, DispatcherStepInv
<1>5. CASE DispatcherEnds(d)
  <2> DEFINE over == [disp[d] EXCEPT !.state = "ended", !.inbox = <<>>, !.lagged = FALSE]
  <2>1. disp' = [disp EXCEPT ![d] = over]
        BY <1>0, <1>5 DEF DispatcherEnds
  <2>2. /\ over \in Dispatcher /\ over.sub = disp[d].sub /\ over.state = "ended"
        /\ over.inbox = <<>>
    <3>1. "ended" \in TaskStates /\ <<>> \in Seq(Events)  BY DEF TaskStates
    <3>2. over \in Dispatcher  BY <1>2, <3>1 DEF Dispatcher
    <3>3. over.sub = disp[d].sub  BY <1>2 DEF Dispatcher
    <3>4. over.state = "ended"  BY <1>2 DEF Dispatcher
    <3>5. over.inbox = <<>>  BY <1>2 DEF Dispatcher
    <3> QED  BY <3>2, <3>3, <3>4, <3>5
  <2>3. disp[d].state # "running" \/ disp[d].sub # transport
        BY <1>5 DEF DispatcherEnds
  <2> HIDE DEF over
  <2>4. disp' \in [Dispatchers -> Dispatcher]  BY <1>0, <2>1, <2>2
  <2>5. Len(over.inbox) <= Capacity  BY <2>2, EventsAssumption
  <2>6. \A e \in Dispatchers :
          /\ Len(disp'[e].inbox) <= Capacity
          /\ disp'[e].sub = disp[e].sub
          /\ \/ disp'[e].state = disp[e].state
             \/ disp'[e].state = "ended" /\ (disp[e].state # "running" \/ disp[e].sub # transport)
        BY <1>0, <2>1, <2>2, <2>3, <2>5
  <2> QED  BY <1>0, <1>1, <2>4, <2>6, DispatcherStepInv
<1> QED  BY <1>3, <1>4, <1>5

LEMMA WireInv ==
  ASSUME StartInv, NEW t \in Transports, WireDown(t) \/ RecvLoopEnds(t),
         UNCHANGED <<pc, config, taskVars, pushed>>
  PROVE  StartInv'
<1> USE DEF StartInv
<1>1. ClientTypeOK' /\ UNCHANGED transport
      BY WireStepType, WireStepKeeps DEF WireStep
<1>2. DispatchersOK' /\ ControlOK' /\ HandleInv'
      BY <1>1 DEF DispatchersOK, ControlOK, HandleInv, taskVars
<1>3. ConfigOK'  BY Zenon DEF ConfigOK, config, taskVars
<1> QED  BY <1>1, <1>2, <1>3

LEMMA StartInvStep == StartInv /\ [Next]_vars => StartInv'
<1> SUFFICES ASSUME StartInv, [Next]_vars PROVE StartInv'  OBVIOUS
<1>1. CASE StartStep
      BY <1>1, QuietInv, StartDispatcherInv, NoticeLossInv, CloseInv
      DEF StartStep, QuietStep
<1>2. CASE \E t \in Transports : Publish(t)  BY <1>2, PublishInv
<1>3. CASE \E t \in Transports : (WireDown(t) \/ RecvLoopEnds(t))
                                 /\ UNCHANGED <<pc, config, taskVars, pushed>>
      BY <1>3, WireInv
<1>4. CASE \E d \in Dispatchers : Dispatch(d) \/ DispatcherLags(d) \/ DispatcherEnds(d)
      BY <1>4, OwnStepInv
<1>5. CASE UNCHANGED vars
  <2>1. ClientTypeOK' /\ UNCHANGED transport
        BY <1>5, ClientKept DEF StartInv, vars, clientVars, sessionVars
  <2>2. DispatchersOK' /\ ControlOK' /\ HandleInv'
        BY <1>5, <2>1 DEF StartInv, DispatchersOK, ControlOK, HandleInv, taskVars, vars
  <2>3. ConfigOK'  BY <1>5, Zenon DEF StartInv, ConfigOK, config, taskVars, vars
  <2> QED  BY <2>1, <2>2, <2>3 DEF StartInv
<1> QED  BY <1>1, <1>2, <1>3, <1>4, <1>5 DEF Next
-----------------------------------------------------------------------------
(* Every variable keeps its type, and no dispatcher's backlog passes the     *)
(* capacity of the broadcast channel.                                        *)
THEOREM TypeCorrect == Spec => []TypeOK
<1>1. StartInv => TypeOK
  <2> SUFFICES ASSUME StartInv PROVE TypeOK  OBVIOUS
  <2>1. ASSUME NEW d \in Dispatchers
        PROVE  /\ disp[d].state \in TaskStates
               /\ disp[d].sub \in Transports /\ disp[d].has \in BOOLEAN
               /\ disp[d].lagged \in BOOLEAN
               /\ disp[d].inbox \in Seq(Events) /\ Len(disp[d].inbox) <= Capacity
        BY Zenon DEF StartInv, DispatchersOK, Dispatcher
  <2> QED  BY <2>1, Zenon DEF StartInv, ControlOK, ConfigOK, TypeOK
<1> QED  BY <1>1, StartInvInit, StartInvStep, PTL DEF Spec

(* However often start() reconnects (client.rs), the only dispatcher at work *)
(* is the one whose handle close() aborts.                                   *)
THEOREM OneDispatcherAlways == Spec => []OneDispatcher
<1>1. StartInv => OneDispatcher
      BY DEF StartInv, HandleInv, OneDispatcher, Running
<1> QED  BY <1>1, StartInvInit, StartInvStep, PTL DEF Spec

(* While start() serves, a dispatcher subscribed to the transport in use is  *)
(* running: lagging behind does not end it.                                  *)
THEOREM ServingAlwaysHeard == Spec => []ServingIsHeard
<1>1. StartInv => ServingIsHeard
      BY DEF StartInv, HandleInv, ServingIsHeard, Running
<1> QED  BY <1>1, StartInvInit, StartInvStep, PTL DEF Spec
=============================================================================
