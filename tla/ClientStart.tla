----------------------------- MODULE ClientStart -----------------------------
(***************************************************************************)
(* MaxClient::start (client.rs): connect, start the event dispatcher, wait *)
(* until the connection is lost, close, replace the transport, and again;  *)
(* with the event dispatchers (event/mod.rs) it leaves behind.             *)
(*                                                                         *)
(* An event is a number; one handler list stands for the lists of the      *)
(* registry.  The broadcast channel keeps the last Capacity frames.        *)
(***************************************************************************)
EXTENDS MaxClient, Sequences

CONSTANTS MaxEvents,  \* bound: events the server pushes
          Capacity    \* of the broadcast channel (256)

ASSUME EventsAssumption == MaxEvents \in Nat /\ Capacity \in Nat \ {0}

VARIABLES pc,         \* where start() is
          reconnect,  \* config.reconnect
          registered, \* the user registered handlers before start (history)
          handlers,   \* client.handlers holds them
          handle,     \* dispatcher_handle, 0 for None
          disp,       \* the dispatcher tasks
          pushed      \* events pushed so far

taskVars  == <<handlers, handle, disp>>
config    == <<reconnect, registered>>
vars == <<clientVars, pc, config, taskVars, pushed>>

Dispatchers == 1 .. MaxFaults + 1
Events == 1 .. MaxEvents
Places == {"connect", "handshake", "sync", "retry", "subscribe", "serving",
           "close", "reset", "returned"}

TaskStates == {"none", "running", "aborted", "ended"}

TypeOK == /\ ClientTypeOK
          /\ pc \in Places
          /\ reconnect \in BOOLEAN /\ registered \in BOOLEAN
          /\ handlers \in BOOLEAN
          /\ handle \in Dispatchers \cup {0}
          /\ \A d \in Dispatchers :
               /\ disp[d].state \in TaskStates
               /\ disp[d].sub \in Transports /\ disp[d].has \in BOOLEAN
               /\ disp[d].lagged \in BOOLEAN
               /\ disp[d].inbox \in Seq(Events) /\ Len(disp[d].inbox) <= Capacity
          /\ pushed \in 0 .. MaxEvents

Init ==
  /\ ClientInit /\ pc = "connect"
  /\ reconnect \in BOOLEAN /\ registered \in BOOLEAN /\ handlers = registered
  /\ handle = 0
  /\ disp = [d \in Dispatchers |->
               [state |-> "none", sub |-> transport, has |-> FALSE, inbox |-> <<>>,
                lagged |-> FALSE]]
  /\ pushed = 0

Go(from, to) == pc = from /\ pc' = to
-----------------------------------------------------------------------------
(* start() *)

ConnectTransport == /\ Go("connect", "handshake") /\ TransportConnects
                    /\ UNCHANGED <<config, taskVars, pushed>>

Handshake == /\ Go("handshake", IF token THEN "sync" ELSE "subscribe")
             /\ HandshakeOk
             /\ UNCHANGED <<config, taskVars, pushed>>

Sync == /\ Go("sync", "subscribe") /\ SyncOk
        /\ UNCHANGED <<config, taskVars, pushed>>

(* Mutant of ConnectErr: the first error ends the loop. *)
ConnectErrReturns ==
  /\ \/ pc = "connect" /\ TransportFails
     \/ pc \in {"handshake", "sync"} /\ RequestFails
  /\ pc' = "returned"
  /\ UNCHANGED <<config, taskVars, pushed>>

(* connect() returned an error: sleep and try again on the same transport. *)
ConnectErr ==
  /\ \/ pc = "connect" /\ TransportFails
     \/ pc \in {"handshake", "sync"} /\ RequestFails
  /\ pc' = IF reconnect THEN "retry" ELSE "returned"
  /\ UNCHANGED <<config, taskVars, pushed>>

RetryDelayOver == /\ Go("retry", "connect")
                  /\ UNCHANGED <<clientVars, config, taskVars, pushed>>

(* start_dispatcher: subscribes, and takes the handlers out of the client. *)
StartDispatcher ==
  /\ Go("subscribe", "serving")
  /\ \E d \in Dispatchers :
       /\ disp[d].state = "none" /\ \A e \in 1 .. d - 1 : disp[e].state # "none"
       /\ disp' = [disp EXCEPT ![d] = [state |-> "running", sub |-> transport,
                                       has |-> handlers, inbox |-> <<>>,
                                       lagged |-> FALSE]]
       /\ handle' = d
  /\ handlers' = FALSE
  /\ UNCHANGED <<clientVars, config, pushed>>

(* The wait loop asks the transport, once a second. *)
NoticeLoss == /\ Go("serving", "close") /\ transport \notin flag
              /\ UNCHANGED <<clientVars, config, taskVars, pushed>>

(* Mutant of Close: the dispatcher is not aborted. *)
CloseLeavesDispatcher ==
  /\ Go("close", IF reconnect THEN "reset" ELSE "returned")
  /\ connected' = FALSE /\ handle' = 0
  /\ open' = open \ {transport} /\ flag' = flag \ {transport}
  /\ UNCHANGED <<faults, transport, rows, rowsFrom, token, config,
                 handlers, disp, pushed>>

(* close: the flag, the dispatcher, the transport. *)
Close ==
  /\ Go("close", IF reconnect THEN "reset" ELSE "returned")
  /\ connected' = FALSE
  /\ disp' = [d \in Dispatchers |-> IF d = handle /\ disp[d].state = "running"
                                    THEN [disp[d] EXCEPT !.state = "aborted"]
                                    ELSE disp[d]]
  /\ handle' = 0
  /\ open' = open \ {transport} /\ flag' = flag \ {transport}
  /\ UNCHANGED <<faults, transport, rows, rowsFrom, token, config, handlers,
                 pushed>>

AtWork(d) == disp[d].state \in {"running", "aborted"}
Subscribed(t) == {d \in Dispatchers : AtWork(d) /\ disp[d].sub = t}

(* start() resets inline what reset_for_reconnect resets, and sleeps. *)
Reset == /\ Go("reset", "retry")
         /\ ResetOn({t \in Transports \ ({transport} \cup open \cup flag) :
                       Subscribed(t) = {}})
         /\ UNCHANGED <<config, taskVars, pushed>>

StartStep == \/ ConnectTransport \/ Handshake \/ Sync \/ ConnectErr
             \/ RetryDelayOver \/ StartDispatcher \/ NoticeLoss \/ Close \/ Reset
-----------------------------------------------------------------------------
(* Events *)

(* Mutant of Delivered: the channel has no bound. *)
DeliveredUnbounded(r, e) == [r EXCEPT !.inbox = Append(@, e)]

(* A receiver that is behind loses the oldest frame and is told that it lags. *)
Delivered(r, e) ==
  IF Len(r.inbox) < Capacity
  THEN [r EXCEPT !.inbox = Append(@, e)]
  ELSE [r EXCEPT !.inbox = Append(Tail(@), e), !.lagged = TRUE]

(* The receive loop of t publishes an event, perhaps one received before the *)
(* connection was lost; without subscribers the event is lost.               *)
Publish(t) ==
  /\ t \in flag /\ pushed < MaxEvents
  /\ pushed' = pushed + 1
  /\ disp' = [d \in Dispatchers |->
                IF d \in Subscribed(t)
                THEN Delivered(disp[d], pushed + 1)
                ELSE disp[d]]
  /\ UNCHANGED <<clientVars, pc, config, handlers, handle>>

(* Mutant of DispatcherLags: the error ends the dispatcher. *)
LagEndsDispatcher(d) ==
  /\ AtWork(d) /\ disp[d].lagged
  /\ disp' = [disp EXCEPT ![d].lagged = FALSE, ![d].state = "ended"]
  /\ UNCHANGED <<clientVars, pc, config, handlers, handle, pushed>>

(* Lagged: the dispatcher warns and goes on. *)
DispatcherLags(d) ==
  /\ AtWork(d) /\ disp[d].lagged
  /\ disp' = [disp EXCEPT ![d].lagged = FALSE]
  /\ UNCHANGED <<clientVars, pc, config, handlers, handle, pushed>>

(* The dispatcher takes a frame and spawns the handlers on it.  An aborted   *)
(* task that is not at a pending await may still do so.                      *)
Dispatch(d) ==
  /\ AtWork(d) /\ ~disp[d].lagged /\ disp[d].inbox # <<>>
  /\ disp' = [disp EXCEPT ![d].inbox = Tail(@)]
  /\ UNCHANGED <<clientVars, pc, config, handlers, handle, pushed>>

(* The abort takes effect; or every sender of the channel is gone.           *)
DispatcherEnds(d) ==
  /\ \/ disp[d].state = "aborted"
     \/ /\ disp[d].state = "running" /\ disp[d].inbox = <<>> /\ ~disp[d].lagged
        /\ disp[d].sub # transport /\ disp[d].sub \notin flag
  /\ disp' = [disp EXCEPT ![d].state = "ended", ![d].inbox = <<>>,
                          ![d].lagged = FALSE]
  /\ UNCHANGED <<clientVars, pc, config, handlers, handle, pushed>>
-----------------------------------------------------------------------------
Next ==
  \/ StartStep
  \/ \E t \in Transports :
       \/ Publish(t)
       \/ (WireDown(t) \/ RecvLoopEnds(t)) /\ UNCHANGED <<pc, config, taskVars, pushed>>
  \/ \E d \in Dispatchers : Dispatch(d) \/ DispatcherLags(d) \/ DispatcherEnds(d)

Spec == Init /\ [][Next]_vars

(* start() runs, and a connection that is tried again and again succeeds in  *)
(* the end; tasks run.                                                       *)
FairSpec ==
  /\ Spec /\ WF_vars(StartStep)
  /\ SF_vars(ConnectTransport) /\ SF_vars(Handshake) /\ SF_vars(Sync)
  /\ \A t \in Transports :
       WF_vars(RecvLoopEnds(t) /\ UNCHANGED <<pc, config, taskVars, pushed>>)
  /\ \A d \in Dispatchers : /\ WF_vars(Dispatch(d) \/ DispatcherLags(d))
                             /\ WF_vars(DispatcherEnds(d))
-----------------------------------------------------------------------------
(* Properties *)

Running == {d \in Dispatchers : disp[d].state = "running"}

(* However often the connection is lost, one dispatcher at most is at work,  *)
(* the one that close() will abort: none is left behind to handle the events *)
(* of a session that is over.                                                *)
OneDispatcher == \A d \in Running : d = handle

(* While start() serves, a dispatcher listens to the transport in use, also  *)
(* after a lag.                                                              *)
ServingIsHeard ==
  pc = "serving" => \E d \in Running : disp[d].sub = transport

(* start() with reconnect never gives up: it ends up serving again. *)
KeepsServing == reconnect => <>[](pc = "serving")

(* Incoming notifications are routed to the registered handlers, also after  *)
(* a reconnect.                                                              *)
HandlersKept == \A d \in Running : disp[d].has = registered
=============================================================================
