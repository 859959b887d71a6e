------------------------------ MODULE MaxClient ------------------------------
(***************************************************************************)
(* The connection state of zeromax-core's MaxClient (client.rs): the        *)
(* transport object it owns, the flags, the token and the chat lists, with *)
(* the steps of connect() as operators.  ClientStart and FfiSession drive  *)
(* them.                                                                   *)
(*                                                                         *)
(* A transport object appears here only by whether its socket is open and  *)
(* whether its connected flag is up; what goes on inside is Transport.tla. *)
(* Objects that are gone are reused, so that the client can replace its    *)
(* transport any number of times; which of them is taken does not matter.  *)
(***************************************************************************)
EXTENDS Integers, FiniteSets

CONSTANTS Transports,   \* transport objects
          MaxFaults     \* bound: connections lost and requests refused

ASSUME TransportsAssumption == Transports # {}
ASSUME MaxFaultsAssumption  == MaxFaults \in Nat

VARIABLES transport,  \* the object the client owns
          open,       \* objects whose socket is connected to the server
          flag,       \* objects whose connected flag is up
          connected,  \* MaxClient.connected
          token,      \* a token is in memory
          rows,       \* syncs whose chats the lists hold
          rowsFrom,   \* transports those syncs used (history)
          faults      \* faults so far

wireVars    == <<open, flag, faults>>
sessionVars == <<transport, connected, rows, rowsFrom>>
clientVars  == <<wireVars, sessionVars, token>>

ClientTypeOK == /\ transport \in Transports
                /\ open \subseteq Transports /\ flag \subseteq Transports
                /\ connected \in BOOLEAN /\ token \in BOOLEAN
                /\ rows \in Nat /\ rowsFrom \subseteq Transports
                /\ faults \in 0 .. MaxFaults

NewObject(S) == CHOOSE t \in S : TRUE

ClientInit == /\ transport = NewObject(Transports)
              /\ open = {} /\ flag = {}
              /\ connected = FALSE /\ token \in BOOLEAN
              /\ rows = 0 /\ rowsFrom = {} /\ faults = 0

IsConnected == connected /\ transport \in flag
-----------------------------------------------------------------------------
(* The network and the server (external) *)

Fault == faults < MaxFaults /\ faults' = faults + 1

WireDown(t) == /\ t \in open /\ Fault
               /\ open' = open \ {t}
               /\ UNCHANGED <<flag, sessionVars, token>>

(* The receive loop of a lost connection ends and lowers the flag. *)
RecvLoopEnds(t) == /\ t \in flag \ open
                   /\ flag' = flag \ {t}
                   /\ UNCHANGED <<open, faults, sessionVars, token>>

(* A request on the client's transport is answered; or it is refused: the    *)
(* connection is lost, the answer is an error, or none comes in time.        *)
Answered == transport \in open
Refused  == IF transport \in open THEN Fault ELSE UNCHANGED faults
-----------------------------------------------------------------------------
(* The steps of connect() *)

(* Transport::connect: nothing to do while the object's flag is up. *)
TransportConnects ==
  /\ IF transport \in flag THEN UNCHANGED <<open, flag>>
     ELSE open' = open \cup {transport} /\ flag' = flag \cup {transport}
  /\ UNCHANGED <<faults, sessionVars, token>>

TransportFails == transport \notin flag /\ UNCHANGED clientVars

HandshakeOk == /\ Answered
               /\ connected' = (IF token THEN connected ELSE TRUE)
               /\ UNCHANGED <<wireVars, transport, rows, rowsFrom, token>>

RequestFails == Refused /\ UNCHANGED <<open, flag, sessionVars, token>>

(* sync: appends every chat of the answer to the lists. *)
SyncRows == rows' = rows + 1 /\ rowsFrom' = rowsFrom \cup {transport}

SyncOk == /\ Answered
          /\ SyncRows
          /\ connected' = TRUE
          /\ UNCHANGED <<wireVars, transport, token>>

(* Mutant of ResetOn: the lists are kept. *)
ResetKeepsLists(S) == /\ S # {} /\ transport' = NewObject(S) /\ connected' = FALSE
                      /\ UNCHANGED <<wireVars, rows, rowsFrom, token>>

(* reset_for_reconnect: empty lists and a new transport object, out of those *)
(* in S.  The old one is dropped as it is; its background tasks live on.     *)
ResetOn(S) == /\ S # {} /\ transport' = NewObject(S) /\ connected' = FALSE
              /\ rows' = 0 /\ rowsFrom' = {}
              /\ UNCHANGED <<wireVars, token>>

(* The lists hold one copy of each chat, and that from the session in use.   *)
RowsOfThisSession == rows <= 1 /\ rowsFrom \subseteq {transport}
=============================================================================
