------------------------------ MODULE Transport ------------------------------
(***************************************************************************)
(* One transport object of zeromax-core: request/response matching over a  *)
(* shared pending map (send_and_wait), the receive loop, the keepalive     *)
(* loop, connect and close.  WsTransport and SocketTransport have the same *)
(* control; they differ in the key of the map (Modulus) and in how many    *)
(* frames one packet yields (FramesPerPacket).                             *)
(*                                                                         *)
(* Every task takes one step between two points at which another thread   *)
(* can run.  A transport may be connected, lost and connected again; each  *)
(* connection c has its own socket, receive task and keepalive task, while *)
(* the map, the sequence counter and the connected flag are shared by all. *)
(*                                                                         *)
(* connect and close take &mut self and send_and_wait takes &self, so the  *)
(* borrow rules exclude a caller in flight while they run: that is the     *)
(* guard NoCallerInFlight.  The background tasks are not excluded.         *)
(***************************************************************************)
EXTENDS PendingMap

CONSTANTS Callers,          \* one call of send_and_wait each
          MaxConn,          \* bound: connections one transport object opens
          PushSeqs,         \* numbers the server puts on unsolicited packets
          FramesPerPacket   \* 0: undecodable or an empty list; 2: a list

ASSUME MaxConnAssumption == MaxConn \in Nat
ASSUME PushSeqsAssumption == PushSeqs \subseteq Nat
ASSUME FramesAssumption == FramesPerPacket \subseteq Nat
ASSUME CallersAssumption == Callers \cap (1 .. MaxConn) = {}

VARIABLES
  seq,        \* the AtomicU64 counter
  connected,  \* the AtomicBool every task reads
  conn,       \* connection that `writer` belongs to, 0 when it is None
  opened,     \* connections opened so far
  wire,       \* connection -> is the peer still there
  recv,       \* connection -> where its receive loop is
  packet,     \* connection -> the packet its receive loop is dispatching
  aborted,    \* connections whose background tasks close() has aborted
  pc,         \* task -> where it is
  mine,       \* task -> number of its current request, 0 before the first
  outcome,    \* caller -> what send_and_wait returned
  reached,    \* connection -> requests written while the peer was there
  answered,   \* requests whose answer a receive loop has read
  published   \* requests whose answer went to the event subscribers

connVars   == <<connected, conn, opened, wire, aborted>>
recvVars   == <<recv, packet>>
taskVars   == <<pc, mine, outcome>>
serverVars == <<reached, answered, published>>
vars == <<mapVars, seq, connVars, recvVars, taskVars, serverVars>>

Conns == 1 .. MaxConn
Tasks == Callers \cup Conns       \* c \in Conns is the keepalive task of c

NoPacket == [key |-> 0, re |-> 0, left |-> 0]

CallerPlaces == {"idle", "numbered", "cleared", "registered", "waiting",
                 "cleanup", "done"}
PingPlaces   == {"none", "sleep", "numbered", "cleared", "registered",
                 "waiting", "exited"}
RecvPlaces   == {"none", "spawned", "head", "read", "dispatch", "leave",
                 "cancel", "exited"}
Outcomes     == {"none", "ok", "timeout", "notconnected", "sendfailed", "abandoned"}

Packets == [key : Keys, re : Seqs \cup {0}, left : Nat]

TypeOK ==
  /\ PendingTypeOK
  /\ seq \in 0 .. MaxSeq
  /\ connected \in BOOLEAN
  /\ conn \in Conns \cup {0}
  /\ opened \in Conns \cup {0}
  /\ wire \in [Conns -> {"unused", "up", "down"}]
  /\ recv \in [Conns -> RecvPlaces]
  /\ packet \in [Conns -> Packets]
  /\ aborted \subseteq Conns
  /\ pc \in [Tasks -> CallerPlaces \cup PingPlaces]
  /\ mine \in [Tasks -> Seqs \cup {0}]
  /\ outcome \in [Callers -> Outcomes]
  /\ reached \in [Conns -> SUBSET Seqs]
  /\ answered \subseteq Seqs
  /\ published \subseteq Seqs

Init ==
  /\ PendingInit
  /\ seq = 0 /\ connected = FALSE /\ conn = 0 /\ opened = 0
  /\ wire = [c \in Conns |-> "unused"]
  /\ recv = [c \in Conns |-> "none"]
  /\ packet = [c \in Conns |-> NoPacket]
  /\ aborted = {}
  /\ pc = [t \in Tasks |-> IF t \in Callers THEN "idle" ELSE "none"]
  /\ mine = [t \in Tasks |-> 0]
  /\ outcome = [r \in Callers |-> "none"]
  /\ reached = [c \in Conns |-> {}]
  /\ answered = {} /\ published = {}

NoCallerInFlight == \A r \in Callers : pc[r] \in {"idle", "done"}
WriterOf(t) == IF t \in Callers THEN conn ELSE t
Return(r, o) == /\ pc' = [pc EXCEPT ![r] = "done"]
                /\ outcome' = [outcome EXCEPT ![r] = o]
                /\ UNCHANGED mine
-----------------------------------------------------------------------------
(* connect: returns early when connected.  Otherwise the network handshake *)
(* is awaited and everything else follows without an await; nothing but    *)
(* connect sets the flag, so the test still holds when the handshake ends  *)
(* and one step is exact.  Tasks of the previous connection are not joined.*)
Connect ==
  LET c == opened + 1 IN
  /\ NoCallerInFlight
  /\ ~connected
  /\ opened < MaxConn
  /\ opened' = c /\ conn' = c /\ connected' = TRUE
  /\ wire' = [wire EXCEPT ![c] = "up"]
  /\ recv' = [recv EXCEPT ![c] = "spawned"]
  /\ pc' = [pc EXCEPT ![c] = "sleep"]
  /\ UNCHANGED <<mapVars, seq, packet, aborted, mine, outcome, serverVars>>

(* close: flag, cancel_all and abort without an await between them.  An    *)
(* abort takes effect at the aborted task's next await, so the code after  *)
(* this step may still run there.                                          *)
Close ==
  /\ NoCallerInFlight
  /\ connected' = FALSE
  /\ CancelAll
  /\ aborted' = aborted \cup ({conn} \ {0})
  /\ conn' = 0
  /\ wire' = [c \in Conns |-> IF c = conn THEN "down" ELSE wire[c]]
  /\ UNCHANGED <<seq, opened, recvVars, taskVars, serverVars>>

(* The network or the server ends the connection (external). *)
WireDown(c) ==
  /\ wire[c] = "up"
  /\ wire' = [wire EXCEPT ![c] = "down"]
  /\ UNCHANGED <<mapVars, seq, connected, conn, opened, aborted, recvVars,
                 taskVars, serverVars>>
-----------------------------------------------------------------------------
(* send_and_wait *)

(* No writer: the call is refused before a number is taken. *)
Refuse(r) ==
  /\ pc[r] = "idle" /\ conn = 0
  /\ Return(r, "notconnected")
  /\ UNCHANGED <<mapVars, seq, connVars, recvVars, serverVars>>

(* Mutant of TakeNumber: the frame is sent before the waiter is registered. *)
TakeNumberAndSend(t) ==
  /\ \/ t \in Callers /\ pc[t] = "idle" /\ conn # 0
     \/ t \in Conns /\ pc[t] = "sleep" /\ connected
  /\ seq < MaxSeq
  /\ seq' = seq + 1
  /\ mine' = [mine EXCEPT ![t] = seq + 1]
  /\ pc' = [pc EXCEPT ![t] = "numbered"]
  /\ reached' = [reached EXCEPT ![WriterOf(t)] = @ \cup {seq + 1}]
  /\ UNCHANGED <<mapVars, connVars, recvVars, outcome, answered, published>>

(* fetch_add.  A caller tests only that there is a writer, not the flag; the *)
(* keepalive task, woken by its timer, tests the flag.                       *)
TakeNumber(t) ==
  /\ \/ t \in Callers /\ pc[t] = "idle" /\ conn # 0
     \/ t \in Conns /\ pc[t] = "sleep" /\ connected
  /\ seq < MaxSeq
  /\ seq' = seq + 1
  /\ mine' = [mine EXCEPT ![t] = seq + 1]
  /\ pc' = [pc EXCEPT ![t] = "numbered"]
  /\ UNCHANGED <<mapVars, connVars, recvVars, outcome, serverVars>>

(* PendingMap::insert takes two steps: a sender already stored under the key *)
(* is removed and dropped, then the new one is stored.                       *)
MakeRoom(t) ==
  /\ pc[t] = "numbered"
  /\ Remove(Key(mine[t]))
  /\ pc' = [pc EXCEPT ![t] = "cleared"]
  /\ UNCHANGED <<seq, connVars, recvVars, mine, outcome, serverVars>>

Register(t) ==
  /\ pc[t] = "cleared"
  /\ Insert(mine[t])
  /\ pc' = [pc EXCEPT ![t] = "registered"]
  /\ UNCHANGED <<seq, connVars, recvVars, mine, outcome, serverVars>>

(* The frame is written under the writer lock.  With the peer gone the write *)
(* may still succeed into a buffer nobody reads.                             *)
Write(t) ==
  LET w == WriterOf(t) IN
  /\ pc[t] = "registered"
  /\ reached' = [c \in Conns |-> IF c = w /\ wire[c] = "up"
                                 THEN reached[c] \cup {mine[t]} ELSE reached[c]]
  /\ pc' = [pc EXCEPT ![t] = "waiting"]
  /\ UNCHANGED <<mapVars, seq, connVars, recvVars, mine, outcome,
                 answered, published>>

(* The write fails: `?` returns at once, the keepalive loop breaks.  Neither *)
(* removes the entry it has just inserted.                                   *)
WriteFails(t) ==
  /\ pc[t] = "registered"
  /\ wire[WriterOf(t)] = "down"
  /\ HangUp(mine[t])
  /\ IF t \in Callers THEN Return(t, "sendfailed")
     ELSE /\ pc' = [pc EXCEPT ![t] = "exited"]
          /\ UNCHANGED <<mine, outcome>>
  /\ UNCHANGED <<seq, connVars, recvVars, serverVars>>

(* timeout(rx) polls the receiver before the timer, so a frame that has      *)
(* arrived wins over an expired timer.                                       *)
TakeAnswer(t) ==
  /\ pc[t] = "waiting" /\ chan[mine[t]] = "full"
  /\ IF t \in Callers THEN Return(t, "ok")
     ELSE /\ pc' = [pc EXCEPT ![t] = "sleep"]
          /\ UNCHANGED <<mine, outcome>>
  /\ UNCHANGED <<mapVars, seq, connVars, recvVars, serverVars>>

(* RecvError: the sender was dropped.  A caller goes on to remove the key;   *)
(* the keepalive loop ends.                                                  *)
NoticeClosed(t) ==
  /\ pc[t] = "waiting" /\ chan[mine[t]] = "closed"
  /\ IF t \in Callers
     THEN /\ pc' = [pc EXCEPT ![t] = "cleanup"]
          /\ outcome' = [outcome EXCEPT ![t] = "notconnected"]
     ELSE /\ pc' = [pc EXCEPT ![t] = "exited"]
          /\ UNCHANGED outcome
  /\ UNCHANGED <<mapVars, seq, connVars, recvVars, mine, serverVars>>

(* Mutant of Expire: callers wait without a timer. *)
ExpireKeepaliveOnly(t) ==
  /\ t \in Conns
  /\ pc[t] = "waiting" /\ chan[mine[t]] = "open"
  /\ HangUp(mine[t])
  /\ pc' = [pc EXCEPT ![t] = "sleep"]
  /\ UNCHANGED <<seq, connVars, recvVars, mine, outcome, serverVars>>

(* The 20 s timer: the receiver is dropped.  A caller then removes the key;  *)
(* the keepalive loop only warns, leaves its entry, and sleeps again.        *)
Expire(t) ==
  /\ pc[t] = "waiting" /\ chan[mine[t]] = "open"
  /\ HangUp(mine[t])
  /\ IF t \in Callers
     THEN /\ pc' = [pc EXCEPT ![t] = "cleanup"]
          /\ outcome' = [outcome EXCEPT ![t] = "timeout"]
     ELSE /\ pc' = [pc EXCEPT ![t] = "sleep"]
          /\ UNCHANGED outcome
  /\ UNCHANGED <<seq, connVars, recvVars, mine, serverVars>>

(* Mutant of Cleanup: a failed request clears the map. *)
CleanupCancelsAll(r) ==
  /\ pc[r] = "cleanup"
  /\ CancelAll
  /\ pc' = [pc EXCEPT ![r] = "done"]
  /\ UNCHANGED <<seq, connVars, recvVars, mine, outcome, serverVars>>

(* Both error arms remove by key, whoever's entry is stored there by now. *)
Cleanup(r) ==
  /\ pc[r] = "cleanup"
  /\ Remove(Key(mine[r]))
  /\ pc' = [pc EXCEPT ![r] = "done"]
  /\ UNCHANGED <<seq, connVars, recvVars, mine, outcome, serverVars>>

(* The caller's future is dropped at one of its awaits (an aborted task, a   *)
(* select!): the receiver goes, the entry stays (external: callers).         *)
Abandon(r) ==
  /\ pc[r] \in {"registered", "waiting"}
  /\ HangUp(mine[r])
  /\ Return(r, "abandoned")
  /\ UNCHANGED <<seq, connVars, recvVars, serverVars>>
-----------------------------------------------------------------------------
(* recv_loop *)

RecvGo(c, from, to) == recv[c] \in from /\ recv' = [recv EXCEPT ![c] = to]
AtLoopHead == {"spawned", "head"}

RecvContinues(c) ==
  /\ connected /\ RecvGo(c, AtLoopHead, "read")
  /\ UNCHANGED <<mapVars, seq, connVars, packet, taskVars, serverVars>>

RecvSeesFlagDown(c) ==
  /\ ~connected /\ RecvGo(c, AtLoopHead, "leave")
  /\ UNCHANGED <<mapVars, seq, connVars, packet, taskVars, serverVars>>

(* One packet is read and turned into n frames that carry one number; with n *)
(* = 0 it is skipped.  Data received before the peer went may still be read, *)
(* the server answers in any order and each request at most once.            *)
ReadPacket(c, key, re) ==
  /\ recv[c] = "read"
  /\ \E n \in FramesPerPacket :
       /\ packet' = [packet EXCEPT ![c] = IF n = 0 THEN NoPacket
                                          ELSE [key |-> key, re |-> re, left |-> n]]
       /\ recv' = [recv EXCEPT ![c] = IF n = 0 THEN "head" ELSE "dispatch"]
  /\ answered' = answered \cup ({re} \ {0})
  /\ UNCHANGED <<mapVars, seq, connVars, taskVars, reached, published>>

ReadAnswer(c) == \E s \in reached[c] \ answered : ReadPacket(c, Key(s), s)
ReadPush(c)   == \E p \in PushSeqs : ReadPacket(c, Key(p), 0)

(* A read error, the end of the stream or a Close frame. *)
ReadFails(c) ==
  /\ wire[c] = "down" /\ RecvGo(c, {"read"}, "leave")
  /\ UNCHANGED <<mapVars, seq, connVars, packet, taskVars, serverVars>>

(* Mutants of Dispatch: frames matched by arrival; a resolved frame is also  *)
(* published; one frame too many.                                            *)
DispatchInOrder(c) ==
  LET f == packet[c] IN
  /\ recv[c] = "dispatch"
  /\ IF \E k \in Keys : pending[k] # Absent
     THEN /\ Resolve(CHOOSE k \in Keys : pending[k] # Absent, f.re)
          /\ UNCHANGED published
     ELSE /\ published' = published \cup ({f.re} \ {0})
          /\ UNCHANGED mapVars
  /\ packet' = [packet EXCEPT ![c] = NoPacket]
  /\ recv' = [recv EXCEPT ![c] = "head"]
  /\ UNCHANGED <<seq, connVars, taskVars, reached, answered>>
DispatchPublishesAll(c) ==
  LET f == packet[c] IN
  /\ recv[c] = "dispatch"
  /\ IF pending[f.key] # Absent THEN Resolve(f.key, f.re) ELSE UNCHANGED mapVars
  /\ published' = published \cup ({f.re} \ {0})
  /\ packet' = [packet EXCEPT ![c] = NoPacket]
  /\ recv' = [recv EXCEPT ![c] = "head"]
  /\ UNCHANGED <<seq, connVars, taskVars, reached, answered>>
DispatchOneTooMany(c) ==
  /\ recv[c] = "dispatch"
  /\ packet' = [packet EXCEPT ![c].left = @ - 1]
  /\ UNCHANGED <<mapVars, seq, connVars, recv, taskVars, serverVars>>

(* One frame: to whoever is pending under its key, whatever its opcode, or   *)
(* else to the event subscribers.                                            *)
Dispatch(c) ==
  LET f == packet[c] IN
  /\ recv[c] = "dispatch"
  /\ IF pending[f.key] # Absent
     THEN Resolve(f.key, f.re) /\ UNCHANGED published
     ELSE /\ published' = published \cup ({f.re} \ {0})
          /\ UNCHANGED mapVars
  /\ IF f.left > 1
     THEN packet' = [packet EXCEPT ![c].left = @ - 1] /\ UNCHANGED recv
     ELSE /\ packet' = [packet EXCEPT ![c] = NoPacket]
          /\ recv' = [recv EXCEPT ![c] = "head"]
  /\ UNCHANGED <<seq, connVars, taskVars, reached, answered>>

(* After the loop: the flag, then, as a second step, the map.  Both belong   *)
(* to the whole transport, also when a newer connection is in use by now.    *)
RecvLowersFlag(c) ==
  /\ RecvGo(c, {"leave"}, "cancel")
  /\ connected' = FALSE
  /\ UNCHANGED <<mapVars, seq, conn, opened, wire, aborted, packet, taskVars,
                 serverVars>>

RecvCancelsAll(c) ==
  /\ RecvGo(c, {"cancel"}, "exited")
  /\ CancelAll
  /\ UNCHANGED <<seq, connVars, packet, taskVars, serverVars>>

(* The abort of close() reaches a task that was never polled, or is at its   *)
(* only await.                                                               *)
RecvKilled(c) ==
  /\ c \in aborted /\ RecvGo(c, {"spawned", "read"}, "exited")
  /\ UNCHANGED <<mapVars, seq, connVars, packet, taskVars, serverVars>>
-----------------------------------------------------------------------------
(* ping_loop; its request goes through TakeNumber ... Expire above. *)

PingSeesFlagDown(c) ==
  /\ pc[c] = "sleep" /\ ~connected
  /\ pc' = [pc EXCEPT ![c] = "exited"]
  /\ UNCHANGED <<mapVars, seq, connVars, recvVars, mine, outcome, serverVars>>

PingKilled(c) ==
  /\ c \in aborted
  /\ pc[c] \in {"sleep", "registered", "waiting"}
  /\ pc' = [pc EXCEPT ![c] = "exited"]
  /\ IF pc[c] = "sleep" THEN UNCHANGED mapVars ELSE HangUp(mine[c])
  /\ UNCHANGED <<seq, connVars, recvVars, mine, outcome, serverVars>>
-----------------------------------------------------------------------------
TaskStep(t) == \/ TakeNumber(t) \/ MakeRoom(t) \/ Register(t) \/ Write(t)
               \/ WriteFails(t) \/ TakeAnswer(t) \/ NoticeClosed(t) \/ Expire(t)

CallerStep(r) == TaskStep(r) \/ Refuse(r) \/ Cleanup(r) \/ Abandon(r)

PingStep(c) == TaskStep(c) \/ PingSeesFlagDown(c) \/ PingKilled(c)

RecvStep(c) == \/ RecvContinues(c) \/ RecvSeesFlagDown(c)
               \/ ReadAnswer(c) \/ ReadPush(c) \/ ReadFails(c) \/ Dispatch(c)
               \/ RecvLowersFlag(c) \/ RecvCancelsAll(c) \/ RecvKilled(c)

Next == \/ Connect \/ Close
        \/ \E r \in Callers : CallerStep(r)
        \/ \E c \in Conns : PingStep(c) \/ RecvStep(c) \/ WireDown(c)

Spec == Init /\ [][Next]_vars

(* A caller's own task goes on: the executor runs a woken task, the timer    *)
(* fires, and a write ends, for good or bad.  The last is an assumption on   *)
(* the peer: the write is outside the timeout, so a peer that keeps the      *)
(* connection and stops reading would block the call for ever.               *)
CallerGoesOn(r) == \/ MakeRoom(r) \/ Register(r) \/ Write(r) \/ WriteFails(r)
                   \/ TakeAnswer(r) \/ NoticeClosed(r) \/ Expire(r) \/ Cleanup(r)

CallerFairness == \A r \in Callers : WF_vars(CallerGoesOn(r))

FairSpec == Spec /\ CallerFairness
-----------------------------------------------------------------------------
(* Properties *)

(* The call as its caller sees it: send_and_wait implements RequestResponse. *)
Answered(r) == got[mine[r]] = mine[r]

CallOf(r) == CASE pc[r] = "idle" -> "new"
               [] pc[r] = "done" /\ outcome[r] = "ok" /\ Answered(r) -> "answered"
               [] pc[r] = "done" /\ outcome[r] = "ok" /\ ~Answered(r) -> "misled"
               [] pc[r] = "done" /\ outcome[r] # "ok" -> "failed"
               [] OTHER -> "open"

Seen == {r \in Callers : \E c \in Conns : mine[r] \in reached[c]}

RR == INSTANCE RequestResponse WITH call <- [r \in Callers |-> CallOf(r)],
                                    seen <- Seen

(* Each call ends once, with an answer the server gave to that request, with *)
(* another frame of its number (OwnAnswer says which), or with an error;     *)
(* and, on the fair specification, each call that was started ends.          *)
ImplementsRequestResponse == RR!FairSpec

(* A request returns the answer the server gave to that very request, or a   *)
(* frame that bore its key for one of two reasons: a push numbered like it   *)
(* (frames are matched by number alone, websocket.rs 226), or the late       *)
(* answer to another request with that key which waits no longer (socket.rs  *)
(* 127).  An answer is never taken from a request that still waits for it or *)
(* is about to, also when keys are used again.                               *)
OwnAnswer ==
  \A r \in Callers : outcome[r] = "ok" =>
    LET s == mine[r]
        g == got[s] IN
    \/ g = s
    \/ g = 0 /\ \E p \in PushSeqs : Key(p) = Key(s)
    \/ g # 0 /\ Key(g) = Key(s) /\ chan[g] \notin {"unused", "open"}

(* The answer to a request that still waits, or is about to, never goes to   *)
(* the event subscribers instead: the waiter is registered before the frame  *)
(* is written and stays registered as long as it waits.                      *)
NoAnswerMissed ==
  \A s \in published : chan[s] \notin {"unused", "open"}

(* One frame has one destination: an answer a request received is not also   *)
(* published as an event.                                                    *)
OneDestination ==
  \A s \in published : ~(chan[s] = "full" /\ got[s] = s)

(* A waiting request is told NotConnected for one of three reasons: close    *)
(* ran, which no caller outlives; a receive loop ended after a connection of *)
(* this object was really lost; or another request with the very same key    *)
(* registered or cleaned up (pending.rs 28-33, socket.rs 148), which no      *)
(* request of WebSocket has.                                                 *)
CancelledOnlyOnLoss ==
  [][\A s \in Seqs : chan[s] = "open" /\ chan'[s] = "closed"
       => \/ conn' = 0 /\ UNCHANGED <<pc, recv>>
          \/ /\ \E c \in Conns : recv[c] = "cancel" /\ recv'[c] = "exited"
             /\ \E b \in Conns : wire[b] = "down"
          \/ \E t \in Tasks : /\ pc[t] \in {"numbered", "cleared", "cleanup"}
                              /\ pc'[t] # pc[t]
                              /\ mine[t] # s /\ Key(mine[t]) = Key(s)]_vars
=============================================================================
