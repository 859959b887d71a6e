--------------------------- MODULE TransportProofs ---------------------------
(***************************************************************************)
(* What holds of Transport for every number of callers, connections and    *)
(* requests, for every Modulus and whatever numbers the server puts on its *)
(* pushes.  Only OneDestinationEach assumes more, and says so.             *)
(***************************************************************************)
EXTENDS Transport, TLAPS

(* A task that has been given a number keeps it while it uses it. *)
NumberTaken ==
  \A t \in Tasks : pc[t] \in {"numbered", "cleared", "registered", "waiting", "cleanup"}
                     => mine[t] \in Seqs

TypeInv == TypeOK /\ NumberTaken
-----------------------------------------------------------------------------
(* The key of a number is a key of the map. *)
LEMMA KeyInKeys == ASSUME NEW s \in Nat PROVE Key(s) \in Keys
  BY ModulusAssumption DEF Key, Keys

(* Dropping senders changes channels from open to closed and nothing else. *)
LEMMA DroppedType ==
  ASSUME PendingTypeOK, NEW S
  PROVE  SendersDropped(S) \in [Seqs -> ChanStates]
  BY DEF PendingTypeOK, SendersDropped, ChanStates

(* Every operation of the map keeps its type. *)
LEMMA InsertType ==
  ASSUME PendingTypeOK, NEW s \in Seqs, Insert(s)
  PROVE  PendingTypeOK'
<1>1. Key(s) \in Keys  BY KeyInKeys, MaxSeqAssumption DEF Seqs
<1>2. SendersDropped({pending[Key(s)]}) \in [Seqs -> ChanStates]  BY DroppedType
<1> QED  BY <1>1, <1>2 DEF Insert, PendingTypeOK, ChanStates

LEMMA ResolveType ==
  ASSUME PendingTypeOK, NEW k \in Keys, NEW re \in Seqs \cup {0}, Resolve(k, re)
  PROVE  PendingTypeOK'
  BY DEF Resolve, PendingTypeOK, ChanStates, Absent

LEMMA RemoveType ==
  ASSUME PendingTypeOK, NEW k \in Keys, Remove(k)
  PROVE  PendingTypeOK'
<1>1. SendersDropped({pending[k]}) \in [Seqs -> ChanStates]  BY DroppedType
<1> QED  BY <1>1 DEF Remove, PendingTypeOK

LEMMA CancelAllType ==
  ASSUME PendingTypeOK, CancelAll
  PROVE  PendingTypeOK'
<1>1. SendersDropped({pending[k] : k \in Keys}) \in [Seqs -> ChanStates]
      BY DroppedType
<1> QED  BY <1>1 DEF CancelAll, PendingTypeOK

LEMMA HangUpType ==
  ASSUME PendingTypeOK, NEW s \in Seqs, HangUp(s)
  PROVE  PendingTypeOK'
  BY DEF HangUp, PendingTypeOK, ChanStates

LEMMA MapUnchangedType ==
  ASSUME PendingTypeOK, UNCHANGED mapVars
  PROVE  PendingTypeOK'
  BY DEF mapVars, PendingTypeOK
-----------------------------------------------------------------------------
(* Initially. *)
LEMMA TypeInit == Init => TypeInv
<1> SUFFICES ASSUME Init PROVE TypeInv  OBVIOUS
<1>1. PendingTypeOK
      BY ModulusAssumption DEF Init, PendingInit, PendingTypeOK, ChanStates, Absent
<1>2. packet \in [Conns -> Packets]
  <2>1. 0 \in Keys  BY ModulusAssumption DEF Keys
  <2> QED  BY <2>1 DEF Init, NoPacket, Packets
<1>3. seq \in 0 .. MaxSeq  BY MaxSeqAssumption DEF Init
<1>4. pc \in [Tasks -> CallerPlaces \cup PingPlaces]
      BY DEF Init, CallerPlaces, PingPlaces
<1>5. NumberTaken  BY DEF Init, NumberTaken
<1>6. TypeOK
      BY <1>1, <1>2, <1>3, <1>4 DEF Init, TypeOK, RecvPlaces, Outcomes
<1> QED  BY <1>5, <1>6 DEF TypeInv

(* Every step. *)
LEMMA TypeStep == TypeInv /\ [Next]_vars => TypeInv'
<1> SUFFICES ASSUME TypeInv, [Next]_vars PROVE TypeInv'  OBVIOUS
<1> USE DEF TypeInv, TypeOK, NumberTaken, CallerPlaces, PingPlaces, RecvPlaces,
            Outcomes, Tasks, connVars, recvVars, taskVars, serverVars, Return
<1>1. CASE Connect
  <2>1. PendingTypeOK'  BY <1>1, MapUnchangedType DEF Connect
  <2>2. opened + 1 \in Conns  BY <1>1, MaxConnAssumption DEF Connect, Conns
  <2> QED  BY <1>1, <2>1, <2>2, CallersAssumption DEF Connect, Conns
<1>2. CASE Close
  <2>1. PendingTypeOK'  BY <1>2, CancelAllType DEF Close
  <2> QED  BY <1>2, <2>1 DEF Close
<1>3. ASSUME NEW c \in Conns, WireDown(c) PROVE TypeInv'
  <2>1. PendingTypeOK'  BY <1>3, MapUnchangedType DEF WireDown
  <2> QED  BY <1>3, <2>1 DEF WireDown
<1>4. ASSUME NEW t \in Tasks, TaskStep(t) PROVE TypeInv'
  <2>1. CASE TakeNumber(t)
    <3>1. PendingTypeOK'  BY <2>1, MapUnchangedType DEF TakeNumber
    <3>2. seq + 1 \in Seqs /\ seq + 1 \in 0 .. MaxSeq
          BY <2>1, MaxSeqAssumption DEF TakeNumber, Seqs
    <3> QED  BY <2>1, <3>1, <3>2 DEF TakeNumber
  <2>2. CASE Register(t)
    <3>1. PendingTypeOK'  BY <2>2, InsertType DEF Register
    <3> QED  BY <2>2, <3>1 DEF Register
  <2>8. CASE MakeRoom(t)
    <3>1. Key(mine[t]) \in Keys
          BY <2>8, KeyInKeys, MaxSeqAssumption DEF MakeRoom, Seqs
    <3>2. PendingTypeOK'  BY <2>8, <3>1, RemoveType DEF MakeRoom
    <3> QED  BY <2>8, <3>2 DEF MakeRoom
  <2>3. CASE Write(t)
    <3>1. PendingTypeOK'  BY <2>3, MapUnchangedType DEF Write
    <3> QED  BY <2>3, <3>1 DEF Write
  <2>4. CASE WriteFails(t)
    <3>1. PendingTypeOK'  BY <2>4, HangUpType DEF WriteFails
    <3> QED  BY <2>4, <3>1 DEF WriteFails
  <2>5. CASE TakeAnswer(t)
    <3>1. PendingTypeOK'  BY <2>5, MapUnchangedType DEF TakeAnswer
    <3> QED  BY <2>5, <3>1 DEF TakeAnswer
  <2>6. CASE NoticeClosed(t)
    <3>1. PendingTypeOK'  BY <2>6, MapUnchangedType DEF NoticeClosed
    <3> QED  BY <2>6, <3>1 DEF NoticeClosed
  <2>7. CASE Expire(t)
    <3>1. PendingTypeOK'  BY <2>7, HangUpType DEF Expire
    <3> QED  BY <2>7, <3>1 DEF Expire
  <2> QED  BY <1>4, <2>1, <2>2, <2>3, <2>4, <2>5, <2>6, <2>7, <2>8 DEF TaskStep
<1>5. ASSUME NEW r \in Callers, Refuse(r) \/ Cleanup(r) \/ Abandon(r)
      PROVE TypeInv'
  <2>1. CASE Refuse(r)
    <3>1. PendingTypeOK'  BY <2>1, MapUnchangedType DEF Refuse
    <3> QED  BY <2>1, <3>1 DEF Refuse
  <2>2. CASE Cleanup(r)
    <3>1. Key(mine[r]) \in Keys
          BY <2>2, KeyInKeys, MaxSeqAssumption DEF Cleanup, Seqs
    <3>2. PendingTypeOK'  BY <2>2, <3>1, RemoveType DEF Cleanup
    <3> QED  BY <2>2, <3>2 DEF Cleanup
  <2>3. CASE Abandon(r)
    <3>1. PendingTypeOK'  BY <2>3, HangUpType DEF Abandon
    <3> QED  BY <2>3, <3>1 DEF Abandon
  <2> QED  BY <1>5, <2>1, <2>2, <2>3
<1>6. ASSUME NEW c \in Conns, PingSeesFlagDown(c) \/ PingKilled(c)
      PROVE TypeInv'
  <2>1. CASE PingSeesFlagDown(c)
    <3>1. PendingTypeOK'  BY <2>1, MapUnchangedType DEF PingSeesFlagDown
    <3> QED  BY <2>1, <3>1 DEF PingSeesFlagDown
  <2>2. CASE PingKilled(c)
    <3>1. PendingTypeOK'
          BY <2>2, HangUpType, MapUnchangedType DEF PingKilled
    <3> QED  BY <2>2, <3>1 DEF PingKilled
  <2> QED  BY <1>6, <2>1, <2>2
<1>7. ASSUME NEW c \in Conns, RecvStep(c) PROVE TypeInv'
  <2> USE DEF RecvGo
  <2>1. CASE RecvContinues(c) \/ RecvSeesFlagDown(c) \/ ReadFails(c) \/ RecvKilled(c)
    <3>1. PendingTypeOK'
          BY <2>1, MapUnchangedType
          DEF RecvContinues, RecvSeesFlagDown, ReadFails, RecvKilled
    <3> QED  BY <2>1, <3>1 DEF RecvContinues, RecvSeesFlagDown, ReadFails, RecvKilled
  <2>2. ASSUME NEW key \in Keys, NEW re \in Seqs \cup {0}, ReadPacket(c, key, re)
        PROVE TypeInv'
    <3>1. PendingTypeOK'  BY <2>2, MapUnchangedType DEF ReadPacket
    <3>2. 0 \in Keys  BY ModulusAssumption DEF Keys
    <3>3. packet' \in [Conns -> Packets]
          BY <2>2, <3>2, FramesAssumption DEF ReadPacket, Packets, NoPacket
    <3> QED  BY <2>2, <3>1, <3>3 DEF ReadPacket
  <2>3. CASE ReadAnswer(c)
    <3>1. PICK s \in reached[c] \ answered : ReadPacket(c, Key(s), s)
          BY <2>3 DEF ReadAnswer
    <3>2. s \in Seqs /\ Key(s) \in Keys  BY KeyInKeys, MaxSeqAssumption DEF Seqs
    <3> QED  BY <3>1, <3>2, <2>2
  <2>4. CASE ReadPush(c)
    <3>1. PICK p \in PushSeqs : ReadPacket(c, Key(p), 0)  BY <2>4 DEF ReadPush
    <3>2. Key(p) \in Keys  BY KeyInKeys, PushSeqsAssumption
    <3> QED  BY <3>1, <3>2, <2>2
  <2>5. CASE Dispatch(c)
    <3>1. packet[c] \in Packets  OBVIOUS
    <3>2. packet[c].key \in Keys /\ packet[c].re \in Seqs \cup {0} /\ packet[c].left \in Nat
          BY <3>1 DEF Packets
    <3>3. PendingTypeOK'
          BY <2>5, <3>2, ResolveType, MapUnchangedType DEF Dispatch
    <3>4. 0 \in Keys  BY ModulusAssumption DEF Keys
    <3>5. packet' \in [Conns -> Packets]
      <4>1. CASE packet[c].left > 1
        <5>1. packet' = [packet EXCEPT ![c].left = @ - 1]  BY <2>5, <4>1 DEF Dispatch
        <5>2. packet[c].left - 1 \in Nat  BY <3>2, <4>1
        <5> QED  BY <3>1, <5>1, <5>2 DEF Packets
      <4>2. CASE ~(packet[c].left > 1)
            BY <2>5, <3>4, <4>2 DEF Dispatch, Packets, NoPacket
      <4> QED  BY <4>1, <4>2
    <3>6. published' \subseteq Seqs  BY <2>5, <3>2 DEF Dispatch, mapVars
    <3>7. recv' \in [Conns -> RecvPlaces]  BY <2>5 DEF Dispatch
    <3> QED  BY <2>5, <3>3, <3>5, <3>6, <3>7 DEF Dispatch
  <2>6. CASE RecvLowersFlag(c)
    <3>1. PendingTypeOK'  BY <2>6, MapUnchangedType DEF RecvLowersFlag
    <3> QED  BY <2>6, <3>1 DEF RecvLowersFlag
  <2>7. CASE RecvCancelsAll(c)
    <3>1. PendingTypeOK'  BY <2>7, CancelAllType DEF RecvCancelsAll
    <3> QED  BY <2>7, <3>1 DEF RecvCancelsAll
  <2> QED  BY <1>7, <2>1, <2>3, <2>4, <2>5, <2>6, <2>7 DEF RecvStep
<1>8. CASE UNCHANGED vars
  <2>1. PendingTypeOK'  BY <1>8, MapUnchangedType DEF vars
  <2> QED  BY <1>8, <2>1 DEF vars
<1> QED  BY <1>1, <1>2, <1>3, <1>4, <1>5, <1>6, <1>7, <1>8
         DEF Next, CallerStep, PingStep

(* Every variable of the transport keeps its type, for all constants. *)
THEOREM TypeCorrect == Spec => []TypeOK
<1>1. Init => TypeInv  BY TypeInit
<1>2. TypeInv /\ [Next]_vars => TypeInv'  BY TypeStep
<1>3. TypeInv => TypeOK  BY DEF TypeInv
<1> QED  BY <1>1, <1>2, <1>3, PTL DEF Spec
-----------------------------------------------------------------------------
(* Each step touches the map through at most one operation of it, on behalf  *)
(* of the task or the receive loop that takes the step.                      *)
LEMMA MapStep ==
  ASSUME TypeInv, [Next]_vars
  PROVE  \/ UNCHANGED mapVars
         \/ /\ CancelAll
            /\ \/ conn' = 0 /\ UNCHANGED <<pc, recv>>
               \/ \E c \in Conns : recv[c] = "cancel" /\ recv'[c] = "exited"
         \/ \E t \in Tasks : Register(t)
         \/ \E t \in Tasks : pc[t] \in {"registered", "waiting"} /\ HangUp(mine[t])
         \/ \E t \in Tasks : /\ pc[t] \in {"numbered", "cleanup"} /\ pc'[t] # pc[t]
                             /\ pc[t] = "cleanup" => t \in Callers
                             /\ Remove(Key(mine[t]))
         \/ \E c \in Conns : /\ recv[c] = "dispatch"
                             /\ Resolve(packet[c].key, packet[c].re)
<1> USE DEF Tasks
<1>1. CASE Connect \/ Close
      BY <1>1 DEF Connect, Close, recvVars, taskVars
<1>2. ASSUME NEW t \in Tasks, TaskStep(t)
      PROVE  \/ UNCHANGED mapVars
             \/ Register(t)
             \/ pc[t] \in {"registered", "waiting"} /\ HangUp(mine[t])
             \/ pc[t] = "numbered" /\ pc'[t] # pc[t] /\ Remove(Key(mine[t]))
  <2>1. CASE MakeRoom(t)
    <3>1. pc \in [Tasks -> CallerPlaces \cup PingPlaces]  BY DEF TypeInv, TypeOK
    <3> QED  BY <2>1, <3>1 DEF MakeRoom
  <2>2. CASE ~MakeRoom(t)
        BY <1>2, <2>2 DEF TaskStep, TakeNumber, Write, WriteFails, TakeAnswer,
                          NoticeClosed, Expire
  <2> QED  BY <2>1, <2>2
<1>3. ASSUME NEW r \in Callers, Cleanup(r)
      PROVE  /\ pc[r] \in {"numbered", "cleanup"} /\ pc'[r] # pc[r]
             /\ Remove(Key(mine[r]))
  <2>1. pc \in [Tasks -> CallerPlaces \cup PingPlaces]  BY DEF TypeInv, TypeOK
  <2> QED  BY <1>3, <2>1 DEF Cleanup
<1>7. CASE \E r \in Callers : CallerStep(r)
      BY <1>2, <1>3, <1>7 DEF CallerStep, Refuse, Abandon
<1>4. CASE \E c \in Conns : PingStep(c) \/ WireDown(c)
      BY <1>2, <1>4 DEF PingStep, PingSeesFlagDown, PingKilled, WireDown
<1>5. CASE \E c \in Conns : RecvStep(c)
      BY <1>5 DEF RecvStep, RecvContinues, RecvSeesFlagDown, ReadAnswer, ReadPush,
                  ReadPacket, ReadFails, Dispatch, RecvLowersFlag, RecvCancelsAll,
                  RecvKilled, RecvGo, TypeInv, TypeOK
<1>6. CASE UNCHANGED vars  BY <1>6 DEF vars
<1> QED  BY <1>1, <1>4, <1>5, <1>6, <1>7 DEF Next

(* A receiver that still waits has its sender in the map, under its own key: *)
(* insert, resolve, remove and cancel_all never lose a sender silently.      *)
WaiterRegistered ==
  \A s \in Seqs : chan[s] = "open" => pending[Key(s)] = s

(* No operation of the map loses the sender of a receiver that waits. *)
LEMMA WaiterStep ==
  ASSUME TypeInv, WaiterRegistered, [Next]_vars
  PROVE  WaiterRegistered'
<1> USE DEF WaiterRegistered, SendersDropped, ChanStates, TypeInv, TypeOK, PendingTypeOK
<1>0. \A s \in Seqs : Key(s) \in Keys  BY KeyInKeys, MaxSeqAssumption DEF Seqs
<1>1. CASE UNCHANGED mapVars  BY <1>1 DEF mapVars
<1>2. CASE CancelAll  BY <1>0, <1>2 DEF CancelAll
<1>3. ASSUME NEW t \in Tasks, Register(t) PROVE WaiterRegistered'
  <2>1. mine[t] \in Seqs  BY <1>3 DEF Register, NumberTaken
  <2> QED  BY <1>0, <1>3, <2>1 DEF Register, Insert
<1>4. ASSUME NEW t \in Tasks, pc[t] \in {"registered", "waiting"}, HangUp(mine[t])
      PROVE  WaiterRegistered'
      BY <1>4 DEF HangUp
<1>5. ASSUME NEW t \in Tasks, pc[t] \in {"numbered", "cleanup"}, Remove(Key(mine[t]))  PROVE WaiterRegistered'
      BY <1>0, <1>5 DEF Remove
<1>6. ASSUME NEW c \in Conns, Resolve(packet[c].key, packet[c].re)
      PROVE  WaiterRegistered'
  <2>1. packet[c].key \in Keys  BY DEF Packets
  <2> QED  BY <1>0, <1>6, <2>1 DEF Resolve, Absent
<1> QED  BY MapStep, <1>1, <1>2, <1>3, <1>4, <1>5, <1>6

-----------------------------------------------------------------------------
(* fetch_add hands each number out once, and a channel is created only when  *)
(* the request it belongs to registers.                                      *)
NumbersUnique ==
  /\ \A t \in Tasks : mine[t] <= seq
  /\ \A t, u \in Tasks : mine[t] = mine[u] /\ mine[t] # 0 => t = u

ChannelsFresh ==
  /\ \A s \in Seqs : s > seq => chan[s] = "unused"
  /\ \A t \in Tasks : pc[t] \in {"numbered", "cleared"} => chan[mine[t]] = "unused"
  /\ \A t \in Tasks : pc[t] \in {"registered", "waiting"} => chan[mine[t]] # "unused"

(* What the server holds, and what it sends back, are registered requests;   *)
(* an answer carries the number of its request.                              *)
WireKnowsRegistered ==
  /\ \A c \in Conns : \A s \in reached[c] : chan[s] # "unused"
  /\ \A c \in Conns : packet[c].re # 0 =>
       /\ chan[packet[c].re] # "unused"
       /\ packet[c].key = Key(packet[c].re)

NumberInv == TypeInv /\ NumbersUnique /\ ChannelsFresh /\ WireKnowsRegistered

(* Only insert creates a channel, and no operation destroys one. *)
LEMMA UnusedKept ==
  ASSUME TypeInv, ChannelsFresh, [Next]_vars, NEW s \in Seqs,
         \A t \in Tasks : ~(Register(t) /\ mine[t] = s)
  PROVE  chan'[s] = "unused" <=> chan[s] = "unused"
<1> USE DEF SendersDropped, ChanStates, TypeInv, TypeOK, PendingTypeOK
<1>1. CASE UNCHANGED mapVars  BY <1>1 DEF mapVars
<1>2. CASE CancelAll  BY <1>2 DEF CancelAll
<1>3. ASSUME NEW t \in Tasks, Register(t)
      PROVE  chan'[s] = "unused" <=> chan[s] = "unused"
      BY <1>3 DEF Register, Insert
<1>4. ASSUME NEW t \in Tasks, pc[t] \in {"registered", "waiting"}, HangUp(mine[t])
      PROVE  chan'[s] = "unused" <=> chan[s] = "unused"
      BY <1>4 DEF HangUp, ChannelsFresh
<1>5. ASSUME NEW t \in Tasks, pc[t] \in {"numbered", "cleanup"}, Remove(Key(mine[t]))
      PROVE  chan'[s] = "unused" <=> chan[s] = "unused"
      BY <1>5 DEF Remove
<1>6. ASSUME NEW c \in Conns, Resolve(packet[c].key, packet[c].re)
      PROVE  chan'[s] = "unused" <=> chan[s] = "unused"
      BY <1>6 DEF Resolve
<1> QED  BY MapStep, <1>1, <1>2, <1>3, <1>4, <1>5, <1>6

LEMMA UsedKept ==
  ASSUME TypeInv, ChannelsFresh, [Next]_vars, NEW s \in Seqs, chan[s] # "unused"
  PROVE  chan'[s] # "unused"
<1>1. ASSUME NEW t \in Tasks, Register(t), mine[t] = s PROVE chan'[s] # "unused"
      BY <1>1 DEF Register, Insert, SendersDropped, TypeInv, TypeOK, PendingTypeOK
<1> QED  BY <1>1, UnusedKept

(* Apart from taking a number and registering it, no step moves a task into  *)
(* the stretch between them or out of nowhere into the wait.                 *)
LEMMA TaskFrame ==
  ASSUME TypeInv, [Next]_vars, \A t \in Tasks : ~TakeNumber(t) /\ ~Register(t)
  PROVE  /\ UNCHANGED <<seq, mine>>
         /\ \A t \in Tasks :
              /\ pc'[t] \in {"numbered", "cleared"} => pc[t] \in {"numbered", "cleared"}
              /\ pc'[t] \in {"registered", "waiting"}
                   => pc[t] \in {"registered", "waiting"}
<1> DEFINE Frame ==
      /\ UNCHANGED <<seq, mine>>
      /\ \A t \in Tasks :
           /\ pc'[t] \in {"numbered", "cleared"} => pc[t] \in {"numbered", "cleared"}
           /\ pc'[t] \in {"registered", "waiting"} => pc[t] \in {"registered", "waiting"}
<1> USE DEF TypeInv, TypeOK, Tasks, connVars, recvVars, taskVars, Return
<1>1. ASSUME NEW t \in Tasks, TaskStep(t) PROVE Frame
      BY <1>1 DEF TaskStep, MakeRoom, Write, WriteFails, TakeAnswer, NoticeClosed, Expire
<1>2. CASE Connect  BY <1>2 DEF Connect
<1>3. CASE Close  BY <1>3 DEF Close
<1>4. CASE \E r \in Callers : CallerStep(r)
      BY <1>1, <1>4 DEF CallerStep, Refuse, Cleanup, Abandon
<1>5. CASE \E c \in Conns : PingStep(c)
      BY <1>1, <1>5 DEF PingStep, PingSeesFlagDown, PingKilled
<1>6. CASE \E c \in Conns : RecvStep(c) \/ WireDown(c)
      BY <1>6 DEF WireDown, RecvStep, RecvContinues, RecvSeesFlagDown, ReadAnswer,
                  ReadPush, ReadPacket, ReadFails, Dispatch, RecvLowersFlag,
                  RecvCancelsAll, RecvKilled
<1>7. CASE UNCHANGED vars  BY <1>7 DEF vars
<1> QED  BY <1>2, <1>3, <1>4, <1>5, <1>6, <1>7 DEF Next

LEMMA NumbersUniqueStep ==
  ASSUME TypeInv, NumbersUnique, [Next]_vars
  PROVE  NumbersUnique'
<1> USE DEF NumbersUnique, TypeInv, TypeOK
<1>1. ASSUME NEW t \in Tasks, TakeNumber(t) PROVE NumbersUnique'
      BY <1>1, MaxSeqAssumption DEF TakeNumber, Seqs
<1>2. ASSUME NEW t \in Tasks, Register(t) PROVE NumbersUnique'
      BY <1>2 DEF Register
<1>3. CASE \A t \in Tasks : ~TakeNumber(t) /\ ~Register(t)
  <2>1. UNCHANGED <<seq, mine>>  BY <1>3, TaskFrame
  <2> QED  BY <2>1
<1> QED  BY <1>1, <1>2, <1>3

LEMMA ChannelsFreshStep ==
  ASSUME TypeInv, NumbersUnique, ChannelsFresh, [Next]_vars
  PROVE  ChannelsFresh'
<1> USE DEF ChannelsFresh
<1>1. ASSUME NEW t \in Tasks, TakeNumber(t) PROVE ChannelsFresh'
  <2>1. UNCHANGED chan /\ seq + 1 \in Seqs /\ chan[seq + 1] = "unused"
        BY <1>1, MaxSeqAssumption
        DEF TakeNumber, mapVars, Seqs, TypeInv, TypeOK
  <2> QED  BY <1>1, <2>1, MaxSeqAssumption DEF TakeNumber, TypeInv, TypeOK, Seqs
<1>2. ASSUME NEW t \in Tasks, Register(t) PROVE ChannelsFresh'
  <2>1. mine[t] \in Seqs  BY <1>2 DEF Register, TypeInv, NumberTaken
  <2>2. chan'[mine[t]] # "unused"
        BY <1>2, <2>1 DEF Register, Insert, SendersDropped, TypeInv, TypeOK, PendingTypeOK
  <2>3. \A s \in Seqs : s # mine[t] => (chan'[s] = "unused" <=> chan[s] = "unused")
        BY <1>2 DEF Register, Insert, SendersDropped, TypeInv, TypeOK, PendingTypeOK
  <2>4. \A s \in Seqs : s > seq => s # mine[t]
        BY <2>1, MaxSeqAssumption DEF NumbersUnique, TypeInv, TypeOK, Seqs
  <2>5. \A u \in Tasks : pc'[u] \in {"numbered", "cleared"} => mine[u] \in Seqs /\ mine[u] # mine[t]
        BY <1>2, <2>1 DEF Register, NumbersUnique, TypeInv, TypeOK, NumberTaken, Seqs
  <2>6. \A u \in Tasks : pc'[u] \in {"registered", "waiting"} =>
          u = t \/ (pc[u] \in {"registered", "waiting"} /\ mine[u] \in Seqs)
        BY <1>2 DEF Register, TypeInv, TypeOK, NumberTaken
  <2> QED  BY <1>2, <2>1, <2>2, <2>3, <2>4, <2>5, <2>6 DEF Register, TypeInv, TypeOK
<1>3. CASE \A t \in Tasks : ~TakeNumber(t) /\ ~Register(t)
  <2>1. \A s \in Seqs : chan'[s] = "unused" <=> chan[s] = "unused"
        BY <1>3, UnusedKept
  <2>2. /\ UNCHANGED <<seq, mine>>
        /\ \A t \in Tasks :
             /\ pc'[t] \in {"numbered", "cleared"} => pc[t] \in {"numbered", "cleared"}
             /\ pc'[t] \in {"registered", "waiting"}
                  => pc[t] \in {"registered", "waiting"}
        BY <1>3, TaskFrame
  <2> QED  BY <2>1, <2>2 DEF TypeInv, NumberTaken
<1> QED  BY <1>1, <1>2, <1>3

LEMMA WireKnowsStep ==
  ASSUME TypeInv, ChannelsFresh, WireKnowsRegistered, [Next]_vars
  PROVE  WireKnowsRegistered'
<1> USE DEF TypeInv, TypeOK, WireKnowsRegistered, Tasks, connVars, recvVars,
            taskVars, serverVars, Return
<1>0. \A s \in Seqs : chan[s] # "unused" => chan'[s] # "unused"  BY UsedKept
<1>1. ASSUME NEW t \in Tasks, TaskStep(t) PROVE WireKnowsRegistered'
  <2>1. CASE Write(t)
    <3>1. mine[t] \in Seqs /\ chan[mine[t]] # "unused"
          BY <2>1 DEF Write, NumberTaken, ChannelsFresh
    <3>2. \A c \in Conns : reached'[c] \subseteq reached[c] \cup {mine[t]}
          BY <2>1 DEF Write
    <3> QED  BY <1>0, <2>1, <3>1, <3>2 DEF Write, Packets
  <2>2. CASE ~Write(t)
    <3>1. UNCHANGED <<reached, packet>>
          BY <1>1, <2>2 DEF TaskStep, TakeNumber, MakeRoom, Register, WriteFails, TakeAnswer,
                            NoticeClosed, Expire
    <3> QED  BY <1>0, <3>1 DEF Packets
  <2> QED  BY <2>1, <2>2
<1>2. CASE UNCHANGED <<reached, packet>>  BY <1>0, <1>2 DEF Packets
<1>3. CASE Connect \/ Close \/ UNCHANGED vars
      BY <1>2, <1>3 DEF Connect, Close, vars
<1>4. CASE \E r \in Callers : CallerStep(r)
      BY <1>1, <1>2, <1>4 DEF CallerStep, Refuse, Cleanup, Abandon
<1>5. CASE \E c \in Conns : PingStep(c) \/ WireDown(c)
      BY <1>1, <1>2, <1>5 DEF PingStep, PingSeesFlagDown, PingKilled, WireDown
<1>6. ASSUME NEW c \in Conns, RecvStep(c) PROVE WireKnowsRegistered'
  <2>1. CASE ReadAnswer(c)
    <3>1. PICK s \in reached[c] \ answered : ReadPacket(c, Key(s), s)
          BY <2>1 DEF ReadAnswer
    <3>2. s \in Seqs /\ chan[s] # "unused"  OBVIOUS
    <3>3. /\ UNCHANGED reached
          /\ \A d \in Conns : \/ packet'[d] = packet[d]
                              \/ packet'[d].re = 0
                              \/ packet'[d].re = s /\ packet'[d].key = Key(s)
          BY <3>1 DEF ReadPacket, NoPacket
    <3> QED  BY <1>0, <3>2, <3>3 DEF Packets
  <2>2. CASE ReadPush(c)
    <3>1. PICK p \in PushSeqs : ReadPacket(c, Key(p), 0)  BY <2>2 DEF ReadPush
    <3>2. /\ UNCHANGED reached
          /\ \A d \in Conns : packet'[d] = packet[d] \/ packet'[d].re = 0
          BY <3>1 DEF ReadPacket, NoPacket
    <3> QED  BY <1>0, <3>2 DEF Packets
  <2>3. CASE Dispatch(c)
    <3>1. packet[c] \in Packets  OBVIOUS
    <3>2. /\ UNCHANGED reached
          /\ \A d \in Conns : \/ packet'[d].re = 0
                              \/ /\ packet'[d].re = packet[d].re
                                 /\ packet'[d].key = packet[d].key
      <4>1. CASE packet[c].left > 1
            BY <2>3, <3>1, <4>1 DEF Dispatch, Packets
      <4>2. CASE ~(packet[c].left > 1)
            BY <2>3, <3>1, <4>2 DEF Dispatch, NoPacket
      <4> QED  BY <4>1, <4>2
    <3> QED  BY <1>0, <3>2 DEF Packets
  <2>4. CASE ~ReadAnswer(c) /\ ~ReadPush(c) /\ ~Dispatch(c)
        BY <1>2, <1>6, <2>4
        DEF RecvStep, RecvContinues, RecvSeesFlagDown, ReadFails, RecvLowersFlag,
            RecvCancelsAll, RecvKilled
  <2> QED  BY <2>1, <2>2, <2>3, <2>4
<1> QED  BY <1>1, <1>3, <1>4, <1>5, <1>6 DEF Next

LEMMA NumberInit == Init => NumberInv
<1> SUFFICES ASSUME Init PROVE NumberInv  OBVIOUS
<1>1. NumbersUnique  BY DEF Init, NumbersUnique
<1>2. ChannelsFresh  BY DEF Init, PendingInit, ChannelsFresh
<1>3. WireKnowsRegistered  BY DEF Init, WireKnowsRegistered, NoPacket
<1> QED  BY TypeInit, <1>1, <1>2, <1>3 DEF NumberInv

LEMMA NumberStep == NumberInv /\ [Next]_vars => NumberInv'
  BY TypeStep, NumbersUniqueStep, ChannelsFreshStep, WireKnowsStep DEF NumberInv
-----------------------------------------------------------------------------
(* A channel that no longer waits never waits again. *)
LEMMA SettledKept ==
  ASSUME NumberInv, [Next]_vars, NEW s \in Seqs, chan[s] \notin {"unused", "open"}
  PROVE  chan'[s] \notin {"unused", "open"}
<1> USE DEF SendersDropped, NumberInv, TypeInv, TypeOK, PendingTypeOK
<1>1. CASE UNCHANGED mapVars  BY <1>1 DEF mapVars
<1>2. CASE CancelAll  BY <1>2 DEF CancelAll
<1>3. ASSUME NEW t \in Tasks, Register(t) PROVE chan'[s] \notin {"unused", "open"}
  <2>1. mine[t] # s  BY <1>3 DEF Register, ChannelsFresh
  <2> QED  BY <1>3, <2>1 DEF Register, Insert
<1>4. ASSUME NEW t \in Tasks, HangUp(mine[t])
      PROVE  chan'[s] \notin {"unused", "open"}
      BY <1>4 DEF HangUp
<1>5. ASSUME NEW t \in Tasks, pc[t] \in {"numbered", "cleanup"}, Remove(Key(mine[t]))
      PROVE  chan'[s] \notin {"unused", "open"}
      BY <1>5 DEF Remove
<1>6. ASSUME NEW c \in Conns, Resolve(packet[c].key, packet[c].re)
      PROVE  chan'[s] \notin {"unused", "open"}
      BY <1>6 DEF Resolve
<1> QED  BY MapStep, <1>1, <1>2, <1>3, <1>4, <1>5, <1>6

LEMMA PublishedFrame ==
  ASSUME [Next]_vars, \A c \in Conns : ~Dispatch(c)
  PROVE  UNCHANGED published
  BY DEF Next, Connect, Close, CallerStep, PingStep, TaskStep, TakeNumber, MakeRoom, Register,
         Write, WriteFails, TakeAnswer, NoticeClosed, Expire, Refuse, Cleanup, Abandon,
         PingSeesFlagDown, PingKilled, WireDown, RecvStep, RecvContinues,
         RecvSeesFlagDown, ReadAnswer, ReadPush, ReadPacket, ReadFails,
         RecvLowersFlag, RecvCancelsAll, RecvKilled, serverVars, vars

LEMMA NoAnswerMissedStep ==
  ASSUME NumberInv, WaiterRegistered, NoAnswerMissed, [Next]_vars
  PROVE  NoAnswerMissed'
<1> USE DEF NoAnswerMissed, NumberInv, TypeInv, TypeOK
<1>1. \A s \in Seqs : chan[s] \notin {"unused", "open"} => chan'[s] \notin {"unused", "open"}
      BY SettledKept
<1>2. ASSUME NEW c \in Conns, Dispatch(c), pending[packet[c].key] = Absent
      PROVE  NoAnswerMissed'
  <2>1. published' = published \cup ({packet[c].re} \ {0})  BY <1>2 DEF Dispatch
  <2>2. packet[c].re # 0 => packet[c].re \in Seqs  BY DEF Packets
  <2>3. packet[c].re # 0 => chan[packet[c].re] \notin {"unused", "open"}
        BY <1>2, <2>2 DEF WireKnowsRegistered, WaiterRegistered, Absent, Seqs
  <2> QED  BY <1>1, <2>1, <2>2, <2>3
<1>3. ASSUME NEW c \in Conns, Dispatch(c), pending[packet[c].key] # Absent
      PROVE  NoAnswerMissed'
  <2>1. UNCHANGED published  BY <1>3 DEF Dispatch
  <2> QED  BY <1>1, <2>1
<1>4. CASE \A c \in Conns : ~Dispatch(c)
  <2>1. UNCHANGED published  BY <1>4, PublishedFrame
  <2> QED  BY <1>1, <2>1
<1> QED  BY <1>2, <1>3, <1>4

(* The answer to a request that waits, or has not registered yet, is never   *)
(* handed to the event subscribers instead, on both transports.              *)
THEOREM AnswersNotMissed == Spec => []NoAnswerMissed
<1> DEFINE I == NumberInv /\ WaiterRegistered /\ NoAnswerMissed
<1>1. Init => I
  <2>1. Init => NoAnswerMissed  BY DEF Init, NoAnswerMissed
  <2>2. Init => WaiterRegistered  BY DEF Init, PendingInit, WaiterRegistered
  <2> QED  BY <2>1, <2>2, NumberInit
<1>2. I /\ [Next]_vars => I'
      BY NumberStep, WaiterStep, NoAnswerMissedStep DEF NumberInv
<1>3. I => NoAnswerMissed  OBVIOUS
<1> QED  BY <1>1, <1>2, <1>3, PTL DEF Spec
-----------------------------------------------------------------------------
(* Every sender is stored under its own key; a packet being dispatched is an *)
(* answer or bears the number of a push; what a channel holds came to it     *)
(* rightfully.                                                               *)
Filed == \A k \in Keys : pending[k] # Absent => Key(pending[k]) = k

FramesTagged ==
  \A c \in Conns : recv[c] = "dispatch" =>
    packet[c].re # 0 \/ \E p \in PushSeqs : packet[c].key = Key(p)

Rightful(s) ==
  \/ got[s] = s
  \/ got[s] = 0 /\ \E p \in PushSeqs : Key(p) = Key(s)
  \/ got[s] # 0 /\ Key(got[s]) = Key(s) /\ chan[got[s]] \notin {"unused", "open"}

AnswersOwn == \A s \in Seqs : chan[s] = "full" => Rightful(s)

OkMeansFull ==
  \A r \in Callers : outcome[r] = "ok" =>
    pc[r] = "done" /\ mine[r] \in Seqs /\ chan[mine[r]] = "full"

CleanupSettled ==
  \A r \in Callers : pc[r] = "cleanup" => chan[mine[r]] \notin {"unused", "open"}

MatchInv == /\ NumberInv /\ WaiterRegistered
            /\ Filed /\ FramesTagged /\ AnswersOwn /\ OkMeansFull /\ CleanupSettled

LEMMA FiledStep ==
  ASSUME TypeInv, Filed, [Next]_vars
  PROVE  Filed'
<1> USE DEF Filed, TypeInv, TypeOK, PendingTypeOK
<1>1. CASE UNCHANGED mapVars  BY <1>1 DEF mapVars
<1>2. CASE CancelAll  BY <1>2 DEF CancelAll
<1>3. ASSUME NEW t \in Tasks, Register(t) PROVE Filed'
      BY <1>3 DEF Register, Insert
<1>4. ASSUME NEW t \in Tasks, HangUp(mine[t]) PROVE Filed'  BY <1>4 DEF HangUp
<1>5. ASSUME NEW t \in Tasks, pc[t] \in {"numbered", "cleanup"}, Remove(Key(mine[t])) PROVE Filed'  BY <1>5 DEF Remove
<1>6. ASSUME NEW c \in Conns, Resolve(packet[c].key, packet[c].re)
      PROVE  Filed'
      BY <1>6 DEF Resolve
<1> QED  BY MapStep, <1>1, <1>2, <1>3, <1>4, <1>5, <1>6

(* A frame for a channel that waits answers its request, or bears the number *)
(* of a push, or answers a request with that key that waits no longer: one   *)
(* that waits would have its own sender stored there.                        *)
LEMMA ResolvesRightly ==
  ASSUME NumberInv, WaiterRegistered, Filed, FramesTagged,
         NEW c \in Conns, recv[c] = "dispatch", Resolve(packet[c].key, packet[c].re),
         NEW s \in Seqs, s = pending[packet[c].key], chan[s] = "open"
  PROVE  Rightful(s)'
<1> USE DEF NumberInv, TypeInv, TypeOK, PendingTypeOK
<1> DEFINE key == packet[c].key
           re == packet[c].re
<1>1. key \in Keys /\ re \in Seqs \cup {0}  BY DEF Packets
<1>2. Key(s) = key  BY <1>1, MaxSeqAssumption DEF Filed, Absent, Seqs
<1>3. got'[s] = re  BY DEF Resolve
<1>4. CASE re = 0
      BY <1>2, <1>3, <1>4 DEF FramesTagged, Rightful
<1>5. CASE re = s  BY <1>3, <1>5 DEF Rightful
<1>6. CASE re # 0 /\ re # s
  <2>1. re \in Seqs /\ Key(re) = key /\ chan[re] # "unused"
        BY <1>1, <1>6 DEF WireKnowsRegistered
  <2>2. chan[re] # "open"  BY <1>6, <2>1 DEF WaiterRegistered
  <2>3. chan'[re] = chan[re]  BY <1>6, <2>1 DEF Resolve
  <2> QED  BY <1>2, <1>3, <1>6, <2>1, <2>2, <2>3 DEF Rightful
<1> QED  BY <1>4, <1>5, <1>6

(* What a channel has received stays what it is, and stays rightful. *)
LEMMA GotKept ==
  ASSUME TypeInv, [Next]_vars, NEW s \in Seqs, chan[s] # "open"
  PROVE  got'[s] = got[s]
<1> USE DEF TypeInv, TypeOK, PendingTypeOK
<1>1. CASE UNCHANGED mapVars  BY <1>1 DEF mapVars
<1>2. CASE CancelAll  BY <1>2 DEF CancelAll
<1>3. ASSUME NEW t \in Tasks, Register(t) PROVE got'[s] = got[s]
      BY <1>3 DEF Register, Insert
<1>4. ASSUME NEW t \in Tasks, HangUp(mine[t]) PROVE got'[s] = got[s]
      BY <1>4 DEF HangUp
<1>5. ASSUME NEW t \in Tasks, Remove(Key(mine[t])) PROVE got'[s] = got[s]
      BY <1>5 DEF Remove
<1>6. ASSUME NEW c \in Conns, Resolve(packet[c].key, packet[c].re)
      PROVE  got'[s] = got[s]
      BY <1>6 DEF Resolve
<1> QED  BY MapStep, <1>1, <1>2, <1>3, <1>4, <1>5, <1>6

LEMMA RightfulKept ==
  ASSUME NumberInv, [Next]_vars, NEW s \in Seqs, chan[s] = "full", Rightful(s)
  PROVE  Rightful(s)'
<1>1. got'[s] = got[s]  BY GotKept DEF NumberInv
<1>2. got[s] # 0 => got[s] \in Seqs  BY DEF NumberInv, TypeInv, TypeOK, PendingTypeOK
<1> QED  BY <1>1, <1>2, SettledKept DEF Rightful

(* A channel fills only when its entry is resolved. *)
LEMMA FilledByResolve ==
  ASSUME TypeInv, [Next]_vars, NEW s \in Seqs, chan[s] # "full", chan'[s] = "full"
  PROVE  \E c \in Conns : /\ recv[c] = "dispatch" /\ chan[s] = "open"
                          /\ Resolve(packet[c].key, packet[c].re)
                          /\ s = pending[packet[c].key]
<1> USE DEF SendersDropped, TypeInv, TypeOK, PendingTypeOK
<1>1. CASE UNCHANGED mapVars  BY <1>1 DEF mapVars
<1>2. CASE CancelAll  BY <1>2 DEF CancelAll
<1>3. ASSUME NEW t \in Tasks, Register(t) PROVE FALSE
      BY <1>3 DEF Register, Insert
<1>4. ASSUME NEW t \in Tasks, HangUp(mine[t]) PROVE FALSE
      BY <1>4 DEF HangUp
<1>5. ASSUME NEW t \in Tasks, Remove(Key(mine[t])) PROVE FALSE
      BY <1>5 DEF Remove
<1>6. ASSUME NEW c \in Conns, Resolve(packet[c].key, packet[c].re)
      PROVE  chan[s] = "open" /\ s = pending[packet[c].key]
      BY <1>6 DEF Resolve
<1> QED  BY MapStep, <1>1, <1>2, <1>3, <1>4, <1>5, <1>6

LEMMA AnswersOwnStep ==
  ASSUME NumberInv, WaiterRegistered, Filed, FramesTagged, AnswersOwn, [Next]_vars
  PROVE  AnswersOwn'
<1> SUFFICES ASSUME NEW s \in Seqs, chan'[s] = "full" PROVE Rightful(s)'
    BY DEF AnswersOwn
<1>1. CASE chan[s] = "full"  BY <1>1, RightfulKept DEF AnswersOwn
<1>2. CASE chan[s] # "full"
      BY <1>2, FilledByResolve, ResolvesRightly DEF NumberInv
<1> QED  BY <1>1, <1>2

LEMMA FramesTaggedStep ==
  ASSUME TypeInv, FramesTagged, [Next]_vars
  PROVE  FramesTagged'
<1> USE DEF TypeInv, TypeOK, FramesTagged, connVars, recvVars, taskVars
<1>1. CASE UNCHANGED <<recv, packet>>  BY <1>1
<1>2. ASSUME NEW t \in Tasks, TaskStep(t) PROVE FramesTagged'
      BY <1>1, <1>2 DEF TaskStep, TakeNumber, MakeRoom, Register, Write, WriteFails, TakeAnswer,
                        NoticeClosed, Expire
<1>3. CASE Connect
  <2>1. /\ UNCHANGED packet
        /\ \A c \in Conns : recv'[c] = recv[c] \/ recv'[c] = "spawned"
        BY <1>3 DEF Connect
  <2> QED  BY <2>1
<1>4. CASE Close \/ UNCHANGED vars  BY <1>1, <1>4 DEF Close, vars
<1>5. CASE \E r \in Callers : CallerStep(r)
      BY <1>1, <1>2, <1>5 DEF CallerStep, Refuse, Cleanup, Abandon, Tasks
<1>6. CASE \E c \in Conns : PingStep(c) \/ WireDown(c)
      BY <1>1, <1>2, <1>6 DEF PingStep, PingSeesFlagDown, PingKilled, WireDown, Tasks
<1>7. ASSUME NEW c \in Conns, RecvStep(c) PROVE FramesTagged'
  <2>1. CASE ReadAnswer(c)
    <3>1. PICK s \in reached[c] \ answered : ReadPacket(c, Key(s), s)
          BY <2>1 DEF ReadAnswer
    <3>2. s # 0  BY MaxSeqAssumption DEF Seqs
    <3> QED  BY <3>1, <3>2 DEF ReadPacket
  <2>2. CASE ReadPush(c)
    <3>1. PICK p \in PushSeqs : ReadPacket(c, Key(p), 0)  BY <2>2 DEF ReadPush
    <3> QED  BY <3>1 DEF ReadPacket
  <2>3. CASE Dispatch(c)
    <3>1. packet[c] \in Packets  OBVIOUS
    <3>2. CASE packet[c].left > 1
      <4>1. /\ UNCHANGED recv
            /\ \A d \in Conns : /\ packet'[d].re = packet[d].re
                                /\ packet'[d].key = packet[d].key
            BY <2>3, <3>1, <3>2 DEF Dispatch, Packets
      <4> QED  BY <4>1
    <3>3. CASE ~(packet[c].left > 1)
          BY <2>3, <3>3 DEF Dispatch
    <3> QED  BY <3>2, <3>3
  <2>4. CASE ~ReadAnswer(c) /\ ~ReadPush(c) /\ ~Dispatch(c)
    <3>1. /\ UNCHANGED packet
          /\ \A d \in Conns : recv'[d] = recv[d] \/ recv'[d] # "dispatch"
          BY <1>7, <2>4
          DEF RecvStep, RecvContinues, RecvSeesFlagDown, ReadFails, RecvLowersFlag,
              RecvCancelsAll, RecvKilled, RecvGo
    <3> QED  BY <3>1
  <2> QED  BY <2>1, <2>2, <2>3, <2>4
<1> QED  BY <1>3, <1>4, <1>5, <1>6, <1>7 DEF Next

(* A task that is neither registered nor waiting cannot have its channel     *)
(* hung up: numbers are unique.                                              *)
LEMMA SettledUntouched ==
  ASSUME NumberInv, [Next]_vars, NEW r \in Callers, mine[r] \in Seqs,
         pc[r] \notin {"registered", "waiting"}, chan[mine[r]] = "full"
  PROVE  chan'[mine[r]] = "full"
<1> USE DEF SendersDropped, NumberInv, TypeInv, TypeOK, PendingTypeOK, Tasks
<1> DEFINE s == mine[r]
<1>1. CASE UNCHANGED mapVars  BY <1>1 DEF mapVars
<1>2. CASE CancelAll  BY <1>2 DEF CancelAll
<1>3. ASSUME NEW t \in Tasks, Register(t) PROVE chan'[s] = "full"
  <2>1. mine[t] # s  BY <1>3 DEF Register, ChannelsFresh
  <2> QED  BY <1>3, <2>1 DEF Register, Insert
<1>4. ASSUME NEW t \in Tasks, pc[t] \in {"registered", "waiting"}, HangUp(mine[t])
      PROVE  chan'[s] = "full"
  <2>1. t # r /\ r \in Tasks  BY <1>4
  <2>2. mine[r] # 0  BY MaxSeqAssumption DEF Seqs
  <2>3. mine[t] # s  BY <2>1, <2>2, Zenon DEF NumbersUnique
  <2> QED  BY <1>4, <2>3 DEF HangUp
<1>5. ASSUME NEW t \in Tasks, pc[t] \in {"numbered", "cleanup"}, Remove(Key(mine[t])) PROVE chan'[s] = "full"
      BY <1>5 DEF Remove
<1>6. ASSUME NEW c \in Conns, Resolve(packet[c].key, packet[c].re)
      PROVE  chan'[s] = "full"
      BY <1>6 DEF Resolve
<1> QED  BY MapStep, <1>1, <1>2, <1>3, <1>4, <1>5, <1>6

(* How a caller's place, number and outcome can change in a step. *)
LEMMA CallerFrame ==
  ASSUME TypeInv, [Next]_vars, NEW r \in Callers
  PROVE  \/ pc'[r] = pc[r] /\ mine'[r] = mine[r] /\ outcome'[r] = outcome[r]
         \/ TakeNumber(r) \/ MakeRoom(r) \/ Register(r) \/ Write(r) \/ WriteFails(r)
         \/ TakeAnswer(r) \/ NoticeClosed(r) \/ Expire(r) \/ Refuse(r) \/ Cleanup(r) \/ Abandon(r)
<1> DEFINE Same == pc'[r] = pc[r] /\ mine'[r] = mine[r] /\ outcome'[r] = outcome[r]
<1> USE DEF TypeInv, TypeOK, Tasks, connVars, recvVars, taskVars, Return
<1>1. ASSUME NEW t \in Tasks, t # r, TaskStep(t) PROVE Same
      BY <1>1 DEF TaskStep, TakeNumber, MakeRoom, Register, Write, WriteFails, TakeAnswer,
                  NoticeClosed, Expire
<1>2. CASE Connect
  <2>1. opened + 1 \in Conns  BY <1>2, MaxConnAssumption DEF Connect, Conns
  <2>2. opened + 1 # r  BY <2>1, CallersAssumption DEF Conns
  <2> QED  BY <1>2, <2>2 DEF Connect
<1>3. CASE Close \/ UNCHANGED vars  BY <1>3 DEF Close, vars
<1>4. ASSUME NEW u \in Callers, u # r, CallerStep(u) PROVE Same
      BY <1>1, <1>4 DEF CallerStep, Refuse, Cleanup, Abandon
<1>5. ASSUME NEW c \in Conns, PingStep(c) PROVE Same
  <2>1. c # r  BY CallersAssumption DEF Conns
  <2> QED  BY <1>1, <1>5, <2>1 DEF PingStep, PingSeesFlagDown, PingKilled
<1>6. CASE \E c \in Conns : RecvStep(c) \/ WireDown(c)
      BY <1>6 DEF WireDown, RecvStep, RecvContinues, RecvSeesFlagDown, ReadAnswer,
                  ReadPush, ReadPacket, ReadFails, Dispatch, RecvLowersFlag,
                  RecvCancelsAll, RecvKilled
<1>7. CASE CallerStep(r)  BY <1>7 DEF CallerStep, TaskStep
<1> QED  BY <1>2, <1>3, <1>4, <1>5, <1>6, <1>7 DEF Next

LEMMA OkMeansFullStep ==
  ASSUME NumberInv, OkMeansFull, [Next]_vars
  PROVE  OkMeansFull'
<1> SUFFICES ASSUME NEW r \in Callers, outcome'[r] = "ok"
             PROVE  pc'[r] = "done" /\ mine'[r] \in Seqs /\ chan'[mine'[r]] = "full"
    BY DEF OkMeansFull
<1> USE DEF NumberInv, TypeInv, TypeOK, Return, Tasks
<1>1. CASE pc'[r] = pc[r] /\ mine'[r] = mine[r] /\ outcome'[r] = outcome[r]
      BY <1>1, SettledUntouched DEF OkMeansFull
<1>2. CASE TakeAnswer(r)
      BY <1>2 DEF TakeAnswer, NumberTaken, mapVars
<1>3. CASE TakeNumber(r) \/ MakeRoom(r) \/ Register(r) \/ Write(r)
      BY <1>3 DEF TakeNumber, MakeRoom, Register, Write, OkMeansFull
<1>4. CASE WriteFails(r) \/ NoticeClosed(r) \/ Expire(r)
      BY <1>4 DEF WriteFails, NoticeClosed, Expire, Outcomes
<1>5. CASE Refuse(r) \/ Cleanup(r) \/ Abandon(r)
      BY <1>5 DEF Refuse, Cleanup, Abandon, Outcomes, OkMeansFull
<1> QED  BY CallerFrame, <1>1, <1>2, <1>3, <1>4, <1>5

LEMMA CleanupSettledStep ==
  ASSUME NumberInv, CleanupSettled, [Next]_vars
  PROVE  CleanupSettled'
<1> SUFFICES ASSUME NEW r \in Callers, pc'[r] = "cleanup"
             PROVE  chan'[mine'[r]] \notin {"unused", "open"}
    BY DEF CleanupSettled
<1> USE DEF NumberInv, TypeInv, TypeOK, Return, Tasks
<1>1. CASE pc'[r] = pc[r] /\ mine'[r] = mine[r]
      BY <1>1, SettledKept DEF CleanupSettled, NumberTaken
<1>2. CASE NoticeClosed(r)
      BY <1>2 DEF NoticeClosed, mapVars
<1>3. CASE Expire(r)
      BY <1>3 DEF Expire, HangUp, NumberTaken, PendingTypeOK
<1>4. CASE \/ TakeNumber(r) \/ MakeRoom(r) \/ Register(r) \/ Write(r)
           \/ WriteFails(r) \/ TakeAnswer(r)
      BY <1>4 DEF TakeNumber, MakeRoom, Register, Write, WriteFails, TakeAnswer
<1>5. CASE Refuse(r) \/ Cleanup(r) \/ Abandon(r)
      BY <1>5 DEF Refuse, Cleanup, Abandon
<1> QED  BY CallerFrame, <1>1, <1>2, <1>3, <1>4, <1>5

LEMMA MatchInit == Init => MatchInv
<1> SUFFICES ASSUME Init PROVE MatchInv  OBVIOUS
<1>1. WaiterRegistered /\ Filed /\ AnswersOwn
      BY DEF Init, PendingInit, WaiterRegistered, Filed, AnswersOwn
<1>2. FramesTagged /\ OkMeansFull  BY DEF Init, FramesTagged, OkMeansFull
<1>3. CleanupSettled  BY DEF Init, CleanupSettled, Tasks
<1> QED  BY NumberInit, <1>1, <1>2, <1>3 DEF MatchInv

LEMMA MatchStep ==
  ASSUME MatchInv, [Next]_vars
  PROVE  MatchInv'
  BY NumberStep, WaiterStep, FiledStep, FramesTaggedStep, AnswersOwnStep,
     OkMeansFullStep, CleanupSettledStep
  DEF MatchInv, NumberInv

(* For every numbering of requests and pushes: a request returns its own     *)
(* answer, a push of its key, or a late answer to another request of its key *)
(* that waits no longer; never the answer to a request that still waits.     *)
THEOREM OwnAnswers == Spec => []OwnAnswer
<1>1. Init => MatchInv  BY MatchInit
<1>2. MatchInv /\ [Next]_vars => MatchInv'  BY MatchStep
<1>3. MatchInv => OwnAnswer
      BY DEF MatchInv, AnswersOwn, Rightful, OkMeansFull, OwnAnswer
<1> QED  BY <1>1, <1>2, <1>3, PTL DEF Spec
-----------------------------------------------------------------------------
(* A receive loop leaves, and the flag goes down, only after a connection of *)
(* this object is gone.                                                      *)
Lost == \E b \in Conns : wire[b] = "down"

LossInv ==
  /\ \A c \in Conns : recv[c] \in {"leave", "cancel"} => Lost
  /\ ~connected /\ opened # 0 => Lost
  /\ conn = 0 => ~connected
  /\ conn <= opened
  /\ \A c \in Conns : c > opened => wire[c] = "unused" /\ recv[c] = "none"

LEMMA LossInvStep ==
  ASSUME TypeInv, LossInv, [Next]_vars
  PROVE  LossInv'
<1> USE DEF TypeInv, TypeOK, LossInv, connVars, recvVars, taskVars
<1>1. CASE UNCHANGED <<connVars, recv>>  BY <1>1 DEF Lost
<1>2. ASSUME NEW t \in Tasks, TaskStep(t) PROVE LossInv'
      BY <1>1, <1>2 DEF TaskStep, TakeNumber, MakeRoom, Register, Write, WriteFails,
                        TakeAnswer, NoticeClosed, Expire
<1>3. CASE Connect
  <2>1. opened + 1 \in Conns  BY <1>3, MaxConnAssumption DEF Connect, Conns
  <2>2. wire[opened + 1] = "unused"  BY <2>1 DEF Conns
  <2>3. Lost => Lost'  BY <1>3, <2>1, <2>2 DEF Connect, Lost
  <2>4. \A c \in Conns : recv'[c] = recv[c] \/ recv'[c] = "spawned"
        BY <1>3 DEF Connect
  <2>5. \A c \in Conns : c > opened' => wire'[c] = wire[c] /\ recv'[c] = recv[c] /\ c > opened
        BY <1>3, MaxConnAssumption DEF Connect, Conns
  <2>6. conn' # 0 /\ conn' <= opened' /\ connected'
        BY <1>3, <2>1, MaxConnAssumption DEF Connect, Conns
  <2> QED  BY <2>3, <2>4, <2>5, <2>6
<1>4. CASE Close
  <2>1. opened # 0 => Lost'
    <3>1. CASE conn = 0  BY <1>4, <3>1 DEF Close, Lost
    <3>2. CASE conn # 0  BY <1>4, <3>2 DEF Close, Lost
    <3> QED  BY <3>1, <3>2
  <2>2. \A c \in Conns : c > opened => c # conn
        BY MaxConnAssumption DEF Conns
  <2>3. \A c \in Conns : recv[c] \in {"leave", "cancel"} => opened # 0
        BY MaxConnAssumption DEF Conns
  <2>4. 0 <= opened  BY MaxConnAssumption DEF Conns
  <2> QED  BY <1>4, <2>1, <2>2, <2>3, <2>4 DEF Close
<1>5. ASSUME NEW c \in Conns, WireDown(c) PROVE LossInv'
      BY <1>5 DEF WireDown, Lost
<1>6. CASE \E r \in Callers : CallerStep(r)
      BY <1>1, <1>2, <1>6 DEF CallerStep, Refuse, Cleanup, Abandon, Tasks
<1>7. CASE \E c \in Conns : PingStep(c)
      BY <1>1, <1>2, <1>7 DEF PingStep, PingSeesFlagDown, PingKilled, Tasks
<1>8. ASSUME NEW c \in Conns, RecvStep(c) PROVE LossInv'
  <2>1. recv[c] # "none" => opened # 0  BY MaxConnAssumption DEF Conns
  <2>2. /\ UNCHANGED <<conn, opened, wire>>
        /\ recv[c] # "none"
        /\ \A d \in Conns : d # c => recv'[d] = recv[d]
        /\ connected' = connected \/ (connected' = FALSE /\ recv[c] = "leave")
        BY <1>8 DEF RecvStep, RecvContinues, RecvSeesFlagDown, ReadAnswer, ReadPush,
                    ReadPacket, ReadFails, Dispatch, RecvLowersFlag, RecvCancelsAll,
                    RecvKilled, RecvGo, AtLoopHead
  <2>3. recv'[c] \in {"leave", "cancel"} => Lost
    <3>1. CASE RecvSeesFlagDown(c)  BY <2>1, <2>2, <3>1 DEF RecvSeesFlagDown
    <3>2. CASE ReadFails(c)  BY <3>2 DEF ReadFails, Lost
    <3>3. CASE RecvLowersFlag(c)  BY <3>3 DEF RecvLowersFlag, RecvGo
    <3>4. CASE ~RecvSeesFlagDown(c) /\ ~ReadFails(c) /\ ~RecvLowersFlag(c)
          BY <1>8, <3>4 DEF RecvStep, RecvContinues, ReadAnswer, ReadPush, ReadPacket,
                            Dispatch, RecvCancelsAll, RecvKilled, RecvGo
    <3> QED  BY <3>1, <3>2, <3>3, <3>4
  <2>4. Lost => Lost'  BY <2>2 DEF Lost
  <2>5. ~(c > opened)  BY <2>2
  <2> QED  BY <2>2, <2>3, <2>4, <2>5
<1>9. CASE UNCHANGED vars  BY <1>1, <1>9 DEF vars
<1> QED  BY <1>2, <1>3, <1>4, <1>5, <1>6, <1>7, <1>8, <1>9 DEF Next

(* The step of CancelledOnlyOnLoss. *)
LossStep ==
  \A s \in Seqs : chan[s] = "open" /\ chan'[s] = "closed"
    => \/ conn' = 0 /\ UNCHANGED <<pc, recv>>
       \/ /\ \E c \in Conns : recv[c] = "cancel" /\ recv'[c] = "exited"
          /\ \E b \in Conns : wire[b] = "down"
       \/ \E t \in Tasks : /\ pc[t] \in {"numbered", "cleared", "cleanup"}
                           /\ pc'[t] # pc[t]
                           /\ mine[t] # s /\ Key(mine[t]) = Key(s)

LEMMA OnlyLossCancels ==
  ASSUME MatchInv, LossInv, [Next]_vars
  PROVE  LossStep
<1> SUFFICES ASSUME NEW s \in Seqs, chan[s] = "open", chan'[s] = "closed"
             PROVE  \/ conn' = 0 /\ UNCHANGED <<pc, recv>>
                    \/ /\ \E c \in Conns : recv[c] = "cancel" /\ recv'[c] = "exited"
                       /\ \E b \in Conns : wire[b] = "down"
                    \/ \E t \in Tasks : /\ pc[t] \in {"numbered", "cleared", "cleanup"}
                                        /\ pc'[t] # pc[t]
                                        /\ mine[t] # s /\ Key(mine[t]) = Key(s)
    BY DEF LossStep
<1> USE DEF SendersDropped, MatchInv, NumberInv, TypeInv, TypeOK, PendingTypeOK, Tasks
<1>1. CASE UNCHANGED mapVars  BY <1>1 DEF mapVars
<1>2. ASSUME NEW c \in Conns, recv[c] = "cancel"
      PROVE  \E b \in Conns : wire[b] = "down"
      BY <1>2 DEF LossInv, Lost
<1>3. ASSUME NEW t \in Tasks, pc[t] \in {"cleared", "numbered", "cleanup"},
             pc[t] = "cleanup" => t \in Callers, s = pending[Key(mine[t])]
      PROVE  mine[t] # s /\ Key(mine[t]) = Key(s)
  <2>1. mine[t] \in Seqs  BY <1>3 DEF NumberTaken
  <2>2. chan[mine[t]] # "open"  BY <1>3 DEF ChannelsFresh, CleanupSettled
  <2>3. Key(mine[t]) \in Keys  BY <2>1, KeyInKeys, MaxSeqAssumption DEF Seqs
  <2>4. s # Absent  BY MaxSeqAssumption DEF Absent, Seqs
  <2> QED  BY <1>3, <2>2, <2>3, <2>4 DEF Filed
<1>4. ASSUME NEW t \in Tasks, Register(t)
      PROVE  /\ pc[t] = "cleared" /\ pc'[t] # pc[t] /\ s = pending[Key(mine[t])]
  <2>1. pc[t] = "cleared" /\ pc'[t] # pc[t]  BY <1>4 DEF Register
  <2>2. mine[t] # s  BY <2>1 DEF ChannelsFresh
  <2>3. s = pending[Key(mine[t])]  BY <1>4, <2>2 DEF Register, Insert
  <2> QED  BY <2>1, <2>3
<1>5. ASSUME NEW t \in Tasks, HangUp(mine[t]) PROVE FALSE
      BY <1>5 DEF HangUp
<1>6. ASSUME NEW t \in Tasks, Remove(Key(mine[t])) PROVE s = pending[Key(mine[t])]
      BY <1>6 DEF Remove
<1>7. ASSUME NEW c \in Conns, Resolve(packet[c].key, packet[c].re) PROVE FALSE
      BY <1>7 DEF Resolve
<1>8. CASE \E t \in Tasks : Register(t)
  <2>1. PICK t \in Tasks : Register(t)  BY <1>8
  <2> QED  BY <2>1, <1>3, <1>4
<1>9. CASE \E t \in Tasks : /\ pc[t] \in {"numbered", "cleanup"} /\ pc'[t] # pc[t]
                            /\ pc[t] = "cleanup" => t \in Callers
                            /\ Remove(Key(mine[t]))
  <2>1. PICK t \in Tasks : /\ pc[t] \in {"numbered", "cleanup"} /\ pc'[t] # pc[t]
                           /\ pc[t] = "cleanup" => t \in Callers
                           /\ Remove(Key(mine[t]))
        BY <1>9
  <2> QED  BY <2>1, <1>3, <1>6
<1> QED  BY MapStep, <1>1, <1>2, <1>5, <1>7, <1>8, <1>9

(* For every Modulus, every reconnection and every interleaving: a waiting   *)
(* request is told NotConnected only by close, by the end of a receive loop  *)
(* after a real loss, or on account of another request with its key.         *)
THEOREM OnlyLossCancelsWaiters == Spec => CancelledOnlyOnLoss
<1> DEFINE I == MatchInv /\ LossInv
<1>1. Init => I
  <2>1. Init => LossInv  BY DEF Init, LossInv
  <2> QED  BY <2>1, MatchInit
<1>2. I /\ [Next]_vars => I'
      BY MatchStep, LossInvStep DEF MatchInv, NumberInv
<1>3. I /\ [Next]_vars => LossStep  BY OnlyLossCancels
<1> QED  BY <1>1, <1>2, <1>3, PTL DEF Spec, CancelledOnlyOnLoss, LossStep
-----------------------------------------------------------------------------
(* Where a packet yields at most one frame, as on WebSocket, an answer is    *)
(* dispatched once: while it is in flight it is in one receive loop, and     *)
(* nobody has it yet.                                                        *)
OneFrame == FramesPerPacket \subseteq {0, 1}

InFlightOnce ==
  /\ \A c \in Conns : packet[c].re # 0 =>
       /\ packet[c].re \in answered \ published
       /\ got[packet[c].re] # packet[c].re
       /\ packet[c].left <= 1
  /\ \A c, d \in Conns : packet[c].re = packet[d].re /\ packet[c].re # 0 => c = d
  /\ published \subseteq answered
  /\ \A s \in Seqs : got[s] = s => s \in answered
  /\ \A s \in published : got[s] # s

(* Only reading and dispatching touch packets and what became of answers. *)
LEMMA AnswerFrame ==
  ASSUME TypeInv, [Next]_vars,
         \A c \in Conns : ~ReadAnswer(c) /\ ~ReadPush(c) /\ ~Dispatch(c)
  PROVE  UNCHANGED <<packet, answered, published, got>>
<1> DEFINE Same == UNCHANGED <<packet, answered, published, got>>
<1> USE DEF Tasks, mapVars, connVars, recvVars, taskVars, serverVars, Return,
            Insert, Remove, CancelAll, HangUp
<1>1. CASE Connect \/ Close  BY <1>1 DEF Connect, Close
<1>2. ASSUME NEW t \in Tasks, TaskStep(t) PROVE Same
      BY <1>2 DEF TaskStep, TakeNumber, MakeRoom, Register, Write, WriteFails, TakeAnswer,
                  NoticeClosed, Expire
<1>3. CASE \E r \in Callers : CallerStep(r)
      BY <1>2, <1>3 DEF CallerStep, Refuse, Cleanup, Abandon
<1>4. CASE \E c \in Conns : PingStep(c) \/ WireDown(c)
      BY <1>2, <1>4 DEF PingStep, PingSeesFlagDown, PingKilled, WireDown
<1>5. CASE \E c \in Conns : RecvStep(c)
      BY <1>5 DEF RecvStep, RecvContinues, RecvSeesFlagDown, ReadFails,
                  RecvLowersFlag, RecvCancelsAll, RecvKilled, RecvGo
<1>6. CASE UNCHANGED vars  BY <1>6 DEF vars
<1> QED  BY <1>1, <1>3, <1>4, <1>5, <1>6 DEF Next

LEMMA InFlightOnceStep ==
  ASSUME OneFrame, TypeInv, InFlightOnce, [Next]_vars
  PROVE  InFlightOnce'
<1> USE DEF TypeInv, TypeOK, PendingTypeOK, InFlightOnce
<1>1. CASE \A c \in Conns : ~ReadAnswer(c) /\ ~ReadPush(c) /\ ~Dispatch(c)
  <2>1. UNCHANGED <<packet, answered, published, got>>  BY <1>1, AnswerFrame
  <2> QED  BY <2>1
<1>2. ASSUME NEW c \in Conns, ReadAnswer(c) PROVE InFlightOnce'
  <2>1. PICK s \in reached[c] \ answered : ReadPacket(c, Key(s), s)
        BY <1>2 DEF ReadAnswer
  <2>2. s \in Seqs /\ s # 0 /\ s \notin answered  BY <2>1, MaxSeqAssumption DEF Seqs
  <2>3. /\ UNCHANGED <<got, published>> /\ answered' = answered \cup {s}
        /\ \A d \in Conns : d # c => packet'[d] = packet[d]
        /\ packet'[c].re = 0 \/ (packet'[c].re = s /\ packet'[c].left = 1)
    <3>1. PICK n \in FramesPerPacket :
            packet' = [packet EXCEPT ![c] = IF n = 0 THEN NoPacket
                                            ELSE [key |-> Key(s), re |-> s, left |-> n]]
          BY <2>1 DEF ReadPacket
    <3>2. n = 0 \/ n = 1  BY <3>1 DEF OneFrame
    <3>3. packet'[c].re = 0 \/ (packet'[c].re = s /\ packet'[c].left = 1)
          BY <3>1, <3>2 DEF NoPacket
    <3>4. UNCHANGED <<got, published>>  BY <2>1 DEF ReadPacket, mapVars
    <3>5. answered' = answered \cup {s}  BY <2>1, <2>2 DEF ReadPacket
    <3>6. \A d \in Conns : d # c => packet'[d] = packet[d]  BY <3>1
    <3> QED  BY <3>3, <3>4, <3>5, <3>6
  <2>4. \A d \in Conns : packet[d].re # s  BY <2>2
  <2>5. s \notin published /\ got[s] # s  BY <2>2
  <2>6. \A d \in Conns : packet'[d].re # 0 =>
          /\ packet'[d].re \in answered' \ published'
          /\ got'[packet'[d].re] # packet'[d].re
          /\ packet'[d].left <= 1
        BY <2>2, <2>3, <2>5
  <2>7. \A d, e \in Conns : packet'[d].re = packet'[e].re /\ packet'[d].re # 0 => d = e
        BY <2>2, <2>3, <2>4
  <2>8. /\ published' \subseteq answered'
        /\ \A x \in Seqs : got'[x] = x => x \in answered'
        /\ \A x \in published' : got'[x] # x
        BY <2>3
  <2> QED  BY <2>6, <2>7, <2>8
<1>3. ASSUME NEW c \in Conns, ReadPush(c) PROVE InFlightOnce'
  <2>1. PICK p \in PushSeqs : ReadPacket(c, Key(p), 0)  BY <1>3 DEF ReadPush
  <2>2. /\ UNCHANGED <<got, published, answered>>
        /\ \A d \in Conns : d # c => packet'[d] = packet[d]
        /\ packet'[c].re = 0
        BY <2>1 DEF ReadPacket, NoPacket, mapVars
  <2> QED  BY <2>2
<1>4. ASSUME NEW c \in Conns, Dispatch(c) PROVE InFlightOnce'
  <2> DEFINE re == packet[c].re
  <2>1. packet[c] \in Packets /\ packet[c].key \in Keys /\ re \in Seqs \cup {0}
        /\ packet[c].left \in Nat
        BY DEF Packets
  <2>2. /\ UNCHANGED answered
        /\ \A d \in Conns : d # c => packet'[d] = packet[d]
        BY <1>4 DEF Dispatch
  <2>3. packet'[c].re = 0
    <3>1. CASE packet[c].left > 1
      <4>1. re = 0  BY <2>1, <3>1
      <4> QED  BY <1>4, <2>1, <3>1, <4>1 DEF Dispatch, Packets
    <3>2. CASE ~(packet[c].left > 1)  BY <1>4, <3>2 DEF Dispatch, NoPacket
    <3> QED  BY <3>1, <3>2
  <2>4. CASE pending[packet[c].key] # Absent
    <3>1. UNCHANGED published  BY <1>4, <2>4 DEF Dispatch
    <3>2. \A s \in Seqs : got'[s] = got[s] \/ got'[s] = re
          BY <1>4, <2>1, <2>4 DEF Dispatch, Resolve
    <3>3. \A s \in Seqs : got'[s] = s => got[s] = s \/ (s = re /\ re # 0)
          BY <3>2, MaxSeqAssumption DEF Seqs
    <3>4. \A d \in Conns : d # c /\ packet[d].re # 0 => packet[d].re # re
          OBVIOUS
    <3>5. \A d \in Conns : packet[d].re # 0 => packet[d].re \in Seqs
          BY DEF Packets
    <3> HIDE DEF re
    <3> QED  BY <2>1, <2>2, <2>3, <3>1, <3>3, <3>4, <3>5 DEF re
  <2>5. CASE pending[packet[c].key] = Absent
    <3>1. UNCHANGED got /\ published' = published \cup ({re} \ {0})
          BY <1>4, <2>5 DEF Dispatch, mapVars
    <3>2. \A d \in Conns : d # c /\ packet[d].re # 0 => packet[d].re # re
          OBVIOUS
    <3> QED  BY <2>1, <2>2, <2>3, <3>1, <3>2
  <2> QED  BY <2>4, <2>5
<1> QED  BY <1>1, <1>2, <1>3, <1>4

(* With one frame to a packet, an answer that a request received is never    *)
(* also published as an event, whether or not the keys wrap around.          *)
THEOREM OneDestinationEach ==
  ASSUME OneFrame
  PROVE  Spec => []OneDestination
<1> DEFINE I == TypeInv /\ InFlightOnce
<1>1. Init => I
  <2> SUFFICES ASSUME Init PROVE InFlightOnce  BY TypeInit
  <2> QED  BY MaxSeqAssumption DEF Init, PendingInit, NoPacket, InFlightOnce, Seqs
<1>2. I /\ [Next]_vars => I'  BY TypeStep, InFlightOnceStep
<1>3. I => OneDestination  BY DEF InFlightOnce, OneDestination
<1> QED  BY <1>1, <1>2, <1>3, PTL DEF Spec
-----------------------------------------------------------------------------
(* What the server has been sent: an answer, on its way or delivered, is to  *)
(* a request the server received.                                            *)
WasReached(s) == \E c \in Conns : s \in reached[c]

AnswersReached ==
  /\ \A c \in Conns : packet[c].re # 0 => WasReached(packet[c].re)
  /\ \A s \in Seqs : got[s] # 0 => WasReached(got[s])

(* A caller has no number before it takes one. *)
UnnumberedIdle == \A r \in Callers : pc[r] = "idle" => mine[r] = 0

RefineInv == MatchInv /\ AnswersReached /\ UnnumberedIdle

LEMMA ReachedFrame ==
  ASSUME [Next]_vars, \A t \in Tasks : ~Write(t)
  PROVE  UNCHANGED reached
  BY DEF Tasks, Next, Connect, Close, CallerStep, PingStep, TaskStep, TakeNumber,
         MakeRoom, Register, WriteFails, TakeAnswer, NoticeClosed, Expire, Refuse, Cleanup,
         Abandon, PingSeesFlagDown, PingKilled, WireDown, RecvStep, RecvContinues,
         RecvSeesFlagDown, ReadAnswer, ReadPush, ReadPacket, ReadFails, Dispatch,
         RecvLowersFlag, RecvCancelsAll, RecvKilled, serverVars, vars

LEMMA ReachedKept ==
  ASSUME TypeInv, [Next]_vars, NEW s, WasReached(s)
  PROVE  WasReached(s)'
<1>1. ASSUME NEW t \in Tasks, Write(t) PROVE WasReached(s)'
  <2>1. \A c \in Conns : reached[c] \subseteq reached'[c]  BY <1>1 DEF Write
  <2> QED  BY <2>1 DEF WasReached
<1>2. CASE \A t \in Tasks : ~Write(t)
      BY <1>2, ReachedFrame DEF WasReached
<1> QED  BY <1>1, <1>2

LEMMA AnswersReachedStep ==
  ASSUME TypeInv, AnswersReached, [Next]_vars
  PROVE  AnswersReached'
<1> USE DEF TypeInv, TypeOK, PendingTypeOK, AnswersReached
<1>0. \A s : WasReached(s) => WasReached(s)'  BY ReachedKept
<1>1. CASE \A c \in Conns : ~ReadAnswer(c) /\ ~ReadPush(c) /\ ~Dispatch(c)
  <2>1. UNCHANGED <<packet, got>>  BY <1>1, AnswerFrame
  <2> QED  BY <1>0, <2>1
<1>2. ASSUME NEW c \in Conns, NEW key, NEW re, re = 0 \/ WasReached(re),
             ReadPacket(c, key, re)
      PROVE  AnswersReached'
  <2>1. UNCHANGED got /\ \A d \in Conns :
          packet'[d] = packet[d] \/ packet'[d].re = 0 \/ packet'[d].re = re
        BY <1>2 DEF ReadPacket, NoPacket, mapVars
  <2>2. re = 0 \/ WasReached(re)'  BY <1>0, <1>2
  <2> QED  BY <1>0, <2>1, <2>2
<1>3. ASSUME NEW c \in Conns, ReadAnswer(c) \/ ReadPush(c) PROVE AnswersReached'
      BY <1>2, <1>3 DEF ReadAnswer, ReadPush, WasReached
<1>4. ASSUME NEW c \in Conns, Dispatch(c) PROVE AnswersReached'
  <2>1. packet[c] \in Packets /\ packet[c].key \in Keys  BY DEF Packets
  <2>2. \A d \in Conns : packet'[d].re = packet[d].re \/ packet'[d].re = 0
    <3>1. CASE packet[c].left > 1  BY <1>4, <2>1, <3>1 DEF Dispatch, Packets
    <3>2. CASE ~(packet[c].left > 1)  BY <1>4, <3>2 DEF Dispatch, NoPacket
    <3> QED  BY <3>1, <3>2
  <2>3. \A s \in Seqs : got'[s] = got[s] \/ got'[s] = packet[c].re
        BY <1>4, <2>1 DEF Dispatch, Resolve, mapVars
  <2> QED  BY <1>0, <2>2, <2>3
<1> QED  BY <1>1, <1>3, <1>4

LEMMA UnnumberedIdleStep ==
  ASSUME TypeInv, UnnumberedIdle, [Next]_vars
  PROVE  UnnumberedIdle'
<1> SUFFICES ASSUME NEW r \in Callers, pc'[r] = "idle" PROVE mine'[r] = 0
    BY DEF UnnumberedIdle
<1> USE DEF TypeInv, TypeOK, Tasks, Return, UnnumberedIdle
<1>1. CASE \/ TakeNumber(r) \/ MakeRoom(r) \/ Register(r) \/ Write(r)
           \/ WriteFails(r) \/ TakeAnswer(r)
      BY <1>1 DEF TakeNumber, MakeRoom, Register, Write, WriteFails, TakeAnswer
<1>2. CASE NoticeClosed(r) \/ Expire(r) \/ Refuse(r) \/ Cleanup(r) \/ Abandon(r)
      BY <1>2 DEF NoticeClosed, Expire, Refuse, Cleanup, Abandon
<1> QED  BY CallerFrame, <1>1, <1>2

LEMMA RefineInvInit == Init => RefineInv
<1> SUFFICES ASSUME Init PROVE RefineInv  OBVIOUS
<1>1. AnswersReached  BY DEF Init, PendingInit, NoPacket, AnswersReached
<1>2. UnnumberedIdle  BY DEF Init, UnnumberedIdle, Tasks
<1> QED  BY MatchInit, <1>1, <1>2 DEF RefineInv

LEMMA RefineInvStep ==
  ASSUME RefineInv, [Next]_vars
  PROVE  RefineInv'
  BY MatchStep, AnswersReachedStep, UnnumberedIdleStep DEF RefineInv, MatchInv, NumberInv
-----------------------------------------------------------------------------
(* A number is put on the wire by the task that has it. *)
LEMMA SeenKept ==
  ASSUME NumberInv, [Next]_vars, NEW r \in Callers, ~Write(r), ~TakeNumber(r)
  PROVE  r \in Seen' <=> r \in Seen
<1> USE DEF NumberInv, TypeInv, TypeOK, Tasks
<1>1. mine'[r] = mine[r]
      BY CallerFrame DEF MakeRoom, Register, WriteFails, TakeAnswer, NoticeClosed, Expire, Refuse,
                         Cleanup, Abandon, Return
<1>2. \A c \in Conns : mine[r] \in reached'[c] <=> mine[r] \in reached[c]
  <2>1. ASSUME NEW t \in Tasks, Write(t)
        PROVE  \A c \in Conns : mine[r] \in reached'[c] <=> mine[r] \in reached[c]
    <3>1. t # r  BY <2>1
    <3>2. mine[t] \in Seqs /\ mine[t] # 0
          BY <2>1, MaxSeqAssumption DEF Write, NumberTaken, Seqs
    <3>3. mine[t] # mine[r]
          BY <3>1, <3>2, Zenon DEF NumbersUnique, Tasks
    <3>4. \A c \in Conns : reached'[c] = reached[c] \/ reached'[c] = reached[c] \cup {mine[t]}
          BY <2>1 DEF Write
    <3> QED  BY <3>3, <3>4
  <2>2. CASE \A t \in Tasks : ~Write(t)  BY <2>2, ReachedFrame
  <2> QED  BY <2>1, <2>2
<1> QED  BY <1>1, <1>2 DEF Seen

LEMMA SeenAtNumber ==
  ASSUME NumberInv, UnnumberedIdle, NEW r \in Callers, TakeNumber(r)
  PROVE  r \notin Seen /\ r \notin Seen'
<1> USE DEF NumberInv, TypeInv, TypeOK
<1>1. /\ UNCHANGED reached /\ mine' = [mine EXCEPT ![r] = seq + 1]
      /\ pc[r] = "idle" /\ seq + 1 \in Seqs
      BY CallersAssumption, MaxSeqAssumption
      DEF TakeNumber, serverVars, Seqs, Conns
<1>2. \A c \in Conns : seq + 1 \notin reached[c]
  <2>1. chan[seq + 1] = "unused"  BY <1>1 DEF ChannelsFresh
  <2> QED  BY <2>1 DEF WireKnowsRegistered
<1>3. \A c \in Conns : mine[r] \notin reached[c]
      BY <1>1, MaxSeqAssumption DEF UnnumberedIdle, Seqs
<1> QED  BY <1>1, <1>2, <1>3 DEF Seen, Tasks

(* A call that is over stays as it ended. *)
LEMMA CallKept ==
  ASSUME NumberInv, OkMeansFull, [Next]_vars, NEW r \in Callers,
         pc'[r] = pc[r], outcome'[r] = outcome[r], mine'[r] = mine[r]
  PROVE  CallOf(r)' = CallOf(r)
<1>1. CASE outcome[r] = "ok"
  <2>1. mine[r] \in Seqs /\ chan[mine[r]] = "full"  BY <1>1 DEF OkMeansFull
  <2>2. got'[mine[r]] = got[mine[r]]  BY <2>1, GotKept DEF NumberInv
  <2> QED  BY <2>2 DEF CallOf, Answered
<1>2. CASE outcome[r] # "ok"  BY <1>2 DEF CallOf
<1> QED  BY <1>1, <1>2

(* One caller at a time takes a step of its own. *)
LEMMA OthersKept ==
  ASSUME NumberInv, OkMeansFull, [Next]_vars, NEW r \in Callers, CallerStep(r),
         NEW u \in Callers, u # r
  PROVE  CallOf(u)' = CallOf(u) /\ (u \in Seen' <=> u \in Seen)
<1> USE DEF NumberInv, TypeInv, TypeOK, Tasks
<1>1. pc'[u] = pc[u] /\ outcome'[u] = outcome[u] /\ mine'[u] = mine[u]
      BY DEF CallerStep, TaskStep, TakeNumber, MakeRoom, Register, Write, WriteFails, TakeAnswer,
             NoticeClosed, Expire, Refuse, Cleanup, Abandon, Return, taskVars
<1>2. CallOf(u)' = CallOf(u)  BY <1>1, CallKept
<1>3. ~Write(u) /\ ~TakeNumber(u)  BY <1>1 DEF Write, TakeNumber
<1> QED  BY <1>2, <1>3, SeenKept

(* Each step of a caller is a step of its call, or is not seen. *)
LEMMA CallStep ==
  ASSUME RefineInv, [Next]_vars, NEW r \in Callers, CallerStep(r)
  PROVE  \/ CallOf(r) = "new" /\ CallOf(r)' \in {"open", "failed"} /\ (r \in Seen' <=> r \in Seen)
         \/ CallOf(r) = "open" /\ CallOf(r)' = "open" /\ (r \in Seen => r \in Seen')
         \/ CallOf(r) = "open" /\ CallOf(r)' = "failed" /\ (r \in Seen' <=> r \in Seen)
         \/ CallOf(r) = "open" /\ CallOf(r)' = "misled" /\ (r \in Seen' <=> r \in Seen)
         \/ r \in Seen /\ CallOf(r) = "open" /\ CallOf(r)' = "answered" /\ r \in Seen'
<1> USE DEF RefineInv, MatchInv, NumberInv, TypeInv, TypeOK, Tasks, Return
<1>0. ~Write(r) /\ ~TakeNumber(r) => (r \in Seen' <=> r \in Seen)  BY SeenKept
<1>1. CASE TakeNumber(r)
  <2>1. pc[r] = "idle" /\ pc'[r] = "numbered"
        BY <1>1, CallersAssumption DEF TakeNumber, Conns
  <2> QED  BY <1>1, <2>1, SeenAtNumber DEF CallOf
<1>2. CASE MakeRoom(r) \/ Register(r)
  <2>1. pc[r] \in {"numbered", "cleared"} /\ pc'[r] \in {"cleared", "registered"}
        BY <1>2 DEF MakeRoom, Register
  <2> QED  BY <1>0, <1>2, <2>1 DEF CallOf, Write, TakeNumber
<1>3. CASE Write(r)
  <2>1. pc[r] = "registered" /\ pc'[r] = "waiting" /\ mine' = mine
        BY <1>3 DEF Write
  <2>2. r \in Seen => r \in Seen'  BY <1>3 DEF Write, Seen
  <2> QED  BY <2>1, <2>2 DEF CallOf
<1>4. CASE WriteFails(r)
  <2>1. pc[r] = "registered" /\ pc'[r] = "done" /\ outcome'[r] = "sendfailed"
        BY <1>4 DEF WriteFails
  <2> QED  BY <1>0, <2>1 DEF CallOf, Write, TakeNumber
<1>5. CASE TakeAnswer(r)
  <2>1. /\ pc[r] = "waiting" /\ pc'[r] = "done" /\ outcome'[r] = "ok"
        /\ chan[mine[r]] = "full" /\ mine[r] \in Seqs
        BY <1>5 DEF TakeAnswer, NumberTaken
  <2>2. UNCHANGED <<got, mine>>  BY <1>5 DEF TakeAnswer, mapVars
  <2>3. CallOf(r) = "open"  BY <2>1 DEF CallOf
  <2>4. r \in Seen' <=> r \in Seen  BY <1>0, <2>1 DEF Write, TakeNumber
  <2>5. CASE Answered(r)
    <3>1. WasReached(mine[r])
          BY <2>1, <2>5, MaxSeqAssumption DEF Answered, AnswersReached, Seqs
    <3>2. r \in Seen  BY <3>1 DEF WasReached, Seen
    <3>3. CallOf(r)' = "answered"  BY <2>1, <2>2, <2>5 DEF CallOf, Answered
    <3> QED  BY <2>3, <2>4, <3>2, <3>3
  <2>6. CASE ~Answered(r)
    <3>1. CallOf(r)' = "misled"  BY <2>1, <2>2, <2>6 DEF CallOf, Answered
    <3> QED  BY <2>3, <2>4, <3>1
  <2> QED  BY <2>5, <2>6
<1>6. CASE NoticeClosed(r) \/ Expire(r)
  <2>1. pc[r] = "waiting" /\ pc'[r] = "cleanup"  BY <1>6 DEF NoticeClosed, Expire
  <2> QED  BY <1>0, <2>1 DEF CallOf, Write, TakeNumber
<1>7. CASE Refuse(r)
  <2>1. pc[r] = "idle" /\ pc'[r] = "done" /\ outcome'[r] = "notconnected"
        BY <1>7 DEF Refuse
  <2> QED  BY <1>0, <2>1 DEF CallOf, Write, TakeNumber
<1>8. CASE Cleanup(r)
  <2>1. pc[r] = "cleanup" /\ pc'[r] = "done" /\ outcome'[r] = outcome[r]
        BY <1>8 DEF Cleanup
  <2>2. outcome[r] # "ok"  BY <2>1 DEF OkMeansFull
  <2> QED  BY <1>0, <2>1, <2>2 DEF CallOf, Write, TakeNumber
<1>9. CASE Abandon(r)
  <2>1. pc[r] \in {"registered", "waiting"} /\ pc'[r] = "done" /\ outcome'[r] = "abandoned"
        BY <1>9 DEF Abandon
  <2> QED  BY <1>0, <2>1 DEF CallOf, Write, TakeNumber
<1> QED  BY <1>1, <1>2, <1>3, <1>4, <1>5, <1>6, <1>7, <1>8, <1>9 DEF CallerStep, TaskStep

LEMMA NoCallerStep ==
  ASSUME NumberInv, OkMeansFull, [Next]_vars, \A r \in Callers : ~CallerStep(r),
         NEW r \in Callers
  PROVE  CallOf(r)' = CallOf(r) /\ (r \in Seen' <=> r \in Seen)
<1>1. pc'[r] = pc[r] /\ outcome'[r] = outcome[r] /\ mine'[r] = mine[r]
      BY CallerFrame DEF NumberInv, CallerStep, TaskStep
<1>2. ~Write(r) /\ ~TakeNumber(r)  BY DEF CallerStep, TaskStep
<1> QED  BY <1>1, <1>2, SeenKept, CallKept

LEMMA StepRefines ==
  ASSUME RefineInv, [Next]_vars
  PROVE  [RR!Next]_(RR!vars)
<1> DEFINE C == [r \in Callers |-> CallOf(r)]
           D == [r \in Callers |-> CallOf(r)']
<1>0. Seen \subseteq Callers /\ Seen' \subseteq Callers  BY DEF Seen
<1>1. CASE \A r \in Callers : ~CallerStep(r)
  <2>1. \A r \in Callers : CallOf(r)' = CallOf(r) /\ (r \in Seen' <=> r \in Seen)
        BY <1>1, NoCallerStep DEF RefineInv, MatchInv
  <2>2. C' = C /\ Seen' = Seen  BY <1>0, <2>1
  <2> QED  BY <2>2 DEF RR!vars
<1>2. ASSUME NEW r \in Callers, CallerStep(r) PROVE [RR!Next]_(RR!vars)
  <2>1. \A u \in Callers : u # r => CallOf(u)' = CallOf(u) /\ (u \in Seen' <=> u \in Seen)
        BY <1>2, OthersKept DEF RefineInv, MatchInv
  <2>2. C' = [C EXCEPT ![r] = CallOf(r)'] /\ C[r] = CallOf(r)
        BY <2>1
  <2>3. (r \in Seen' <=> r \in Seen) => Seen' = Seen
        BY <1>0, <2>1
  <2>4. (r \in Seen => r \in Seen') => Seen' = Seen \/ Seen' = Seen \cup {r}
        BY <1>0, <2>1
  <2>5. CallOf(r)' = CallOf(r) => C' = C  BY <2>2
  <2> HIDE DEF C
  <2>6. CASE CallOf(r) = "new" /\ CallOf(r)' \in {"open", "failed"} /\ (r \in Seen' <=> r \in Seen)
    <3>1. RR!Start(r) \/ RR!Reject(r)
          BY <2>2, <2>3, <2>6 DEF RR!Start, RR!Reject, RR!Go, C
    <3> QED  BY <3>1 DEF RR!Next
  <2>7. CASE CallOf(r) = "open" /\ CallOf(r)' = "open" /\ (r \in Seen => r \in Seen')
    <3>1. RR!Arrive(r) \/ UNCHANGED RR!vars
          BY <2>2, <2>4, <2>5, <2>7 DEF RR!Arrive, RR!vars, C
    <3> QED  BY <3>1 DEF RR!Next
  <2>8. CASE CallOf(r) = "open" /\ CallOf(r)' = "failed" /\ (r \in Seen' <=> r \in Seen)
    <3>1. RR!Fail(r)  BY <2>2, <2>3, <2>8 DEF RR!Fail, RR!Go, C
    <3> QED  BY <3>1 DEF RR!Next
  <2>9. CASE r \in Seen /\ CallOf(r) = "open" /\ CallOf(r)' = "answered" /\ r \in Seen'
    <3>1. RR!Answer(r)  BY <2>2, <2>3, <2>9 DEF RR!Answer, RR!Go, C
    <3> QED  BY <3>1 DEF RR!Next
  <2>10. CASE CallOf(r) = "open" /\ CallOf(r)' = "misled" /\ (r \in Seen' <=> r \in Seen)
    <3>1. RR!Mislead(r)  BY <2>2, <2>3, <2>10 DEF RR!Mislead, RR!Go, C
    <3> QED  BY <3>1 DEF RR!Next
  <2> QED  BY <1>2, <2>6, <2>7, <2>8, <2>9, <2>10, CallStep
<1> QED  BY <1>1, <1>2

LEMMA InitRefines == Init => RR!Init
<1> SUFFICES ASSUME Init PROVE RR!Init  OBVIOUS
<1>1. \A r \in Callers : CallOf(r) = "new"  BY DEF Init, CallOf, Tasks
<1>2. Seen = {}  BY DEF Init, Seen
<1> QED  BY <1>1, <1>2 DEF RR!Init

(* On both transports, every behaviour is one of RequestResponse, the safety *)
(* part of what ImplementsRequestResponse asks: a call returns once, and the *)
(* answer to it is returned only if the server received the request.         *)
THEOREM RefinesRequestResponse == Spec => RR!Spec
<1>1. Init => RefineInv  BY RefineInvInit
<1>2. RefineInv /\ [Next]_vars => RefineInv'  BY RefineInvStep
<1>3. Init => RR!Init  BY InitRefines
<1>4. RefineInv /\ [Next]_vars => [RR!Next]_(RR!vars)  BY StepRefines
<1> QED  BY <1>1, <1>2, <1>3, <1>4, PTL DEF Spec, RR!Spec
=============================================================================
