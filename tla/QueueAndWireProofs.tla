------------------------- MODULE QueueAndWireProofs -------------------------
(***************************************************************************)
(* What holds of the two things between the client and its peer: of        *)
(* OutgoingQueue, for every set of messages, capacity, retry limit and     *)
(* threshold; and of WireCodec, for every base, every set of packets and   *)
(* every way their bytes are cut up.                                       *)
(***************************************************************************)
EXTENDS OutgoingQueue, WireCodec, SequenceTheorems, WellFoundedInduction, TLAPS


(* The message in hand and those in the channel are accepted, and no message *)
(* is there twice.                                                           *)
Placed ==
  /\ loop = "recv" <=> hand = NoMessage
  /\ hand # NoMessage => fate[hand] = "accepted"
  /\ \A i \in 1 .. Len(queue) : fate[queue[i]] = "accepted" /\ queue[i] # hand
  /\ \A i, j \in 1 .. Len(queue) : queue[i] = queue[j] => i = j

(* Attempts and retries of a message that is not settled go together. *)
Counted ==
  \A m \in Messages :
    /\ fate[m] \notin {"sent", "dropped"} => attempts[m] = retries[m] /\ retries[m] <= MaxRetries
    /\ fate[m] = "dropped" => attempts[m] = MaxRetries + 1
    /\ fate[m] = "sent" => attempts[m] = retries[m] + 1

(* A breaker that lets a message through is below its threshold. *)
Closed == loop = "sending" => ~tripped

QueueInv == TypeOK /\ Placed /\ Counted /\ BreakerAgrees /\ Closed

LEMMA QueueInit == Init => QueueInv
<1> SUFFICES ASSUME Init PROVE QueueInv  OBVIOUS
<1>1. /\ queue = <<>> /\ loop = "recv" /\ hand = NoMessage /\ errors = 0
      /\ retries = [m \in Messages |-> 0] /\ attempts = [m \in Messages |-> 0]
      /\ fate = [m \in Messages |-> "new"]
      BY Zenon DEF Init
<1>2. ~tripped /\ tripped \in BOOLEAN /\ cooled \in BOOLEAN  BY Zenon DEF Init
<1>3. TypeOK
  <2>1. /\ retries \in [Messages -> 0 .. MaxRetries + 1]
        /\ attempts \in [Messages -> 0 .. MaxRetries + 1]
        BY <1>1, MaxRetriesAssumption
  <2>2. queue \in Seq(Messages) /\ fate \in [Messages -> Fates]
        BY <1>1 DEF Fates
  <2>3. loop \in LoopPlaces /\ errors \in 0 .. Threshold
        BY <1>1, ThresholdAssumption DEF LoopPlaces
  <2> QED  BY <1>1, <1>2, <2>1, <2>2, <2>3, Zenon DEF TypeOK
<1>4. Placed  BY <1>1 DEF Placed
<1>5. Counted
  <2>1. \A m \in Messages : fate[m] = "new" /\ retries[m] = 0 /\ attempts[m] = 0
        BY <1>1
  <2>2. 0 <= MaxRetries  BY MaxRetriesAssumption
  <2>3. \A m \in Messages : /\ attempts[m] = retries[m] /\ retries[m] <= MaxRetries
                            /\ fate[m] # "sent" /\ fate[m] # "dropped"
        BY <2>1, <2>2
  <2> QED  BY <2>3, Zenon DEF Counted
<1>6. Closed  BY <1>1 DEF Closed
<1>7. BreakerAgrees
  <2>1. ~(errors >= Threshold)  BY <1>1, ThresholdAssumption
  <2> QED  BY <1>2, <2>1, Zenon DEF BreakerAgrees
<1> QED  BY <1>3, <1>4, <1>5, <1>6, <1>7 DEF QueueInv

LEMMA QueueStep == QueueInv /\ [Next]_vars => QueueInv'
<1> SUFFICES ASSUME QueueInv, [Next]_vars PROVE QueueInv'  OBVIOUS
<1> USE NoMessageAssumption, MaxRetriesAssumption, ThresholdAssumption
        DEF QueueInv, TypeOK, LoopPlaces, Fates, countVars, breakerVars
<1>1. ASSUME NEW m \in Messages, Offer(m) PROVE QueueInv'
  <2>1. TypeOK'  BY <1>1 DEF Offer
  <2>2. Placed'  BY <1>1, SMTT(20) DEF Offer, Placed
  <2>3. Counted'  BY <1>1 DEF Offer, Counted
  <2>4. BreakerAgrees' /\ Closed'  BY <1>1 DEF Offer, BreakerAgrees, Closed
  <2> QED  BY <2>1, <2>2, <2>3, <2>4
<1>2. ASSUME NEW m \in Messages, Accept(m) PROVE QueueInv'
  <2>1. TypeOK'  BY <1>2 DEF Accept
  <2>2. Placed'  BY <1>2, SMTT(20) DEF Accept, Placed
  <2>3. Counted'  BY <1>2 DEF Accept, Counted
  <2>4. BreakerAgrees' /\ Closed'  BY <1>2 DEF Accept, BreakerAgrees, Closed
  <2> QED  BY <2>1, <2>2, <2>3, <2>4
<1>3. CASE Receive
  <2>1. TypeOK'  BY <1>3 DEF Receive
  <2>2. Placed'  BY <1>3 DEF Receive, Placed
  <2>3. Counted'  BY <1>3 DEF Receive, Counted
  <2>4. BreakerAgrees' /\ Closed'  BY <1>3 DEF Receive, BreakerAgrees, Closed
  <2> QED  BY <2>1, <2>2, <2>3, <2>4
<1>4. CASE CheckBreaker
  <2>1. TypeOK'  BY <1>4 DEF CheckBreaker, ResetIfCooled, IsTripped
  <2>2. Placed'  BY <1>4 DEF CheckBreaker, Placed
  <2>3. Counted'  BY <1>4 DEF CheckBreaker, Counted
  <2>4. CASE tripped /\ cooled
    <3>1. ~tripped' /\ errors' = 0  BY <1>4, <2>4 DEF CheckBreaker, ResetIfCooled
    <3>2. ~(errors' >= Threshold)  BY <3>1
    <3> QED  BY <2>1, <2>2, <2>3, <3>1, <3>2, Zenon DEF BreakerAgrees, Closed, QueueInv
  <2>5. CASE ~(tripped /\ cooled)
    <3>1. errors' = errors  BY <1>4, <2>5 DEF CheckBreaker, ResetIfCooled
    <3>2. tripped' <=> tripped
          BY <1>4, <2>5, Zenon DEF CheckBreaker, ResetIfCooled
    <3>3. BreakerAgrees'  BY <3>1, <3>2, Zenon DEF BreakerAgrees
    <3>4. ~IsTripped => ~tripped  BY <2>5, Zenon DEF IsTripped
    <3>5. loop' = "sending" => ~IsTripped  BY <1>4 DEF CheckBreaker
    <3>6. Closed'  BY <3>2, <3>4, <3>5, Zenon DEF Closed
    <3> QED  BY <2>1, <2>2, <2>3, <3>3, <3>6
  <2> QED  BY <2>4, <2>5
<1>5. CASE SendSucceeds
  <2>1. hand \in Messages /\ fate[hand] = "accepted" /\ ~tripped
        BY <1>5 DEF SendSucceeds, Placed, Closed
  <2>2. /\ attempts[hand] = retries[hand] /\ retries[hand] <= MaxRetries
        /\ errors < Threshold
        BY <2>1 DEF Counted, BreakerAgrees
  <2>3. TypeOK'
        BY <1>5, <2>1, <2>2 DEF SendSucceeds, LetGo, RecordSuccess
  <2>4. Placed'  BY <1>5, <2>1 DEF SendSucceeds, LetGo, Placed
  <2>5. Counted'  BY <1>5, <2>1, <2>2 DEF SendSucceeds, LetGo, Counted
  <2>6. ~tripped'  BY <1>5, <2>1, Zenon DEF SendSucceeds, RecordSuccess
  <2>7. ~(errors' >= Threshold)  BY <1>5, <2>2 DEF SendSucceeds, RecordSuccess
  <2>8. BreakerAgrees' /\ Closed'
        BY <2>6, <2>7, Zenon DEF BreakerAgrees, Closed
  <2> QED  BY <2>3, <2>4, <2>5, <2>8
<1>6. CASE SendFails
  <2>1. hand \in Messages /\ fate[hand] = "accepted" /\ ~tripped
        BY <1>6 DEF SendFails, Placed, Closed
  <2>2. /\ attempts[hand] = retries[hand] /\ retries[hand] <= MaxRetries
        /\ errors < Threshold
        BY <2>1 DEF Counted, BreakerAgrees
  <2>3. errors' = errors + 1 /\ errors' \in 0 .. Threshold
        BY <1>6, <2>2 DEF SendFails, RecordFailure
  <2>4. tripped' <=> errors' >= Threshold
        BY <1>6, <2>1, <2>3, Zenon DEF SendFails, RecordFailure
  <2>5. tripped' \in BOOLEAN /\ cooled' \in BOOLEAN
    <3>1. tripped' = (tripped \/ errors + 1 >= Threshold) /\ cooled' = FALSE
          BY <1>6, Zenon DEF SendFails, RecordFailure
    <3> QED  BY <3>1, Zenon
  <2>6. /\ queue' \in Seq(Messages)
        /\ loop' \in LoopPlaces
        /\ hand' \in Messages \cup {NoMessage}
        /\ retries' \in [Messages -> 0 .. MaxRetries + 1]
        /\ attempts' \in [Messages -> 0 .. MaxRetries + 1]
        /\ fate' \in [Messages -> Fates]
    <3>1. queue' = queue /\ loop' \in {"backoff", "recv"}  BY <1>6 DEF SendFails, LetGo
    <3>2. hand' \in {hand, NoMessage}  BY <1>6 DEF SendFails, LetGo
    <3>3. /\ attempts' = [attempts EXCEPT ![hand] = @ + 1]
          /\ retries' = [retries EXCEPT ![hand] = @ + 1]
          BY <1>6 DEF SendFails
    <3>4. attempts[hand] + 1 \in 0 .. MaxRetries + 1 /\ retries[hand] + 1 \in 0 .. MaxRetries + 1
          BY <2>1, <2>2
    <3>5. fate' = fate \/ fate' = [fate EXCEPT ![hand] = "dropped"]
          BY <1>6 DEF SendFails, LetGo
    <3>6. fate' \in [Messages -> Fates]  BY <3>5
    <3> QED  BY <2>1, <3>1, <3>2, <3>3, <3>4, <3>6
  <2>7. TypeOK'  BY <2>3, <2>5, <2>6
  <2>8. Placed'  BY <1>6, <2>1, SMTT(20) DEF SendFails, LetGo, Placed
  <2>9. Counted'  BY <1>6, <2>1, <2>2 DEF SendFails, LetGo, Counted
  <2>10. loop' # "sending"  BY <1>6 DEF SendFails, LetGo
  <2>11. BreakerAgrees' /\ Closed'  BY <2>4, <2>10, Zenon DEF BreakerAgrees, Closed
  <2> QED  BY <2>7, <2>8, <2>9, <2>11
<1>7. CASE SleepOver
  <2>1. TypeOK' /\ Placed'  BY <1>7 DEF SleepOver, Placed
  <2>2. Counted'  BY <1>7 DEF SleepOver, Counted
  <2>3. BreakerAgrees' /\ Closed'  BY <1>7 DEF SleepOver, BreakerAgrees, Closed
  <2> QED  BY <2>1, <2>2, <2>3
<1>8. CASE Requeue
  <2>1. hand \in Messages  BY <1>8 DEF Requeue, Placed
  <2>2. TypeOK'  BY <1>8, <2>1 DEF Requeue
  <2>3. Placed'  BY <1>8, <2>1, SMTT(20) DEF Requeue, Placed
  <2>4. Counted'  BY <1>8 DEF Requeue, Counted
  <2>5. BreakerAgrees' /\ Closed'  BY <1>8 DEF Requeue, BreakerAgrees, Closed
  <2> QED  BY <2>2, <2>3, <2>4, <2>5
<1>9. CASE CooldownPasses \/ UNCHANGED vars
  <2>1. TypeOK' /\ Placed'  BY <1>9 DEF CooldownPasses, vars, Placed
  <2>2. Counted'  BY <1>9 DEF CooldownPasses, vars, Counted
  <2>3. BreakerAgrees' /\ Closed'
        BY <1>9 DEF CooldownPasses, vars, BreakerAgrees, Closed
  <2> QED  BY <2>1, <2>2, <2>3
<1> QED  BY <1>1, <1>2, <1>3, <1>4, <1>5, <1>6, <1>7, <1>8, <1>9 DEF Next, Consumer
-----------------------------------------------------------------------------
(* Every variable keeps its type; the breaker's count never passes its       *)
(* threshold.                                                                *)
THEOREM TypeCorrect == Spec => []TypeOK
<1>1. QueueInv => TypeOK  BY DEF QueueInv
<1> QED  BY <1>1, QueueInit, QueueStep, PTL DEF Spec

(* A message is dropped only after its first attempt and every retry failed. *)
THEOREM RetriesExhausted == Spec => []DroppedOnlyWhenExhausted
<1>1. QueueInv => DroppedOnlyWhenExhausted
      BY DEF QueueInv, Counted, DroppedOnlyWhenExhausted
<1> QED  BY <1>1, QueueInit, QueueStep, PTL DEF Spec

(* The breaker is tripped exactly while its count has reached the threshold. *)
THEOREM BreakerAlwaysAgrees == Spec => []BreakerAgrees
<1>1. QueueInv => BreakerAgrees  BY DEF QueueInv
<1> QED  BY <1>1, QueueInit, QueueStep, PTL DEF Spec
-----------------------------------------------------------------------------
(* An accepted message is somewhere, and the channel is no larger than it is. *)
Findable(m) == hand = m \/ \E i \in 1 .. Len(queue) : queue[i] = m

Held == /\ \A m \in Messages : fate[m] = "accepted" => Findable(m)
        /\ Len(queue) <= Capacity

LEMMA HeldInit == Init => Held
BY CapacityAssumption DEF Init, Held

(* What a step does to the channel, to the hand and to the accepted messages. *)
LEMMA PlaceStep ==
  ASSUME QueueInv, [Next]_vars
  PROVE  \/ UNCHANGED <<queue, hand>> /\ \A m \in Messages : fate'[m] = "accepted" => fate[m] = "accepted"
         \/ \E m \in Messages : Accept(m)
         \/ Receive \/ Requeue
         \/ loop = "sending" /\ UNCHANGED queue /\ (LetGo("sent") \/ LetGo("dropped"))
<1> USE DEF QueueInv, TypeOK
<1>1. ASSUME NEW m \in Messages, Offer(m)
      PROVE  UNCHANGED <<queue, hand>> /\ \A n \in Messages : fate'[n] = "accepted" => fate[n] = "accepted"
      BY <1>1 DEF Offer
<1>2. CASE CheckBreaker \/ SleepOver \/ CooldownPasses \/ UNCHANGED vars
      BY <1>2 DEF CheckBreaker, SleepOver, CooldownPasses, vars
<1>3. CASE SendSucceeds  BY <1>3 DEF SendSucceeds
<1>4. CASE SendFails  BY <1>4 DEF SendFails
<1> QED  BY <1>1, <1>2, <1>3, <1>4 DEF Next, Consumer

LEMMA HeldStep == QueueInv /\ Held /\ [Next]_vars => Held'
<1> SUFFICES ASSUME QueueInv, Held, [Next]_vars PROVE Held'  OBVIOUS
<1> USE NoMessageAssumption, CapacityAssumption DEF QueueInv, TypeOK, Held, Findable
<1>0. Len(queue) \in Nat /\ Len(queue') \in Nat
  <2>1. queue \in Seq(Messages)  OBVIOUS
  <2>2. queue' \in Seq(Messages)  BY QueueStep
  <2> QED  BY <2>1, <2>2
<1>1. CASE UNCHANGED <<queue, hand>> /\ \A m \in Messages : fate'[m] = "accepted" => fate[m] = "accepted"
      BY <1>1
<1>2. ASSUME NEW m \in Messages, Accept(m) PROVE Held'
  <2>1. /\ Len(queue') = Len(queue) + 1 /\ queue'[Len(queue) + 1] = m /\ hand' = hand
        /\ \A i \in 1 .. Len(queue) : queue'[i] = queue[i]
        /\ fate' = [fate EXCEPT ![m] = "accepted"]
        BY <1>2 DEF Accept
  <2>2. Len(queue') <= Capacity  BY <1>2, <2>1 DEF Accept, HasRoom
  <2>3. ASSUME NEW n \in Messages, fate'[n] = "accepted" PROVE Findable(n)'
    <3>1. CASE n = m
      <4>1. Len(queue) + 1 \in 1 .. Len(queue')  BY <2>1
      <4> QED  BY <2>1, <3>1, <4>1
    <3>2. CASE n # m
      <4>1. fate[n] = "accepted"  BY <2>1, <2>3, <3>2
      <4>2. CASE hand = n  BY <2>1, <4>2
      <4>3. CASE \E i \in 1 .. Len(queue) : queue[i] = n
        <5>1. PICK i \in 1 .. Len(queue) : queue[i] = n  BY <4>3
        <5>2. i \in 1 .. Len(queue')  BY <1>0, <2>1
        <5>3. queue'[i] = n  BY <2>1, <5>1
        <5> QED  BY <5>2, <5>3
      <4> QED  BY <4>1, <4>2, <4>3
    <3> QED  BY <3>1, <3>2
  <2> QED  BY <2>2, <2>3
<1>3. CASE Receive
  <2>1. /\ hand = NoMessage /\ Len(queue) > 0 /\ hand' = queue[1] /\ fate' = fate
        /\ Len(queue') = Len(queue) - 1
        /\ \A i \in 1 .. Len(queue) - 1 : queue'[i] = queue[i + 1]
        BY <1>3 DEF Receive, Placed
  <2>2. Len(queue') <= Capacity  BY <2>1
  <2>3. ASSUME NEW n \in Messages, fate'[n] = "accepted" PROVE Findable(n)'
    <3>1. PICK i \in 1 .. Len(queue) : queue[i] = n  BY <2>1, <2>3
    <3>2. CASE i = 1  BY <2>1, <3>1, <3>2
    <3>3. CASE i # 1
      <4>1. PICK j \in 1 .. Len(queue) - 1 : j + 1 = i
        <5>1. PICK l \in Nat : l = Len(queue)  BY <1>0
        <5>2. i \in 1 .. l /\ i # 1  BY <3>1, <3>3, <5>1
        <5>3. i - 1 \in 1 .. l - 1 /\ (i - 1) + 1 = i  BY ONLY <5>1, <5>2
        <5> QED  BY <5>1, <5>3
      <4>2. queue'[j] = n  BY <2>1, <3>1, <4>1
      <4>3. j \in 1 .. Len(queue')  BY <2>1, <4>1
      <4> QED  BY <4>2, <4>3
    <3> QED  BY <3>2, <3>3
  <2> QED  BY <2>2, <2>3
<1>4. CASE Requeue
  <2>1. /\ Len(queue') = Len(queue) + 1 /\ queue'[Len(queue) + 1] = hand /\ fate' = fate
        /\ \A i \in 1 .. Len(queue) : queue'[i] = queue[i]
    <3>1. hand \in Messages  BY <1>4 DEF Requeue, Placed
    <3> QED  BY <1>4, <3>1 DEF Requeue
  <2>2. Len(queue') <= Capacity  BY <1>4, <2>1 DEF Requeue, HasRoom
  <2>3. ASSUME NEW n \in Messages, fate'[n] = "accepted" PROVE Findable(n)'
    <3>1. CASE hand = n
      <4>1. Len(queue) + 1 \in 1 .. Len(queue')  BY <2>1
      <4> QED  BY <2>1, <3>1, <4>1
    <3>2. CASE \E i \in 1 .. Len(queue) : queue[i] = n
      <4>1. PICK i \in 1 .. Len(queue) : queue[i] = n  BY <3>2
      <4>2. i \in 1 .. Len(queue')  BY <1>0, <2>1
      <4>3. queue'[i] = n  BY <2>1, <4>1
      <4> QED  BY <4>2, <4>3
    <3>3. Findable(n)  BY <2>1, <2>3
    <3> QED  BY <3>1, <3>2, <3>3
  <2> QED  BY <2>2, <2>3
<1>5. CASE loop = "sending" /\ UNCHANGED queue /\ (LetGo("sent") \/ LetGo("dropped"))
  <2>1. hand \in Messages  BY <1>5 DEF Placed
  <2>2. \A n \in Messages : fate'[n] = "accepted" => fate[n] = "accepted" /\ n # hand
        BY <1>5, <2>1 DEF LetGo
  <2> QED  BY <1>5, <2>2
<1> QED  BY PlaceStep, <1>1, <1>2, <1>3, <1>4, <1>5

(* An accepted message is once in the channel or in the consumer's hand      *)
(* until it is sent or dropped, and no other message is in either            *)
(* (queue.rs): no retry, delay or full channel loses or doubles one.         *)
THEOREM AlwaysOnePlace == Spec => []OnePlace
<1>1. QueueInv /\ Held => OnePlace
  <2> SUFFICES ASSUME QueueInv, Held PROVE OnePlace  OBVIOUS
  <2> USE DEF QueueInv, TypeOK, Placed, Held, Findable, Occurrences
  <2>1. ASSUME NEW m \in Messages, fate[m] = "accepted"
        PROVE  \/ hand = m /\ Occurrences(m) = {}
               \/ hand # m /\ \E i \in 1 .. Len(queue) : Occurrences(m) = {i}
    <3>1. CASE hand = m  BY <3>1
    <3>2. CASE hand # m
      <4>1. PICK i \in 1 .. Len(queue) : queue[i] = m  BY <2>1, <3>2
      <4>2. \A j \in 1 .. Len(queue) : queue[j] = m => j = i  BY <4>1
      <4>3. Occurrences(m) = {i}  BY <4>1, <4>2
      <4> QED  BY <3>2, <4>3
    <3> QED  BY <3>1, <3>2
  <2>2. ASSUME NEW m \in Messages, fate[m] # "accepted"
        PROVE  hand # m /\ Occurrences(m) = {}
        BY <2>2, NoMessageAssumption
  <2> QED  BY <2>1, <2>2 DEF OnePlace
<1> QED  BY <1>1, QueueInit, QueueStep, HeldInit, HeldStep, PTL DEF Spec
-----------------------------------------------------------------------------
(* WireCodec: numbers and their bytes *)

LEMMA DivMod ==
  ASSUME NEW a \in Nat, NEW b \in Nat \ {0}
  PROVE  /\ a \div b \in Nat /\ a % b \in 0 .. b - 1
         /\ a = b * (a \div b) + (a % b)
<1>1. a = b * (a \div b) + (a % b)  BY Z3
<1>2. a % b \in 0 .. b - 1  BY Z3
<1>3. a \div b \in Nat  BY Z3
<1> QED  BY <1>1, <1>2, <1>3

LEMMA TimesMonotonic ==
  ASSUME NEW b \in Nat \ {0}, NEW q \in Int, NEW p \in Int, q < p
  PROVE  b * q + b <= b * p
<1>1. p - q >= 1  OBVIOUS
<1>2. PICK d \in Nat : p = q + 1 + d  BY <1>1
<1>3. b * p = b * q + b + b * d  BY <1>2
<1>4. b * d >= 0  OBVIOUS
<1>5. b * p \in Int /\ b * q \in Int /\ b * d \in Int  OBVIOUS
<1> QED  BY ONLY <1>3, <1>4, <1>5, b \in Int

(* Quotient and remainder are determined. *)
LEMMA DivUnique ==
  ASSUME NEW b \in Nat \ {0}, NEW q \in Nat, NEW r \in 0 .. b - 1
  PROVE  (b * q + r) \div b = q /\ (b * q + r) % b = r
<1> DEFINE p == (b * q + r) \div b
           s == (b * q + r) % b
<1>1. b * q + r \in Nat  OBVIOUS
<1>2. p \in Nat /\ s \in 0 .. b - 1 /\ b * q + r = b * p + s
      BY <1>1, DivMod
<1> HIDE DEF p, s
<1>3. b * q \in Int /\ b * p \in Int  BY <1>2
<1>4. ~(q < p)
  <2> SUFFICES ASSUME q < p PROVE FALSE  OBVIOUS
  <2>1. b * q + b <= b * p  BY <1>2, TimesMonotonic
  <2> QED  BY <1>2, <1>3, <2>1
<1>5. ~(p < q)
  <2> SUFFICES ASSUME p < q PROVE FALSE  OBVIOUS
  <2>1. b * p + b <= b * q  BY <1>2, TimesMonotonic
  <2> QED  BY <1>2, <1>3, <2>1
<1>6. q = p  BY <1>2, <1>4, <1>5
<1>7. r = s  BY <1>2, <1>3, <1>6
<1> QED  BY <1>6, <1>7 DEF p, s

(* The four bytes of a number are its digits. *)
LEMMA BytesOfFour ==
  ASSUME NEW a \in Digit, NEW b \in Digit, NEW c \in Digit, NEW d \in Digit,
         NEW n, n = (Base * Base) * (Base * a + b) + (Base * c + d)
  PROVE  /\ Byte(n, LengthCap) = a /\ Byte(n, Base * Base) = b
         /\ Byte(n, Base) = c /\ Byte(n, 1) = d
<1> USE BaseAssumption DEF Digit
<1> DEFINE n3 == a
           n2 == Base * n3 + b
           n1 == Base * n2 + c
<1>1. n2 \in Nat /\ n1 \in Nat  OBVIOUS
<1>2. n = Base * n1 + d  OBVIOUS
<1>3. Base * c + d \in 0 .. Base * Base - 1
  <2>1. Base * c + Base <= Base * Base  BY TimesMonotonic
  <2>2. Base * c \in Nat /\ Base * Base \in Nat  OBVIOUS
  <2> QED  BY <2>1, <2>2
<1>4. n = (Base * Base) * n2 + (Base * c + d)  OBVIOUS
<1>5. (Base * Base) * b + (Base * c + d) \in 0 .. LengthCap - 1
  <2>1. (Base * Base) * b + Base * Base <= (Base * Base) * Base
        BY TimesMonotonic
  <2>2. (Base * Base) * b \in Nat /\ (Base * Base) * Base \in Nat /\ Base * Base \in Nat
        OBVIOUS
  <2> QED  BY <1>3, <2>1, <2>2 DEF LengthCap
<1>6. n = LengthCap * n3 + ((Base * Base) * b + (Base * c + d))  BY DEF LengthCap
<1>7. LengthCap \in Nat \ {0} /\ Base * Base \in Nat \ {0}  BY DEF LengthCap
<1> HIDE DEF n1, n2, n3
<1>8. n \div 1 = n /\ n % Base = d /\ n \div Base = n1
  <2>1. n \in Nat  BY <1>1, <1>2
  <2> QED  BY <1>1, <1>2, <2>1, DivUnique
<1>9. n \div (Base * Base) = n2
      BY ONLY <1>1, <1>3, <1>4, <1>7, DivUnique
<1>10. n \div LengthCap = n3
      BY ONLY <1>5, <1>6, <1>7, DivUnique, a \in Nat DEF n3
<1>11. n1 % Base = c  BY <1>1, DivUnique DEF n1
<1>12. n2 % Base = b  BY DivUnique DEF n2, n3
<1>13. n3 % Base = a
  <2>1. a = Base * 0 + a  OBVIOUS
  <2> QED  BY <2>1, DivUnique DEF n3
<1> QED  BY <1>8, <1>9, <1>10, <1>11, <1>12, <1>13 DEF Byte

(* A number of two bytes is read back from them. *)
LEMMA BytesOfTwo ==
  ASSUME NEW n \in 0 .. Base * Base - 1
  PROVE  /\ Byte(n, Base) \in Digit /\ Byte(n, 1) \in Digit
         /\ Base * Byte(n, Base) + Byte(n, 1) = n
<1> USE BaseAssumption DEF Digit
<1>1. n \in Nat /\ n < Base * Base  OBVIOUS
<1>2. PICK q, d \in Nat : q = n \div Base /\ d = n % Base /\ d \in 0 .. Base - 1 /\ n = Base * q + d
      BY <1>1, DivMod
<1>3. q < Base
  <2> SUFFICES ASSUME ~(q < Base) PROVE FALSE  OBVIOUS
  <2>1. q = Base \/ Base < q  BY <1>2
  <2>2. CASE q = Base  BY <1>1, <1>2, <2>2
  <2>3. CASE Base < q
    <3>1. Base * Base + Base <= Base * q  BY <1>2, <2>3, TimesMonotonic
    <3>2. Base * Base \in Nat /\ Base * q \in Nat  BY <1>2
    <3> QED  BY <1>1, <1>2, <3>1, <3>2
  <2> QED  BY <2>1, <2>2, <2>3
<1>4. n \div 1 = n  OBVIOUS
<1>5. q % Base = q
  <2>1. q = Base * 0 + q  BY <1>2
  <2>2. q \in 0 .. Base - 1 BY <1>2, <1>3
  <2> QED  BY <2>1, <2>2, DivUnique
<1> QED  BY <1>2, <1>3, <1>4, <1>5 DEF Byte

LEMMA QuotientBelow ==
  ASSUME NEW n \in Nat, NEW b \in Nat \ {0}, NEW c \in Nat, n < b * c
  PROVE  n \div b < c
<1>1. PICK q, r \in Nat : q = n \div b /\ r \in 0 .. b - 1 /\ n = b * q + r
      BY DivMod
<1>2. SUFFICES ASSUME ~(q < c) PROVE FALSE  BY <1>1
<1>3. c = q \/ c < q  BY <1>1, <1>2
<1>4. CASE c = q  BY <1>1, <1>4
<1>5. CASE c < q
  <2>1. b * c + b <= b * q  BY <1>1, <1>5, TimesMonotonic
  <2>2. b * c \in Nat /\ b * q \in Nat  BY <1>1
  <2> QED  BY <1>1, <2>1, <2>2
<1> QED  BY <1>3, <1>4, <1>5

(* The length field of a packet is four digits, the first of them the flag. *)
LEMMA LengthFieldDigits ==
  ASSUME NEW p \in Packet
  PROVE  /\ LengthField(p) \in Nat
         /\ LengthField(p) \div LengthCap = p.flag
         /\ LengthField(p) % LengthCap = Len(p.body) % LengthCap
         /\ \E b, c, d \in Digit :
              LengthField(p) = (Base * Base) * (Base * p.flag + b) + (Base * c + d)
<1> USE BaseAssumption
<1>1. p.flag \in Digit /\ p.body \in Seq(Digit)  BY DEF Packet
<1>2. PICK cap, sq \in Nat \ {0} : cap = LengthCap /\ sq = Base * Base /\ cap = sq * Base
  <2>1. LengthCap \in Nat \ {0} /\ Base * Base \in Nat \ {0} /\ LengthCap = (Base * Base) * Base
        BY DEF LengthCap
  <2> QED  BY <2>1
<1>3. PICK m \in Nat : m = Len(p.body) % LengthCap /\ m \in 0 .. cap - 1
  <2>1. PICK n \in Nat : n = Len(p.body)  BY <1>1
  <2>2. n % cap \in 0 .. cap - 1  BY <1>2, DivMod
  <2>3. n % cap \in Nat  BY <1>2, <2>2
  <2> QED  BY <1>2, <2>1, <2>2, <2>3
<1>4. p.flag \in Nat  BY <1>1 DEF Digit
<1>5. LengthField(p) = cap * p.flag + m  BY <1>2, <1>3 DEF LengthField
<1>6. LengthField(p) \div LengthCap = p.flag /\ LengthField(p) % LengthCap = m
  <2>1. (cap * p.flag + m) \div cap = p.flag /\ (cap * p.flag + m) % cap = m
        BY <1>3, <1>4, DivUnique
  <2> QED  BY <1>2, <1>5, <2>1
<1>7. PICK b, r \in Nat : b = m \div sq /\ r \in 0 .. sq - 1 /\ m = sq * b + r
  <2>1. m \div sq \in Nat /\ m % sq \in 0 .. sq - 1 /\ m = sq * (m \div sq) + (m % sq)
        BY DivMod
  <2>2. m % sq \in Nat  BY <2>1
  <2> QED  BY <2>1, <2>2
<1>8. b < Base
  <2>1. m < cap  BY <1>3
  <2>2. m < sq * Base  BY <1>2, <2>1
  <2> QED  BY <1>7, <2>2, QuotientBelow
<1>9. PICK c, d \in Digit : r = Base * c + d
  <2>1. r < Base * Base  BY <1>2, <1>7
  <2>2. r \div Base < Base  BY <1>7, <2>1, QuotientBelow
  <2>3. /\ r \div Base \in Nat /\ r % Base \in 0 .. Base - 1
        /\ r = Base * (r \div Base) + (r % Base)
        BY <1>7, DivMod
  <2>4. r \div Base \in Digit /\ r % Base \in Digit  BY <2>2, <2>3 DEF Digit
  <2> QED  BY <2>3, <2>4
<1>10. b \in Digit  BY <1>7, <1>8 DEF Digit
<1>11. LengthField(p) = (Base * Base) * (Base * p.flag + b) + (Base * c + d)
  <2>1. c \in Nat /\ d \in Nat  BY <1>9 DEF Digit
  <2>2. PICK f \in Nat : f = p.flag  BY <1>4
  <2>3. (Base * Base * Base) * f = (Base * Base) * (Base * f)  OBVIOUS
  <2>4. (Base * Base) * (Base * f) + (Base * Base) * b = (Base * Base) * (Base * f + b)
        OBVIOUS
  <2>5. /\ (Base * Base) * (Base * f) \in Nat /\ (Base * Base) * b \in Nat
        /\ Base * c + d \in Nat
        BY <2>1
  <2>6. LengthField(p) = (Base * Base) * (Base * f) + ((Base * Base) * b + (Base * c + d))
        BY <1>2, <1>5, <1>7, <1>9, <2>2, <2>3
  <2> QED  BY <2>2, <2>4, <2>5, <2>6
<1>12. LengthField(p) \in Nat
  <2>1. cap * p.flag \in Nat  BY <1>2, <1>4
  <2> QED  BY <1>3, <1>5, <2>1
<1> QED  BY <1>3, <1>6, <1>9, <1>10, <1>11, <1>12

(* What can be read back from the header of a packet. *)
LEMMA HeaderRead ==
  ASSUME NEW p \in Packet, NEW h,
         \A i \in 1 .. HeaderSize : h[i] = PackHeader(p)[i]
  PROVE  /\ h[1] = p.ver /\ Number2(h, 2) = p.cmd /\ h[4] = p.seq % Base
         /\ Number2(h, 5) = p.opcode
         /\ PackedLength(h) = LengthField(p)
<1>1. /\ p.ver \in Digit /\ p.cmd \in 0 .. Base * Base - 1 /\ p.seq \in Nat
      /\ p.opcode \in 0 .. Base * Base - 1 /\ p.flag \in Digit /\ p.body \in Seq(Digit)
      BY DEF Packet
<1>2. PICK b, c, d \in Digit :
        LengthField(p) = (Base * Base) * (Base * p.flag + b) + (Base * c + d)
      BY LengthFieldDigits
<1>3. /\ h[1] = p.ver /\ h[2] = Byte(p.cmd, Base) /\ h[3] = Byte(p.cmd, 1)
      /\ h[4] = p.seq % Base
      /\ h[5] = Byte(p.opcode, Base) /\ h[6] = Byte(p.opcode, 1)
      /\ h[7] = Byte(LengthField(p), LengthCap) /\ h[8] = Byte(LengthField(p), Base * Base)
      /\ h[9] = Byte(LengthField(p), Base) /\ h[10] = Byte(LengthField(p), 1)
      BY DEF PackHeader, HeaderSize
<1>4. Number2(h, 2) = p.cmd /\ Number2(h, 5) = p.opcode
      BY <1>1, <1>3, BytesOfTwo DEF Number2
<1>5. h[7] = p.flag /\ h[8] = b /\ h[9] = c /\ h[10] = d
      BY <1>1, <1>2, <1>3, BytesOfFour
<1>6. PackedLength(h) = LengthField(p)
      BY <1>2, <1>5 DEF PackedLength, Number4, Number2
<1> QED  BY <1>3, <1>4, <1>6

(* A packet is a header and a body. *)
LEMMA HeaderTyped ==
  ASSUME NEW p \in Packet
  PROVE  /\ PackHeader(p) \in Seq(Digit) /\ Len(PackHeader(p)) = HeaderSize
         /\ PackPacket(p) \in Seq(Digit)
         /\ Len(PackPacket(p)) = HeaderSize + Len(p.body)
         /\ \A i \in 1 .. HeaderSize : PackPacket(p)[i] = PackHeader(p)[i]
         /\ \A i \in 1 .. Len(p.body) : PackPacket(p)[HeaderSize + i] = p.body[i]
<1>1. /\ p.ver \in Digit /\ p.cmd \in 0 .. Base * Base - 1 /\ p.seq \in Nat
      /\ p.opcode \in 0 .. Base * Base - 1 /\ p.flag \in Digit /\ p.body \in Seq(Digit)
      BY DEF Packet
<1>2. p.seq % Base \in Digit
      BY <1>1, BaseAssumption, DivMod DEF Digit
<1>3. /\ Byte(p.cmd, Base) \in Digit /\ Byte(p.cmd, 1) \in Digit
      /\ Byte(p.opcode, Base) \in Digit /\ Byte(p.opcode, 1) \in Digit
      BY <1>1, BytesOfTwo
<1>4. PICK b, c, d \in Digit :
        LengthField(p) = (Base * Base) * (Base * p.flag + b) + (Base * c + d)
      BY LengthFieldDigits
<1>5. /\ Byte(LengthField(p), LengthCap) \in Digit /\ Byte(LengthField(p), Base * Base) \in Digit
      /\ Byte(LengthField(p), Base) \in Digit /\ Byte(LengthField(p), 1) \in Digit
      BY <1>1, <1>4, BytesOfFour
<1>6. PackHeader(p) \in Seq(Digit) /\ Len(PackHeader(p)) = HeaderSize
      BY <1>1, <1>2, <1>3, <1>5 DEF PackHeader, HeaderSize
<1>7. PICK h \in Seq(Digit) : h = PackHeader(p)  BY <1>6
<1>8. /\ h \o p.body \in Seq(Digit)
      /\ Len(h \o p.body) = HeaderSize + Len(p.body)
      /\ \A i \in 1 .. HeaderSize + Len(p.body) :
           (h \o p.body)[i] = IF i <= HeaderSize THEN h[i] ELSE p.body[i - HeaderSize]
      BY <1>1, <1>6, <1>7, ConcatProperties
<1>9. Len(p.body) \in Nat /\ HeaderSize \in Nat  BY <1>1 DEF HeaderSize
<1>10. \A i \in 1 .. HeaderSize : (h \o p.body)[i] = h[i]  BY <1>8, <1>9
<1>11. \A i \in 1 .. Len(p.body) : (h \o p.body)[HeaderSize + i] = p.body[i]
  <2> SUFFICES ASSUME NEW i \in 1 .. Len(p.body)
               PROVE  (h \o p.body)[HeaderSize + i] = p.body[i]
      OBVIOUS
  <2>1. HeaderSize + i \in 1 .. HeaderSize + Len(p.body) /\ ~(HeaderSize + i <= HeaderSize)
        /\ (HeaderSize + i) - HeaderSize = i
        BY <1>9
  <2> QED  BY <1>8, <2>1
<1> QED  BY <1>6, <1>7, <1>8, <1>10, <1>11 DEF PackPacket

LEMMA LengthThatFits ==
  ASSUME NEW n \in Nat, n < LengthCap
  PROVE  n % LengthCap = n
<1>1. PICK c \in Nat \ {0} : c = LengthCap  BY BaseAssumption DEF LengthCap
<1>2. n \in 0 .. c - 1  BY <1>1
<1>3. (c * 0 + n) % c = n  BY <1>2, DivUnique
<1>4. c * 0 + n = n  OBVIOUS
<1> QED  BY <1>1, <1>3, <1>4

(* unpack_packet takes from what pack_packet wrote exactly what was meant    *)
(* (socket.rs 181-256), for every packet whose payload is below 2^24 bytes   *)
(* and every value of its fields.                                            *)
THEOREM PacketRoundTrip ==
  ASSUME NEW p \in Packet, Len(p.body) < LengthCap
  PROVE  UnpackPacket(PackPacket(p)) = Meant(p)
<1> DEFINE data == PackPacket(p)
<1>1. /\ data \in Seq(Digit) /\ Len(data) = HeaderSize + Len(p.body)
      /\ \A i \in 1 .. HeaderSize : data[i] = PackHeader(p)[i]
      /\ \A i \in 1 .. Len(p.body) : data[HeaderSize + i] = p.body[i]
      BY HeaderTyped
<1>2. p.body \in Seq(Digit) /\ Len(p.body) \in Nat  BY DEF Packet
<1> HIDE DEF data
<1>4. /\ data[1] = p.ver /\ Number2(data, 2) = p.cmd /\ data[4] = p.seq % Base
      /\ Number2(data, 5) = p.opcode /\ PackedLength(data) = LengthField(p)
      BY <1>1, HeaderRead
<1>5. PackedLength(data) \div LengthCap = p.flag /\ PayloadLength(data) = Len(p.body) % LengthCap
      BY <1>4, LengthFieldDigits DEF PayloadLength
<1>6. Len(p.body) % LengthCap = Len(p.body)  BY <1>2, LengthThatFits
<1>7. Payload(data) = p.body
  <2>1. PICK n \in Nat : n = Len(p.body)  BY <1>2
  <2>2. Payload(data) = SubSeq(data, 11, 10 + n)
        BY <1>5, <1>6, <2>1 DEF Payload, HeaderSize
  <2>3. \A i \in 11 .. 10 + n : data[i] \in Digit
        BY <1>1, <2>1 DEF HeaderSize
  <2>4. /\ SubSeq(data, 11, 10 + n) \in Seq(Digit)
        /\ Len(SubSeq(data, 11, 10 + n)) = IF 11 <= 10 + n THEN (10 + n) - 11 + 1 ELSE 0
        /\ \A i \in 1 .. (10 + n) - 11 + 1 : SubSeq(data, 11, 10 + n)[i] = data[11 + i - 1]
        BY <2>3, SubSeqProperties
  <2>5. Len(SubSeq(data, 11, 10 + n)) = n  BY <2>4
  <2>6. \A i \in 1 .. n : SubSeq(data, 11, 10 + n)[i] = p.body[i]
        BY <1>1, <2>1, <2>4 DEF HeaderSize
  <2> QED  BY <1>2, <2>1, <2>2, <2>4, <2>5, <2>6, SeqEqual
<1>8. UnpackPacket(data) = Meant(p)
      BY <1>4, <1>5, <1>7 DEF UnpackPacket, Meant
<1> QED  BY <1>8 DEF data
-----------------------------------------------------------------------------
(* WireCodec: the stream and the receive loop *)

(* Where the k-th packet starts in the stream. *)
Start(k) == IF k = 1 THEN 0 ELSE ends[k - 1]

(* The k-th packet is in the stream, whole, where it should be. *)
LaidAt(k) ==
  /\ Start(k) >= 0 /\ ends[k] = Start(k) + HeaderSize + Len(sent[k].body)
  /\ \A i \in 1 .. HeaderSize + Len(sent[k].body) :
       stream[Start(k) + i] = PackPacket(sent[k])[i]

(* The stream is the packets written, one after the other. *)
Laid ==
  /\ Len(ends) = Len(sent) /\ Len(stream) = Start(Len(sent) + 1)
  /\ \A j, k \in 1 .. Len(sent) : j <= k => ends[j] <= ends[k]
  /\ \A k \in 1 .. Len(sent) : LaidAt(k)

(* While lengths fit, the loop stands at the start of the packet after those *)
(* delivered, or after its header.                                           *)
AtBoundary ==
  LET n == Len(delivered) IN
  LengthsFit(n) =>
    /\ n <= Len(sent)
    /\ header = <<>> => read = Start(n + 1)
    /\ header # <<>> =>
         /\ read = Start(n + 1) + HeaderSize
         /\ \A i \in 1 .. HeaderSize : header[i] = stream[Start(n + 1) + i]

(* The loop ends when the connection did and no whole read is left. *)
EndedDry == running \/ (~alive /\ Available < Needed)

(* The inductive invariant of WireSpec. *)
WireInv == WireTypeOK /\ Laid /\ AtBoundary /\ EndedDry /\ InStep

(* What a packet decodes to is typed. *)
LEMMA ValueTyped ==
  ASSUME NEW flag, NEW bytes \in Seq(Digit)
  PROVE  Value(flag, bytes) \in Content
<1>1. ASSUME NEW s \in Seq(Digit) PROVE Decoded(s) \in Content
  <2>1. CASE s = <<>>  BY <2>1 DEF Decoded, Content
  <2>2. CASE s # <<>>
    <3>1. Tail(s) \in Seq(Digit)  BY <2>2, HeadTailProperties
    <3>2. CASE Head(s) = 0  BY <2>2, <3>1, <3>2 DEF Decoded, Content
    <3>3. CASE Head(s) # 0  BY <2>2, <3>1, <3>3 DEF Decoded, Content
    <3> QED  BY <3>2, <3>3
  <2> QED  BY <2>1, <2>2
<1>2. ASSUME bytes # <<>> PROVE Decompressed(bytes) \in Seq(Digit)
  <2>1. Tail(bytes) \in Seq(Digit)  BY <1>2, HeadTailProperties
  <2> QED  BY <2>1 DEF Decompressed
<1>3. CASE bytes = <<>>  BY <1>3 DEF Value, Content
<1>4. CASE bytes # <<>>
  <2>1. CASE flag # 0
    <3>1. PICK s \in Seq(Digit) : s = Decompressed(bytes)  BY <1>2, <1>4
    <3> QED  BY <1>1, <1>4, <2>1, <3>1 DEF Value
  <2>2. CASE flag = 0  BY <1>1, <1>4, <2>2 DEF Value
  <2> QED  BY <2>1, <2>2
<1> QED  BY <1>3, <1>4

LEMMA FramesTyped ==
  ASSUME NEW f \in Frame
  PROVE  Frames(f) \in Seq(Frame)
<1>1. /\ f.ver \in Digit /\ f.cmd \in Nat /\ f.seq \in Digit /\ f.opcode \in Nat
      /\ f.value \in Content /\ f.value.items \in Seq(Digit)
      BY DEF Frame, Content
<1>2. CASE f.value.tag = "bad"  BY <1>2 DEF Frames
<1>3. CASE f.value.tag = "list"
  <2>1. PICK n \in Nat : DOMAIN f.value.items = 1 .. n
        BY <1>1
  <2> DEFINE item(i) == [f EXCEPT !.value = [tag |-> "item", items |-> <<f.value.items[i]>>]]
  <2>2. ASSUME NEW i \in 1 .. n PROVE item(i) \in Frame
    <3>1. f.value.items[i] \in Digit  BY <1>1, <2>1
    <3>2. [tag |-> "item", items |-> <<f.value.items[i]>>] \in Content
          BY <3>1 DEF Content
    <3> QED  BY <3>2 DEF Frame
  <2>3. Frames(f) = [i \in 1 .. n |-> item(i)]  BY <1>3, <2>1 DEF Frames
  <2> HIDE DEF item
  <2>4. [i \in 1 .. n |-> item(i)] \in [1 .. n -> Frame]  BY <2>2
  <2>5. [i \in 1 .. n |-> item(i)] \in Seq(Frame)  BY <2>4, SeqDef
  <2> QED  BY <2>3, <2>5
<1>4. CASE f.value.tag # "bad" /\ f.value.tag # "list"
  <2>1. Frames(f) = <<f>>  BY <1>4 DEF Frames
  <2> QED  BY <2>1
<1> QED  BY <1>2, <1>3, <1>4

(* A packet, of any bytes, as long as its length field says. *)
LEMMA UnpackTyped ==
  ASSUME NEW data \in Seq(Digit), NEW m \in Nat, m = PayloadLength(data),
         Len(data) = HeaderSize + m
  PROVE  Frames(UnpackPacket(data)) \in Seq(Frame)
<1>1. \A i \in 1 .. 10 + m : data[i] \in Digit  BY DEF HeaderSize
<1>2. Payload(data) \in Seq(Digit)
  <2>1. Payload(data) = SubSeq(data, 11, 10 + m)  BY DEF Payload, HeaderSize
  <2>2. \A i \in 11 .. 10 + m : data[i] \in Digit  BY <1>1
  <2> QED  BY <2>1, <2>2, SubSeqProperties
<1>3. PICK v \in Content : v = Value(PackedLength(data) \div LengthCap, Payload(data))
      BY <1>2, ValueTyped
<1>4. Number2(data, 2) \in Nat /\ Number2(data, 5) \in Nat
  <2>1. ASSUME NEW i \in 1 .. 9 PROVE Number2(data, i) \in Nat
    <3>1. PICK x, y \in Nat : x = data[i] /\ y = data[i + 1]
      <4>1. i \in 1 .. 10 + m /\ i + 1 \in 1 .. 10 + m  OBVIOUS
      <4>2. data[i] \in Digit /\ data[i + 1] \in Digit  BY <1>1, <4>1
      <4>3. Digit \subseteq Nat  BY BaseAssumption DEF Digit
      <4> QED  BY <4>2, <4>3
    <3>2. Base * x + y \in Nat  BY BaseAssumption
    <3> QED  BY <3>1, <3>2 DEF Number2
  <2> QED  BY <2>1
<1>5. UnpackPacket(data) \in Frame
      BY <1>1, <1>3, <1>4 DEF UnpackPacket, Frame
<1> QED  BY <1>5, FramesTyped

(* The types in the form the steps use. *)
LEMMA TypesOfState ==
  ASSUME WireTypeOK
  PROVE  /\ Len(sent) \in Nat /\ DOMAIN sent = 1 .. Len(sent)
         /\ \A k \in 1 .. Len(sent) : sent[k] \in Packet /\ sent[k].body \in Seq(Digit)
                                      /\ Len(sent[k].body) \in Nat
         /\ Len(delivered) \in Nat /\ DOMAIN delivered = 1 .. Len(delivered)
         /\ Len(stream) \in Nat /\ arrived \in 0 .. Len(stream) /\ read \in 0 .. arrived
         /\ \A i \in 1 .. Len(stream) : stream[i] \in Digit
         /\ Len(ends) \in Nat /\ \A k \in 1 .. Len(ends) : ends[k] \in Nat
<1>1. \A k \in 1 .. Len(sent) : sent[k] \in Packet
      BY PacketsAssumption DEF WireTypeOK
<1>2. \A k \in 1 .. Len(sent) : sent[k].body \in Seq(Digit) /\ Len(sent[k].body) \in Nat
      BY <1>1 DEF Packet
<1>3. /\ Len(sent) \in Nat /\ DOMAIN sent = 1 .. Len(sent)
      /\ Len(delivered) \in Nat /\ DOMAIN delivered = 1 .. Len(delivered)
      /\ Len(ends) \in Nat /\ \A k \in 1 .. Len(ends) : ends[k] \in Nat
      BY DEF WireTypeOK
<1>4. Len(stream) \in Nat /\ \A i \in 1 .. Len(stream) : stream[i] \in Digit
      BY DEF WireTypeOK
<1>5. arrived \in 0 .. Len(stream) /\ read \in 0 .. arrived  BY DEF WireTypeOK
<1> QED  BY <1>1, <1>2, <1>3, <1>4, <1>5, Zenon

(* With a header in hand the packet it begins was written, its length is the *)
(* one the header tells, and it ends where the payload does.                 *)
LEMMA HeaderAtBoundary ==
  ASSUME WireTypeOK, Laid, AtBoundary, header # <<>>,
         NEW n \in Nat, n = Len(delivered), LengthsFit(n + 1)
  PROVE  /\ n + 1 \in 1 .. Len(sent) /\ read = Start(n + 1) + HeaderSize
         /\ \A i \in 1 .. HeaderSize : header[i] = PackPacket(sent[n + 1])[i]
         /\ Len(sent[n + 1].body) < LengthCap
         /\ PayloadLength(header) = Len(sent[n + 1].body)
         /\ ends[n + 1] = read + PayloadLength(header)
<1>1. LengthsFit(n)
  <2>1. \A k \in DOMAIN sent : k <= n => k <= n + 1  BY TypesOfState
  <2> QED  BY <2>1 DEF LengthsFit
<1>2. /\ n <= Len(sent) /\ read = Start(n + 1) + HeaderSize
      /\ \A i \in 1 .. HeaderSize : header[i] = stream[Start(n + 1) + i]
      BY <1>1 DEF AtBoundary
<1>3. n # Len(sent)
  <2> SUFFICES ASSUME n = Len(sent) PROVE FALSE  OBVIOUS
  <2>1. Len(stream) = Start(n + 1)  BY DEF Laid
  <2>2. read <= Len(stream) /\ Len(stream) \in Nat  BY TypesOfState
  <2> QED  BY <1>2, <2>1, <2>2 DEF HeaderSize
<1>4. n + 1 \in 1 .. Len(sent)
  <2>1. PICK l \in Nat : l = Len(sent)  BY TypesOfState
  <2>2. n <= l /\ n # l  BY <1>2, <1>3, <2>1
  <2> QED  BY <2>1, <2>2
<1>5. PICK p \in Packet : p = sent[n + 1] /\ Len(p.body) \in Nat
      BY <1>4, TypesOfState
<1>6. /\ ends[n + 1] = Start(n + 1) + HeaderSize + Len(p.body)
      /\ \A i \in 1 .. HeaderSize + Len(p.body) : stream[Start(n + 1) + i] = PackPacket(p)[i]
      BY <1>4, <1>5 DEF Laid, LaidAt
<1>7. \A i \in 1 .. HeaderSize : header[i] = PackPacket(p)[i]
  <2>1. \A i \in 1 .. HeaderSize : i \in 1 .. HeaderSize + Len(p.body)
        BY <1>5 DEF HeaderSize
  <2> QED  BY <1>2, <1>6, <2>1
<1>8. Len(p.body) < LengthCap
  <2>1. n + 1 \in DOMAIN sent /\ n + 1 <= n + 1  BY <1>4, TypesOfState
  <2> QED  BY <1>5, <2>1 DEF LengthsFit
<1>9. PayloadLength(header) = Len(p.body)
  <2>1. \A i \in 1 .. HeaderSize : header[i] = PackHeader(p)[i]  BY <1>7, HeaderTyped
  <2>2. PackedLength(header) = LengthField(p)  BY <2>1, HeaderRead
  <2>3. PackedLength(header) % LengthCap = Len(p.body) % LengthCap
        BY <2>2, LengthFieldDigits
  <2>4. Len(p.body) % LengthCap = Len(p.body)  BY <1>8, LengthThatFits
  <2> QED  BY <2>3, <2>4 DEF PayloadLength
<1>10. ends[n + 1] = read + PayloadLength(header)
      BY <1>2, <1>5, <1>6, <1>9 DEF HeaderSize
<1> QED  BY <1>2, <1>4, <1>5, <1>7, <1>8, <1>9, <1>10

LEMMA WireInitInv == WireInit => WireInv
<1> SUFFICES ASSUME WireInit PROVE WireInv  OBVIOUS
<1>1. /\ sent = <<>> /\ stream = <<>> /\ ends = <<>> /\ arrived = 0 /\ read = 0
      /\ header = <<>> /\ delivered = <<>>
      BY DEF WireInit
<1>2. alive /\ alive \in BOOLEAN /\ running /\ running \in BOOLEAN
      BY Zenon DEF WireInit
<1>3. WireTypeOK
  <2>1. /\ sent \in Seq(Packets) /\ Len(sent) <= MaxPackets /\ stream \in Seq(Digit)
        /\ ends \in Seq(Nat) /\ header \in Seq(Digit) /\ Len(header) \in {0, HeaderSize}
        /\ delivered \in Seq(Seq(Frame)) /\ arrived \in 0 .. Len(stream) /\ read \in 0 .. arrived
        BY <1>1, PacketsAssumption
  <2> QED  BY <1>1, <1>2, <2>1, Zenon DEF WireTypeOK
<1>4. Laid  BY <1>1 DEF Laid, Start
<1>5. AtBoundary  BY <1>1 DEF AtBoundary, Start
<1>6. EndedDry  BY <1>2, Zenon DEF EndedDry
<1>7. InStep  BY <1>1 DEF InStep
<1> QED  BY <1>3, <1>4, <1>5, <1>6, <1>7 DEF WireInv

LEMMA WireWrite ==
  ASSUME WireInv, NEW p \in Packets, Write(p)
  PROVE  WireInv'
<1>1. WireTypeOK /\ Laid /\ AtBoundary /\ EndedDry /\ InStep  BY Zenon DEF WireInv
<1>2. /\ alive /\ Len(sent) < MaxPackets
      /\ sent' = Append(sent, p) /\ stream' = stream \o PackPacket(p)
      /\ ends' = Append(ends, Len(stream'))
      /\ arrived' = arrived /\ alive' = alive /\ read' = read /\ header' = header
      /\ delivered' = delivered /\ running' = running
      BY DEF Write, loopVars
<1>3. p \in Packet /\ p.body \in Seq(Digit)  BY PacketsAssumption DEF Packet
<1>4. PICK l, s, n \in Nat : l = Len(sent) /\ s = Len(stream) /\ n = Len(delivered)
  <2>1. Len(sent) \in Nat /\ Len(stream) \in Nat /\ Len(delivered) \in Nat
        BY <1>1, TypesOfState
  <2> QED  BY <2>1
<1>5. PICK q \in Seq(Digit), m, b \in Nat :
        q = PackPacket(p) /\ m = Len(p.body) /\ b = HeaderSize + m /\ Len(q) = b
  <2>1. PICK m \in Nat : m = Len(p.body)  BY <1>3
  <2>2. HeaderSize + m \in Nat  BY DEF HeaderSize
  <2>3. PackPacket(p) \in Seq(Digit) /\ Len(PackPacket(p)) = HeaderSize + m
        BY <1>3, <2>1, HeaderTyped
  <2> QED  BY <2>1, <2>2, <2>3
<1>6. /\ sent' \in Seq(Packets) /\ Len(sent') = l + 1 /\ sent'[l + 1] = p
      /\ \A k \in 1 .. l : sent'[k] = sent[k]
      BY <1>1, <1>2, <1>4, AppendProperties DEF WireTypeOK
<1>7. /\ stream' \in Seq(Digit) /\ Len(stream') = s + b
      /\ \A i \in 1 .. s : stream'[i] = stream[i]
      /\ \A i \in 1 .. b : stream'[s + i] = q[i]
  <2>1. /\ stream' \in Seq(Digit) /\ Len(stream') = s + b
        /\ \A i \in 1 .. s + b : stream'[i] = IF i <= s THEN stream[i] ELSE q[i - s]
    <3>1. stream \in Seq(Digit)  BY <1>1 DEF WireTypeOK
    <3>2. stream' = stream \o q  BY <1>2, <1>5
    <3>3. /\ stream \o q \in Seq(Digit) /\ Len(stream \o q) = Len(stream) + Len(q)
          /\ \A i \in 1 .. Len(stream) + Len(q) :
               (stream \o q)[i] = IF i <= Len(stream) THEN stream[i] ELSE q[i - Len(stream)]
          BY <3>1, ConcatProperties
    <3> QED  BY <1>4, <1>5, <3>2, <3>3
  <2>2. ASSUME NEW i \in 1 .. b PROVE stream'[s + i] = q[i]
    <3>1. s + i \in 1 .. s + b /\ ~(s + i <= s) /\ (s + i) - s = i  BY <1>4
    <3> QED  BY <2>1, <3>1
  <2>3. \A i \in 1 .. s : i \in 1 .. s + b /\ i <= s  BY <1>4
  <2> QED  BY <2>1, <2>2, <2>3
<1>8. /\ ends' \in Seq(Nat) /\ Len(ends') = l + 1 /\ ends'[l + 1] = s + b
      /\ \A k \in 1 .. l : ends'[k] = ends[k]
  <2>1. ends \in Seq(Nat) /\ Len(ends) = l  BY <1>1, <1>4 DEF WireTypeOK, Laid
  <2>2. s + b \in Nat  BY <1>4
  <2> QED  BY <1>2, <1>7, <2>1, <2>2, AppendProperties
<1>9. /\ \A k \in 1 .. l + 1 : Start(k)' = Start(k)
      /\ Start(l + 1) = s /\ Start(l + 2)' = s + b
  <2>1. ASSUME NEW k \in 1 .. l + 1 PROVE Start(k)' = Start(k)
    <3>1. CASE k = 1  BY <3>1 DEF Start
    <3>2. CASE k # 1
      <4>1. k - 1 \in 1 .. l  BY <1>4, <3>2
      <4> QED  BY <1>8, <3>2, <4>1 DEF Start
    <3> QED  BY <3>1, <3>2
  <2>2. Start(l + 1) = s  BY <1>1, <1>4 DEF Laid
  <2>3. Start(l + 2)' = s + b
    <3>1. l + 2 # 1 /\ (l + 2) - 1 = l + 1  BY <1>4
    <3> QED  BY <1>8, <3>1 DEF Start
  <2> QED  BY <2>1, <2>2, <2>3
<1>10. ASSUME NEW k, LengthsFit(k)' PROVE LengthsFit(k)
  <2>1. DOMAIN sent = 1 .. l /\ DOMAIN sent' = 1 .. l + 1
        BY <1>1, <1>4, <1>6, TypesOfState
  <2>2. \A j \in 1 .. l : j \in 1 .. l + 1  BY <1>4
  <2> QED  BY <1>6, <1>10, <2>1, <2>2 DEF LengthsFit
<1>11. \A k \in 1 .. l : ends[k] \in 0 .. s
  <2>1. ASSUME NEW k \in 1 .. l PROVE ends[k] \in 0 .. s
    <3>1. l \in 1 .. l /\ k <= l /\ l + 1 # 1 /\ (l + 1) - 1 = l  BY <1>4
    <3>2. ends[k] <= ends[l]  BY <1>1, <1>4, <3>1 DEF Laid
    <3>3. ends[l] = s  BY <1>9, <3>1 DEF Start
    <3>4. ends[k] \in Nat  BY <1>1, <1>4, TypesOfState DEF Laid
    <3> QED  BY <1>4, <3>2, <3>3, <3>4
  <2> QED  BY <2>1
<1>12. WireTypeOK'
  <2>1. Len(sent') <= MaxPackets  BY <1>2, <1>4, <1>6, PacketsAssumption
  <2>2. arrived' \in 0 .. Len(stream')
        BY <1>1, <1>2, <1>4, <1>7, TypesOfState
  <2>3. read' \in 0 .. arrived' /\ header' \in Seq(Digit) /\ Len(header') \in {0, HeaderSize}
        /\ delivered' \in Seq(Seq(Frame))
        BY <1>1, <1>2 DEF WireTypeOK
  <2>4. alive' \in BOOLEAN /\ running' \in BOOLEAN  BY <1>1, <1>2, Zenon DEF WireTypeOK
  <2> QED  BY <1>6, <1>7, <1>8, <2>1, <2>2, <2>3, <2>4, Zenon DEF WireTypeOK
<1>13. Laid'
  <2>1. Len(ends') = Len(sent')  BY <1>6, <1>8
  <2>2. Len(stream') = (Start(Len(sent) + 1))'
    <3>1. (l + 1) + 1 # 1 /\ ((l + 1) + 1) - 1 = l + 1  BY <1>4
    <3>2. (Start(Len(sent) + 1))' = ends'[l + 1]  BY <1>6, <3>1 DEF Start
    <3> QED  BY <1>7, <1>8, <3>2
  <2>3. ASSUME NEW j \in 1 .. l + 1, NEW k \in 1 .. l + 1, j <= k
        PROVE  ends'[j] <= ends'[k]
    <3>1. CASE k \in 1 .. l
      <4>1. j \in 1 .. l  BY <1>4, <2>3, <3>1
      <4>2. ends[j] <= ends[k]  BY <1>1, <1>4, <2>3, <3>1, <4>1 DEF Laid
      <4> QED  BY <1>8, <3>1, <4>1, <4>2
    <3>2. CASE k = l + 1 /\ j = l + 1  BY <1>4, <1>8, <3>2
    <3>3. CASE k = l + 1 /\ j \in 1 .. l
      <4>1. ends'[j] \in 0 .. s  BY <1>8, <1>11, <3>3
      <4> QED  BY <1>4, <1>8, <3>3, <4>1
    <3> QED  BY <1>4, <3>1, <3>2, <3>3
  <2>4. ASSUME NEW k \in 1 .. l + 1 PROVE LaidAt(k)'
    <3>1. CASE k \in 1 .. l
      <4>1. /\ Start(k) >= 0 /\ ends[k] = Start(k) + HeaderSize + Len(sent[k].body)
            /\ \A i \in 1 .. HeaderSize + Len(sent[k].body) :
                 stream[Start(k) + i] = PackPacket(sent[k])[i]
            BY <1>1, <1>4, <3>1 DEF Laid, LaidAt
      <4>2. Start(k)' = Start(k) /\ ends'[k] = ends[k] /\ sent'[k] = sent[k]
            BY <1>6, <1>8, <1>9, <3>1
      <4>3. PICK c, a, e \in Nat : /\ c = HeaderSize + Len(sent[k].body) /\ a = Start(k)
                                  /\ e = ends[k] /\ e <= s
        <5>1. PICK d \in Nat : d = Len(sent[k].body)  BY <1>1, <1>4, <3>1, TypesOfState
        <5>2. PICK c \in Nat : c = HeaderSize + d  BY DEF HeaderSize
        <5>3. k = 1 \/ k - 1 \in 1 .. l  BY <1>4, <3>1
        <5>4. PICK a \in Nat : a = Start(k)  BY <1>11, <5>3 DEF Start
        <5>5. PICK e \in Nat : e = ends[k] /\ e <= s  BY <1>11, <3>1
        <5> QED  BY <5>1, <5>2, <5>4, <5>5
      <4>4. PICK d \in Nat : d = Len(sent[k].body)  BY <1>1, <1>4, <3>1, TypesOfState
      <4>5. a + c <= s
        <5>1. c = 10 + d  BY <4>3, <4>4 DEF HeaderSize
        <5>2. e = a + 10 + d  BY <4>1, <4>3, <4>4 DEF HeaderSize
        <5> QED  BY ONLY <4>3, <5>1, <5>2, a \in Nat, c \in Nat, d \in Nat, e \in Nat, s \in Nat
      <4>6. \A i \in 1 .. c : stream'[a + i] = stream[a + i]
        <5>1. \A i \in 1 .. c : a + i \in 1 .. s  BY <1>4, <4>5
        <5> QED  BY <1>7, <5>1
      <4> QED  BY <4>1, <4>2, <4>3, <4>6 DEF LaidAt
    <3>2. CASE k = l + 1
      <4>1. Start(k)' = s /\ sent'[k] = p /\ ends'[k] = s + b
            BY <1>6, <1>8, <1>9, <3>2
      <4>2. s + b = s + HeaderSize + Len(p.body)
        <5>1. b = 10 + m  BY <1>5 DEF HeaderSize
        <5>2. s + b = s + 10 + m  BY ONLY <5>1, s \in Nat, m \in Nat
        <5> QED  BY <1>5, <5>2 DEF HeaderSize
      <4>3. s >= 0  BY <1>4
      <4> QED  BY <1>5, <1>7, <4>1, <4>2, <4>3 DEF LaidAt
    <3> QED  BY <1>4, <3>1, <3>2
  <2> QED  BY <1>6, <2>1, <2>2, <2>3, <2>4 DEF Laid
<1>14. AtBoundary'
  <2> SUFFICES ASSUME LengthsFit(n)'
               PROVE  /\ n <= l + 1
                      /\ header = <<>> => read = Start(n + 1)'
                      /\ header # <<>> =>
                           /\ read = Start(n + 1)' + HeaderSize
                           /\ \A i \in 1 .. HeaderSize : header[i] = stream'[Start(n + 1)' + i]
      BY <1>2, <1>4, <1>6 DEF AtBoundary
  <2>1. LengthsFit(n)  BY <1>10
  <2>2. /\ n <= l
        /\ header = <<>> => read = Start(n + 1)
        /\ header # <<>> =>
             /\ read = Start(n + 1) + HeaderSize
             /\ \A i \in 1 .. HeaderSize : header[i] = stream[Start(n + 1) + i]
        BY <1>1, <1>4, <2>1 DEF AtBoundary
  <2>3. n + 1 \in 1 .. l + 1 /\ n <= l + 1  BY <1>4, <2>2
  <2>4. Start(n + 1)' = Start(n + 1)  BY <1>9, <2>3
  <2>5. ASSUME header # <<>>, NEW i \in 1 .. HeaderSize
        PROVE  stream'[Start(n + 1) + i] = stream[Start(n + 1) + i]
    <3>1. PICK a \in Nat : a = Start(n + 1)
      <4>1. n + 1 = 1 \/ (n + 1) - 1 \in 1 .. l  BY <1>4, <2>2
      <4> QED  BY <1>11, <4>1 DEF Start
    <3>2. a + 10 <= s
      <4>1. read = a + 10  BY <2>2, <2>5, <3>1 DEF HeaderSize
      <4>2. arrived \in 0 .. s /\ read \in 0 .. arrived  BY <1>1, <1>4, TypesOfState
      <4> QED  BY <1>4, <4>1, <4>2
    <3>3. a + i \in 1 .. s  BY <1>4, <3>1, <3>2 DEF HeaderSize
    <3> QED  BY <1>7, <3>1, <3>3
  <2> QED  BY <2>2, <2>3, <2>4, <2>5
<1>15. EndedDry'
  <2>1. running  BY <1>1, <1>2, Zenon DEF EndedDry
  <2> QED  BY <1>2, <2>1, Zenon DEF EndedDry
<1>16. InStep'
  <2> SUFFICES ASSUME NEW k \in DOMAIN delivered
               PROVE  LengthsFit(k)' => k \in DOMAIN sent' /\ delivered[k] = Frames(Meant(sent'[k]))
      BY <1>2 DEF InStep
  <2>1. LengthsFit(k) => k \in DOMAIN sent /\ delivered[k] = Frames(Meant(sent[k]))
        BY <1>1 DEF InStep
  <2>2. ASSUME LengthsFit(k)'
        PROVE  k \in DOMAIN sent' /\ delivered[k] = Frames(Meant(sent'[k]))
    <3>1. k \in DOMAIN sent /\ delivered[k] = Frames(Meant(sent[k]))  BY <1>10, <2>1, <2>2
    <3>2. k \in 1 .. l  BY <1>1, <1>4, <3>1, TypesOfState
    <3>3. k \in DOMAIN sent'  BY <1>4, <1>6, <3>2
    <3> QED  BY <1>6, <3>1, <3>2, <3>3
  <2> QED  BY <2>2
<1> QED  BY <1>12, <1>13, <1>14, <1>15, <1>16 DEF WireInv

(* What read_exact takes: the next bytes of the stream. *)
LEMMA TakenBytes ==
  ASSUME WireTypeOK, NEW m \in Nat, Available >= m
  PROVE  /\ Taken(m) \in Seq(Digit) /\ Len(Taken(m)) = m
         /\ \A i \in 1 .. m : Taken(m)[i] = stream[read + i]
         /\ read + m \in 0 .. arrived
<1>1. PICK r, a, s \in Nat : /\ r = read /\ a = arrived /\ s = Len(stream)
                             /\ a <= s /\ r + m <= a
  <2>1. /\ Len(stream) \in Nat /\ arrived \in 0 .. Len(stream) /\ read \in 0 .. arrived
        BY TypesOfState
  <2>2. PICK s \in Nat : s = Len(stream)  BY <2>1
  <2>3. PICK a \in Nat : a = arrived /\ a <= s  BY <2>1, <2>2
  <2>4. PICK r \in Nat : r = read /\ r <= a  BY <2>1, <2>3
  <2>5. r + m <= a  BY <2>3, <2>4 DEF Available
  <2> QED  BY <2>2, <2>3, <2>4, <2>5
<1>2. \A i \in r + 1 .. r + m : stream[i] \in Digit
  <2>1. \A i \in r + 1 .. r + m : i \in 1 .. s  BY <1>1
  <2> QED  BY <1>1, <2>1, TypesOfState
<1>3. /\ SubSeq(stream, r + 1, r + m) \in Seq(Digit)
      /\ Len(SubSeq(stream, r + 1, r + m)) =
           IF r + 1 <= r + m THEN (r + m) - (r + 1) + 1 ELSE 0
      /\ \A i \in 1 .. (r + m) - (r + 1) + 1 :
           SubSeq(stream, r + 1, r + m)[i] = stream[(r + 1) + i - 1]
      BY <1>2, SubSeqProperties
<1>4. Taken(m) = SubSeq(stream, r + 1, r + m)  BY <1>1 DEF Taken
<1>5. Len(Taken(m)) = m  BY <1>1, <1>3, <1>4
<1>6. ASSUME NEW i \in 1 .. m PROVE Taken(m)[i] = stream[read + i]
  <2>1. i \in 1 .. (r + m) - (r + 1) + 1 /\ (r + 1) + i - 1 = r + i  BY <1>1
  <2> QED  BY <1>1, <1>3, <1>4, <2>1
<1>7. read + m \in 0 .. arrived  BY <1>1
<1> QED  BY <1>3, <1>4, <1>5, <1>6, <1>7

LEMMA PayloadLengthTyped ==
  ASSUME NEW data \in Seq(Digit), Len(data) >= HeaderSize
  PROVE  PayloadLength(data) \in Nat
<1>1. \A i \in 1 .. 10 : data[i] \in Digit
  <2>1. PICK n \in Nat : n = Len(data) /\ n >= 10  BY DEF HeaderSize
  <2>2. \A i \in 1 .. 10 : i \in 1 .. n  BY <2>1
  <2> QED  BY <2>1, <2>2
<1>2. PICK a, b, c, d \in Digit : a = data[7] /\ b = data[8] /\ c = data[9] /\ d = data[10]
      BY <1>1
<1>3. Digit \subseteq Nat  BY BaseAssumption DEF Digit
<1>4. (Base * Base) * (Base * a + b) + (Base * c + d) \in Nat
      BY <1>3, BaseAssumption
<1>5. PackedLength(data) = (Base * Base) * (Base * a + b) + (Base * c + d)
      BY <1>2 DEF PackedLength, Number4, Number2
<1>6. PICK n \in Nat : n = PackedLength(data)  BY <1>4, <1>5
<1>7. PICK cap \in Nat \ {0} : cap = LengthCap  BY BaseAssumption DEF LengthCap
<1>8. n % cap \in 0 .. cap - 1  BY <1>7, DivMod
<1> QED  BY <1>6, <1>7, <1>8 DEF PayloadLength

LEMMA SameHeader ==
  ASSUME NEW h, NEW data, \A i \in 1 .. HeaderSize : data[i] = h[i]
  PROVE  PayloadLength(data) = PayloadLength(h)
<1>1. data[7] = h[7] /\ data[8] = h[8] /\ data[9] = h[9] /\ data[10] = h[10]
      BY DEF HeaderSize
<1> QED  BY <1>1 DEF PayloadLength, PackedLength, Number4, Number2

LEMMA WireReadHeader ==
  ASSUME WireInv, ReadHeader
  PROVE  WireInv'
<1>1. WireTypeOK /\ Laid /\ AtBoundary /\ EndedDry /\ InStep  BY Zenon DEF WireInv
<1>2. /\ header = <<>> /\ Available >= HeaderSize
      /\ header' = Taken(HeaderSize) /\ read' = read + HeaderSize
      /\ sent' = sent /\ stream' = stream /\ ends' = ends /\ arrived' = arrived
      /\ delivered' = delivered
      BY DEF ReadHeader, writerVars
<1>3. alive' = alive /\ running' = running /\ running  BY DEF ReadHeader
<1>4. /\ header' \in Seq(Digit) /\ Len(header') = HeaderSize
      /\ \A i \in 1 .. HeaderSize : header'[i] = stream[read + i]
      /\ read' \in 0 .. arrived'
  <2>1. HeaderSize \in Nat  BY DEF HeaderSize
  <2> QED  BY <1>1, <1>2, <2>1, TakenBytes
<1>5. header' # <<>>
  <2>1. Len(header') # 0  BY <1>4 DEF HeaderSize
  <2> QED  BY <2>1, EmptySeq
<1>6. WireTypeOK'
  <2>1. /\ sent' \in Seq(Packets) /\ Len(sent') <= MaxPackets /\ stream' \in Seq(Digit)
        /\ ends' \in Seq(Nat) /\ arrived' \in 0 .. Len(stream')
        /\ delivered' \in Seq(Seq(Frame))
        BY <1>1, <1>2 DEF WireTypeOK
  <2>2. alive' \in BOOLEAN /\ running' \in BOOLEAN  BY <1>1, <1>3, Zenon DEF WireTypeOK
  <2>3. Len(header') \in {0, HeaderSize}  BY <1>4
  <2> QED  BY <1>4, <2>1, <2>2, <2>3, Zenon DEF WireTypeOK
<1>7. Laid'  BY <1>1, <1>2 DEF Laid, LaidAt, Start
<1>8. AtBoundary'
  <2>1. PICK n \in Nat : n = Len(delivered)  BY <1>1, TypesOfState
  <2>2. LengthsFit(n)' <=> LengthsFit(n)  BY <1>2 DEF LengthsFit
  <2>3. Start(n + 1)' = Start(n + 1)  BY <1>2 DEF Start
  <2>4. ASSUME LengthsFit(n)
        PROVE  /\ n <= Len(sent) /\ read' = Start(n + 1) + HeaderSize
               /\ \A i \in 1 .. HeaderSize : header'[i] = stream[Start(n + 1) + i]
    <3>1. n <= Len(sent) /\ read = Start(n + 1)  BY <1>1, <1>2, <2>1, <2>4 DEF AtBoundary
    <3> QED  BY <1>2, <1>4, <3>1
  <2>5. ASSUME LengthsFit(n)
        PROVE  /\ n <= Len(sent) /\ read' = Start(n + 1)' + HeaderSize
               /\ \A i \in 1 .. HeaderSize : header'[i] = stream'[Start(n + 1)' + i]
        BY <1>2, <2>3, <2>4, <2>5
  <2> QED  BY <1>2, <1>5, <2>1, <2>2, <2>5 DEF AtBoundary
<1>9. EndedDry'  BY <1>3, Zenon DEF EndedDry
<1>10. InStep'  BY <1>1, <1>2 DEF InStep, LengthsFit
<1> QED  BY <1>6, <1>7, <1>8, <1>9, <1>10 DEF WireInv

LEMMA WireReadPayload ==
  ASSUME WireInv, ReadPayload
  PROVE  WireInv'
<1>1. WireTypeOK /\ Laid /\ AtBoundary /\ EndedDry /\ InStep  BY Zenon DEF WireInv
<1>2. header # <<>> /\ header \in Seq(Digit) /\ Len(header) = HeaderSize
  <2>1. header # <<>>  BY DEF ReadPayload
  <2>2. header \in Seq(Digit) /\ Len(header) \in {0, HeaderSize}  BY <1>1 DEF WireTypeOK
  <2>3. Len(header) # 0  BY <2>1, <2>2, EmptySeq
  <2> QED  BY <2>1, <2>2, <2>3
<1>3. PICK m, n \in Nat : m = PayloadLength(header) /\ n = Len(delivered)
  <2>1. Len(header) >= HeaderSize  BY <1>2 DEF HeaderSize
  <2>2. PayloadLength(header) \in Nat  BY <1>2, <2>1, PayloadLengthTyped
  <2>3. Len(delivered) \in Nat  BY <1>1, TypesOfState
  <2> QED  BY <2>2, <2>3
<1>4. PICK data : data = header \o Taken(m)  OBVIOUS
<1>5. PICK fr : fr = Frames(UnpackPacket(data))  OBVIOUS
<1>6. /\ Available >= m /\ delivered' = Append(delivered, fr)
      /\ read' = read + m /\ header' = <<>>
      /\ sent' = sent /\ stream' = stream /\ ends' = ends /\ arrived' = arrived
      BY <1>3, <1>4, <1>5 DEF ReadPayload, writerVars
<1>7. alive' = alive /\ running' = running /\ running  BY DEF ReadPayload
<1>8. /\ Taken(m) \in Seq(Digit) /\ Len(Taken(m)) = m
      /\ \A i \in 1 .. m : Taken(m)[i] = stream[read + i]
      /\ read' \in 0 .. arrived'
      BY <1>1, <1>3, <1>6, TakenBytes
<1>9. /\ data \in Seq(Digit) /\ Len(data) = HeaderSize + m
      /\ \A i \in 1 .. HeaderSize : data[i] = header[i]
      /\ \A i \in 1 .. m : data[HeaderSize + i] = stream[read + i]
  <2>1. PICK t \in Seq(Digit) : t = Taken(m)  BY <1>8
  <2>2. PICK h \in Seq(Digit) : h = header  BY <1>2
  <2>3. /\ h \o t \in Seq(Digit) /\ Len(h \o t) = Len(h) + Len(t)
        /\ \A i \in 1 .. Len(h) + Len(t) :
             (h \o t)[i] = IF i <= Len(h) THEN h[i] ELSE t[i - Len(h)]
        BY ConcatProperties
  <2>4. Len(h) = 10 /\ Len(t) = m /\ data = h \o t
        BY <1>2, <1>4, <1>8, <2>1, <2>2 DEF HeaderSize
  <2>5. ASSUME NEW i \in 1 .. 10 PROVE data[i] = h[i]
    <3>1. i \in 1 .. 10 + m /\ i <= 10  BY <1>3
    <3> QED  BY <2>3, <2>4, <3>1
  <2>6. ASSUME NEW i \in 1 .. m PROVE data[10 + i] = t[i]
    <3>1. 10 + i \in 1 .. 10 + m /\ ~(10 + i <= 10) /\ (10 + i) - 10 = i  BY <1>3
    <3> QED  BY <2>3, <2>4, <3>1
  <2> QED  BY <1>8, <2>1, <2>2, <2>3, <2>4, <2>5, <2>6 DEF HeaderSize
<1>10. fr \in Seq(Frame)
  <2>1. PayloadLength(data) = m  BY <1>3, <1>9, SameHeader
  <2> QED  BY <1>5, <1>9, <2>1, UnpackTyped
<1>11. /\ delivered' \in Seq(Seq(Frame)) /\ Len(delivered') = n + 1
       /\ DOMAIN delivered' = 1 .. n + 1
       /\ delivered'[n + 1] = fr /\ \A k \in 1 .. n : delivered'[k] = delivered[k]
  <2>1. delivered \in Seq(Seq(Frame))  BY <1>1 DEF WireTypeOK
  <2>2. PICK dl \in Seq(Seq(Frame)) : dl = delivered /\ Len(dl) = n  BY <1>3, <2>1
  <2>3. /\ Append(dl, fr) \in Seq(Seq(Frame)) /\ Len(Append(dl, fr)) = Len(dl) + 1
        /\ \A i \in 1 .. Len(dl) : Append(dl, fr)[i] = dl[i]
        /\ Append(dl, fr)[Len(dl) + 1] = fr
        BY <1>10, AppendProperties
  <2>4. delivered' = Append(dl, fr)  BY <1>6, <2>2
  <2>5. DOMAIN delivered' = 1 .. n + 1
        BY <2>2, <2>3, <2>4, LenProperties
  <2> QED  BY <2>2, <2>3, <2>4, <2>5
<1>12. ASSUME LengthsFit(n + 1)
       PROVE  /\ n + 1 \in 1 .. Len(sent) /\ ends[n + 1] = read'
              /\ fr = Frames(Meant(sent[n + 1]))
  <2>1. /\ n + 1 \in 1 .. Len(sent) /\ read = Start(n + 1) + HeaderSize
        /\ \A i \in 1 .. HeaderSize : header[i] = PackPacket(sent[n + 1])[i]
        /\ Len(sent[n + 1].body) < LengthCap
        /\ m = Len(sent[n + 1].body) /\ ends[n + 1] = read + m
        BY <1>1, <1>2, <1>3, <1>12, HeaderAtBoundary
  <2>2. PICK p \in Packet : p = sent[n + 1]  BY <1>1, <2>1, TypesOfState
  <2>3. PICK q \in Seq(Digit) : q = PackPacket(p) /\ Len(q) = HeaderSize + m
        BY <2>1, <2>2, HeaderTyped
  <2>4. data = q
    <3>1. PICK a \in Nat : a = Start(n + 1) /\ read = a + 10
      <4>1. n + 1 = 1 \/ (n + 1) - 1 \in 1 .. Len(ends)
            BY <1>1, <1>3, <2>1, TypesOfState DEF Laid
      <4>2. Start(n + 1) \in Nat  BY <1>1, <4>1, TypesOfState DEF Start
      <4> QED  BY <2>1, <4>2 DEF HeaderSize
    <3>2. \A i \in 1 .. 10 + m : stream[a + i] = q[i]
          BY <1>1, <2>1, <2>2, <2>3, <3>1 DEF Laid, LaidAt, HeaderSize
    <3>3. ASSUME NEW i \in 1 .. 10 + m PROVE data[i] = q[i]
      <4>1. CASE i <= 10
        <5>1. i \in 1 .. 10  BY <4>1
        <5> QED  BY <1>9, <2>1, <2>2, <2>3, <5>1 DEF HeaderSize
      <4>2. CASE ~(i <= 10)
        <5>1. PICK j \in 1 .. m : i = 10 + j
          <6>1. i - 10 \in 1 .. m /\ i = 10 + (i - 10)  BY <1>3, <4>2
          <6> QED  BY <6>1
        <5>2. data[i] = stream[read + j]  BY <1>9, <5>1 DEF HeaderSize
        <5>3. read + j = a + i  BY <3>1, <5>1
        <5> QED  BY <3>2, <5>2, <5>3
      <4> QED  BY <4>1, <4>2
    <3>4. Len(data) = 10 + m /\ Len(q) = 10 + m  BY <1>9, <2>3 DEF HeaderSize
    <3> QED  BY <1>9, <3>3, <3>4, SeqEqual
  <2>5. UnpackPacket(data) = Meant(p)  BY <2>1, <2>2, <2>3, <2>4, PacketRoundTrip
  <2> QED  BY <1>5, <1>6, <2>1, <2>2, <2>5
<1>13. WireTypeOK'
  <2>1. /\ sent' \in Seq(Packets) /\ Len(sent') <= MaxPackets /\ stream' \in Seq(Digit)
        /\ ends' \in Seq(Nat) /\ arrived' \in 0 .. Len(stream')
        BY <1>1, <1>6 DEF WireTypeOK
  <2>2. alive' \in BOOLEAN /\ running' \in BOOLEAN  BY <1>1, <1>7, Zenon DEF WireTypeOK
  <2>3. header' \in Seq(Digit) /\ Len(header') \in {0, HeaderSize}  BY <1>6
  <2> QED  BY <1>8, <1>11, <2>1, <2>2, <2>3, Zenon DEF WireTypeOK
<1>14. Laid'  BY <1>1, <1>6 DEF Laid, LaidAt, Start
<1>15. AtBoundary'
  <2>1. LengthsFit(n + 1)' <=> LengthsFit(n + 1)  BY <1>6 DEF LengthsFit
  <2>2. ASSUME LengthsFit(n + 1)
        PROVE  n + 1 <= Len(sent) /\ read' = Start((n + 1) + 1)'
    <3>1. n + 1 \in 1 .. Len(sent) /\ ends[n + 1] = read'  BY <1>12, <2>2
    <3>2. (n + 1) + 1 # 1 /\ ((n + 1) + 1) - 1 = n + 1  BY <1>3
    <3>3. n + 1 <= Len(sent)  BY <1>1, <3>1, TypesOfState
    <3> QED  BY <1>6, <3>1, <3>2, <3>3 DEF Start
  <2> QED  BY <1>6, <1>11, <2>1, <2>2 DEF AtBoundary
<1>16. EndedDry'  BY <1>7, Zenon DEF EndedDry
<1>17. InStep'
  <2> SUFFICES ASSUME NEW k \in 1 .. n + 1
               PROVE  LengthsFit(k) => k \in DOMAIN sent /\ delivered'[k] = Frames(Meant(sent[k]))
      BY <1>6, <1>11 DEF InStep, LengthsFit
  <2>1. CASE k \in 1 .. n
    <3>1. LengthsFit(k) => k \in DOMAIN sent /\ delivered[k] = Frames(Meant(sent[k]))
          BY <1>1, <1>3, <2>1, TypesOfState DEF InStep
    <3> QED  BY <1>11, <2>1, <3>1
  <2>2. CASE k = n + 1
    <3>1. ASSUME LengthsFit(k)
          PROVE  k \in DOMAIN sent /\ delivered'[k] = Frames(Meant(sent[k]))
          BY <1>1, <1>11, <1>12, <2>2, <3>1, TypesOfState
    <3> QED  BY <3>1
  <2> QED  BY <1>3, <2>1, <2>2
<1> QED  BY <1>13, <1>14, <1>15, <1>16, <1>17 DEF WireInv

LEMMA WireArrive ==
  ASSUME WireInv, NEW d \in 1 .. Len(stream), Arrive(d)
  PROVE  WireInv'
<1>1. WireTypeOK /\ Laid /\ AtBoundary /\ EndedDry /\ InStep  BY Zenon DEF WireInv
<1>2. /\ alive /\ arrived + d <= Len(stream) /\ arrived' = arrived + d
      /\ sent' = sent /\ stream' = stream /\ ends' = ends /\ read' = read
      /\ header' = header /\ delivered' = delivered
      BY DEF Arrive, writerVars, loopVars
<1>3. alive' = alive /\ running' = running /\ running
  <2>1. alive' = alive /\ running' = running  BY DEF Arrive, loopVars
  <2>2. running  BY <1>1, <1>2, Zenon DEF EndedDry
  <2> QED  BY <2>1, <2>2, Zenon
<1>4. WireTypeOK'
  <2>1. arrived' \in 0 .. Len(stream') /\ read' \in 0 .. arrived'
    <3>1. Len(stream) \in Nat /\ arrived \in 0 .. Len(stream) /\ read \in 0 .. arrived
          BY <1>1, TypesOfState
    <3> QED  BY <1>2, <3>1
  <2>2. /\ sent' \in Seq(Packets) /\ Len(sent') <= MaxPackets /\ stream' \in Seq(Digit)
        /\ ends' \in Seq(Nat) /\ header' \in Seq(Digit) /\ Len(header') \in {0, HeaderSize}
        /\ delivered' \in Seq(Seq(Frame))
        BY <1>1, <1>2 DEF WireTypeOK
  <2>3. alive' \in BOOLEAN /\ running' \in BOOLEAN  BY <1>1, <1>3, Zenon DEF WireTypeOK
  <2> QED  BY <2>1, <2>2, <2>3, Zenon DEF WireTypeOK
<1>5. Laid'  BY <1>1, <1>2 DEF Laid, LaidAt, Start
<1>6. AtBoundary'  BY <1>1, <1>2 DEF AtBoundary, LengthsFit, Start
<1>7. EndedDry'  BY <1>3, Zenon DEF EndedDry
<1>8. InStep'  BY <1>1, <1>2 DEF InStep, LengthsFit
<1> QED  BY <1>4, <1>5, <1>6, <1>7, <1>8 DEF WireInv

(* The end of the connection, and of the loop. *)
LEMMA WireEnds ==
  ASSUME WireInv, Cut \/ ReadFails
  PROVE  WireInv'
<1>1. WireTypeOK /\ Laid /\ AtBoundary /\ EndedDry /\ InStep  BY Zenon DEF WireInv
<1>2. /\ sent' = sent /\ stream' = stream /\ ends' = ends /\ arrived' = arrived
      /\ read' = read /\ header' = header /\ delivered' = delivered
      BY DEF Cut, ReadFails, writerVars, loopVars
<1>3. /\ alive' \in BOOLEAN /\ running' \in BOOLEAN
      /\ running' \/ (~alive' /\ Available < Needed)
  <2>1. CASE Cut
    <3>1. alive /\ alive' = FALSE /\ running' = running  BY <2>1, Zenon DEF Cut, loopVars
    <3>2. running  BY <1>1, <3>1, Zenon DEF EndedDry
    <3>3. running \in BOOLEAN  BY <1>1, Zenon DEF WireTypeOK
    <3> QED  BY <3>1, <3>2, <3>3, Zenon
  <2>2. CASE ReadFails
    <3>1. ~alive /\ alive' = alive /\ running' = FALSE /\ Available < Needed
          BY <2>2, Zenon DEF ReadFails
    <3>2. alive \in BOOLEAN  BY <1>1, Zenon DEF WireTypeOK
    <3> QED  BY <3>1, <3>2, Zenon
  <2> QED  BY <2>1, <2>2
<1>4. WireTypeOK'
  <2>1. /\ sent' \in Seq(Packets) /\ Len(sent') <= MaxPackets /\ stream' \in Seq(Digit)
        /\ ends' \in Seq(Nat) /\ arrived' \in 0 .. Len(stream') /\ read' \in 0 .. arrived'
        /\ header' \in Seq(Digit) /\ Len(header') \in {0, HeaderSize}
        /\ delivered' \in Seq(Seq(Frame))
        BY <1>1, <1>2 DEF WireTypeOK
  <2> QED  BY <1>3, <2>1, Zenon DEF WireTypeOK
<1>5. Laid'  BY <1>1, <1>2 DEF Laid, LaidAt, Start
<1>6. AtBoundary'  BY <1>1, <1>2 DEF AtBoundary, LengthsFit, Start
<1>7. EndedDry'
  <2>1. Available' = Available /\ Needed' = Needed
        BY <1>2 DEF Available, Needed, PayloadLength, PackedLength, Number4, Number2
  <2> QED  BY <1>3, <2>1, Zenon DEF EndedDry
<1>8. InStep'  BY <1>1, <1>2 DEF InStep, LengthsFit
<1> QED  BY <1>4, <1>5, <1>6, <1>7, <1>8 DEF WireInv

LEMMA WireStep == WireInv /\ [WireNext]_wireVars => WireInv'
<1> SUFFICES ASSUME WireInv, [WireNext]_wireVars PROVE WireInv'  OBVIOUS
<1>1. ASSUME NEW p \in Packets, Write(p) PROVE WireInv'  BY <1>1, WireWrite
<1>2. ASSUME NEW d \in 1 .. Len(stream), Arrive(d) PROVE WireInv'  BY <1>2, WireArrive
<1>3. CASE Cut \/ ReadFails  BY <1>3, WireEnds
<1>4. CASE ReadHeader  BY <1>4, WireReadHeader
<1>5. CASE ReadPayload  BY <1>5, WireReadPayload
<1>6. CASE UNCHANGED wireVars
  <2>1. /\ sent' = sent /\ stream' = stream /\ ends' = ends /\ arrived' = arrived
        /\ read' = read /\ header' = header /\ delivered' = delivered
        /\ alive' = alive /\ running' = running
        BY <1>6 DEF wireVars, writerVars, loopVars
  <2>2. WireTypeOK'  BY <2>1, Zenon DEF WireInv, WireTypeOK
  <2>3. Laid' /\ AtBoundary' /\ InStep'
        BY <2>1 DEF WireInv, Laid, LaidAt, AtBoundary, InStep, LengthsFit, Start
  <2>4. EndedDry'
    <3>1. Available' = Available /\ Needed' = Needed
          BY <2>1 DEF Available, Needed, PayloadLength, PackedLength, Number4, Number2
    <3> QED  BY <2>1, <3>1, Zenon DEF WireInv, EndedDry
  <2> QED  BY <2>2, <2>3, <2>4 DEF WireInv
<1> QED  BY <1>1, <1>2, <1>3, <1>4, <1>5, <1>6, Zenon DEF WireNext

LEMMA WireInvariant == WireSpec => []WireInv
<1> QED  BY WireInitInv, WireStep, PTL DEF WireSpec

(* What was taken out of the stream had arrived. *)
TakenWhole ==
  \A k \in DOMAIN delivered : LengthsFit(k) => k \in DOMAIN sent /\ ends[k] <= arrived

LEMMA FitsBefore ==
  ASSUME WireTypeOK, NEW k \in Nat, LengthsFit(k), NEW j \in Nat, j <= k
  PROVE  LengthsFit(j)
<1>1. \A i \in DOMAIN sent : i \in Nat  BY TypesOfState
<1>2. \A i \in DOMAIN sent : i <= j => i <= k  BY <1>1
<1> QED  BY <1>2 DEF LengthsFit

(* A packet written comes after the others, and has not arrived. *)
LEMMA WriteAppends ==
  ASSUME WireInv, NEW p \in Packets, Write(p), NEW l \in Nat, l = Len(sent)
  PROVE  /\ DOMAIN sent = 1 .. l /\ DOMAIN sent' = 1 .. l + 1 /\ sent'[l + 1] = p
         /\ \A k \in 1 .. l : sent'[k] = sent[k] /\ ends'[k] = ends[k]
         /\ ~(ends'[l + 1] <= arrived)
         /\ \A k \in 1 .. l : LengthsFit(k)' <=> LengthsFit(k)
         /\ LengthsFit(l + 1)' <=> (LengthsFit(l) /\ Len(p.body) < LengthCap)
<1>1. WireTypeOK /\ Laid  BY Zenon DEF WireInv
<1>2. /\ sent' = Append(sent, p) /\ stream' = stream \o PackPacket(p)
      /\ ends' = Append(ends, Len(stream'))
      BY DEF Write
<1>3. PICK s, a \in Nat : s = Len(stream) /\ a = arrived /\ a <= s
  <2>1. Len(stream) \in Nat /\ arrived \in 0 .. Len(stream)  BY <1>1, TypesOfState
  <2>2. PICK s \in Nat : s = Len(stream)  BY <2>1
  <2>3. PICK a \in Nat : a = arrived /\ a <= s  BY <2>1, <2>2
  <2> QED  BY <2>2, <2>3
<1>4. /\ DOMAIN sent = 1 .. l /\ DOMAIN sent' = 1 .. l + 1 /\ sent'[l + 1] = p
      /\ \A k \in 1 .. l : sent'[k] = sent[k]
      BY <1>1, <1>2, AppendProperties DEF WireTypeOK
<1>5. PICK e \in Nat : /\ e > s /\ ends'[l + 1] = e
                       /\ \A k \in 1 .. l : ends'[k] = ends[k]
  <2>1. PICK q \in Seq(Digit), m \in Nat :
          q = PackPacket(p) /\ m = Len(p.body) /\ Len(q) = 10 + m
    <3>1. p \in Packet /\ p.body \in Seq(Digit)  BY PacketsAssumption DEF Packet
    <3>2. PICK m \in Nat : m = Len(p.body)  BY <3>1
    <3> QED  BY <3>1, <3>2, HeaderTyped DEF HeaderSize
  <2>2. Len(stream') = s + (10 + m)
    <3>1. stream \in Seq(Digit)  BY <1>1 DEF WireTypeOK
    <3>2. Len(stream \o q) = Len(stream) + Len(q)  BY <3>1, ConcatProperties
    <3> QED  BY <1>2, <1>3, <2>1, <3>2
  <2>3. ends \in Seq(Nat) /\ Len(ends) = l  BY <1>1 DEF WireTypeOK, Laid
  <2>4. s + (10 + m) \in Nat /\ s + (10 + m) > s  BY <1>3, <2>1
  <2>5. /\ ends'[l + 1] = s + (10 + m)
        /\ \A k \in 1 .. l : ends'[k] = ends[k]
        BY <1>2, <2>2, <2>3, <2>4, AppendProperties
  <2> QED  BY <2>4, <2>5
<1>6. ~(ends'[l + 1] <= arrived)  BY <1>3, <1>5
<1>7. ASSUME NEW k \in 1 .. l PROVE LengthsFit(k)' <=> LengthsFit(k)
  <2>1. \A j \in 1 .. l + 1 : j <= k <=> j \in 1 .. k  BY <1>7
  <2>2. \A j \in 1 .. l : j \in 1 .. l + 1 /\ (j <= k <=> j \in 1 .. k)  BY <1>7
  <2>3. \A j \in 1 .. k : j \in 1 .. l  BY <1>7
  <2> QED  BY <1>4, <2>1, <2>2, <2>3 DEF LengthsFit
<1>8. LengthsFit(l + 1)' <=> (LengthsFit(l) /\ Len(p.body) < LengthCap)
  <2>1. \A j \in 1 .. l + 1 : j <= l + 1 /\ (j \in 1 .. l \/ j = l + 1)  OBVIOUS
  <2>2. \A j \in 1 .. l : j <= l /\ j \in 1 .. l + 1  OBVIOUS
  <2>3. l + 1 \in 1 .. l + 1  OBVIOUS
  <2> QED  BY <1>4, <2>1, <2>2, <2>3 DEF LengthsFit, LengthCap
<1> QED  BY <1>4, <1>5, <1>6, <1>7, <1>8

LEMMA TakenStep == WireInv /\ TakenWhole /\ [WireNext]_wireVars => TakenWhole'
<1> SUFFICES ASSUME WireInv, TakenWhole, [WireNext]_wireVars PROVE TakenWhole'  OBVIOUS
<1>1. WireTypeOK /\ Laid /\ AtBoundary /\ InStep  BY Zenon DEF WireInv
<1>2. PICK a, r \in Nat : a = arrived /\ r = read
  <2>1. Len(stream) \in Nat /\ arrived \in 0 .. Len(stream) /\ read \in 0 .. arrived
        BY <1>1, TypesOfState
  <2>2. PICK a \in Nat : a = arrived  BY <2>1
  <2> QED  BY <2>1, <2>2
<1>3. \A k \in DOMAIN sent : ends[k] \in Nat
  <2>1. DOMAIN sent = 1 .. Len(ends)  BY <1>1, TypesOfState DEF Laid
  <2> QED  BY <1>1, <2>1, TypesOfState
<1>4. ASSUME NEW p \in Packets, Write(p) PROVE TakenWhole'
  <2>1. PICK l \in Nat : l = Len(sent)  BY <1>1, TypesOfState
  <2>2. delivered' = delivered /\ arrived' = arrived  BY <1>4 DEF Write, loopVars
  <2>3. /\ DOMAIN sent = 1 .. l /\ DOMAIN sent' = 1 .. l + 1
        /\ \A k \in 1 .. l : ends'[k] = ends[k]
        /\ \A k \in 1 .. l : LengthsFit(k)' <=> LengthsFit(k)
        BY <1>4, <2>1, WriteAppends
  <2> SUFFICES ASSUME NEW k \in DOMAIN delivered, LengthsFit(k)'
               PROVE  k \in DOMAIN sent' /\ ends'[k] <= arrived
      BY <2>2 DEF TakenWhole
  <2>4. \A j \in DOMAIN sent : j \in DOMAIN sent' /\ sent'[j] = sent[j]
    <3>1. \A j \in 1 .. l : j \in 1 .. l + 1  BY <2>1
    <3> QED  BY <1>4, <2>1, <2>3, <3>1, WriteAppends
  <2>5. LengthsFit(k)  BY <2>4 DEF LengthsFit
  <2> QED  BY <2>3, <2>4, <2>5 DEF TakenWhole
<1>5. ASSUME NEW d \in 1 .. Len(stream), Arrive(d) PROVE TakenWhole'
  <2>1. /\ sent' = sent /\ ends' = ends /\ delivered' = delivered /\ arrived' = arrived + d
        BY <1>5 DEF Arrive, writerVars, loopVars
  <2>2. d \in Nat  BY <1>1, TypesOfState
  <2>3. \A k \in DOMAIN sent : ends[k] <= a => ends[k] <= a + d  BY <1>2, <1>3, <2>2
  <2> QED  BY <1>2, <2>1, <2>3 DEF TakenWhole, LengthsFit
<1>6. CASE ReadPayload
  <2>1. PICK n \in Nat : n = Len(delivered)  BY <1>1, TypesOfState
  <2>2. PICK fr : delivered' = Append(delivered, fr)  BY <1>6 DEF ReadPayload
  <2>3. /\ sent' = sent /\ ends' = ends /\ arrived' = arrived
        BY <1>6 DEF ReadPayload, writerVars
  <2>4. WireTypeOK'
    <3>1. WireInv'  BY <1>6, WireReadPayload
    <3> QED  BY <3>1 DEF WireInv
  <2>5. /\ DOMAIN delivered = 1 .. n /\ DOMAIN delivered' = 1 .. n + 1
    <3>1. delivered \in Seq(Seq(Frame)) /\ delivered' \in Seq(Seq(Frame))
          BY <1>1, <2>4 DEF WireTypeOK
    <3> QED  BY <2>1, <2>2, <3>1
  <2>6. header # <<>> /\ Available >= PayloadLength(header)  BY <1>6 DEF ReadPayload
  <2>7. ASSUME LengthsFit(n + 1) PROVE n + 1 \in DOMAIN sent /\ ends[n + 1] <= arrived
    <3>1. n + 1 \in 1 .. Len(sent) /\ ends[n + 1] = read + PayloadLength(header)
          BY <1>1, <2>1, <2>6, <2>7, HeaderAtBoundary
    <3>2. n + 1 \in DOMAIN sent  BY <1>1, <3>1, TypesOfState
    <3>3. PICK m \in Nat : m = PayloadLength(header)
      <4>1. header \in Seq(Digit) /\ Len(header) \in {0, HeaderSize}  BY <1>1 DEF WireTypeOK
      <4>2. Len(header) # 0  BY <2>6, <4>1, EmptySeq
      <4>3. Len(header) = HeaderSize  BY <4>1, <4>2
      <4>4. Len(header) >= HeaderSize  BY <4>3 DEF HeaderSize
      <4> QED  BY <4>1, <4>4, PayloadLengthTyped
    <3>4. a - r >= m  BY <1>2, <2>6, <3>3 DEF Available
    <3> QED  BY <1>2, <3>1, <3>2, <3>3, <3>4
  <2>8. \A k : LengthsFit(k)' <=> LengthsFit(k)  BY <2>3 DEF LengthsFit
  <2> SUFFICES ASSUME NEW k \in 1 .. n + 1, LengthsFit(k)
               PROVE  k \in DOMAIN sent /\ ends[k] <= arrived
      BY <2>3, <2>5, <2>8 DEF TakenWhole
  <2>9. CASE k \in 1 .. n  BY <2>5, <2>9 DEF TakenWhole
  <2>10. CASE k = n + 1  BY <2>7, <2>10
  <2> QED  BY <2>1, <2>9, <2>10
<1>7. CASE Cut \/ ReadHeader \/ ReadFails \/ UNCHANGED wireVars
  <2>1. /\ sent' = sent /\ ends' = ends /\ delivered' = delivered /\ arrived' = arrived
        BY <1>7 DEF Cut, ReadHeader, ReadFails, wireVars, writerVars, loopVars
  <2> QED  BY <2>1 DEF TakenWhole, LengthsFit
<1> QED  BY <1>4, <1>5, <1>6, <1>7, Zenon DEF WireNext

LEMMA TakenInvariant == WireSpec => []TakenWhole
<1>1. WireInit => TakenWhole
  <2> SUFFICES ASSUME WireInit PROVE TakenWhole  OBVIOUS
  <2>1. delivered = <<>>  BY DEF WireInit
  <2> QED  BY <2>1 DEF TakenWhole
<1> QED  BY <1>1, TakenStep, WireInvariant, PTL DEF WireSpec

LEMMA WholeFromInv == WireInv /\ TakenWhole => WholePackets
<1> SUFFICES ASSUME WireInv, ~running, NEW k \in Honest, ends[k] <= arrived,
                    k \notin DOMAIN delivered
             PROVE  FALSE
    BY DEF WholePackets, TakenWhole
<1>1. WireTypeOK /\ Laid /\ AtBoundary /\ EndedDry  BY Zenon DEF WireInv
<1>2. PICK l, n \in Nat : /\ l = Len(sent) /\ n = Len(delivered) /\ Len(ends) = l
                          /\ DOMAIN sent = 1 .. l /\ DOMAIN delivered = 1 .. n
  <2>1. Len(sent) \in Nat /\ Len(delivered) \in Nat  BY <1>1, TypesOfState
  <2> QED  BY <1>1, <2>1, TypesOfState DEF Laid
<1>3. n + 1 \in 1 .. l /\ k \in 1 .. l /\ n + 1 <= k  BY <1>2 DEF Honest
<1>4. LengthsFit(n) /\ LengthsFit(n + 1)
  <2>1. LengthsFit(k) /\ k \in Nat /\ n <= k  BY <1>2, <1>3 DEF Honest
  <2> QED  BY <1>1, <1>2, <1>3, <2>1, FitsBefore
<1>5. PICK r, a \in Nat : r = read /\ a = arrived /\ r <= a
  <2>1. Len(stream) \in Nat /\ arrived \in 0 .. Len(stream) /\ read \in 0 .. arrived
        BY <1>1, TypesOfState
  <2>2. PICK a \in Nat : a = arrived  BY <2>1
  <2>3. PICK r \in Nat : r = read /\ r <= a  BY <2>1, <2>2
  <2> QED  BY <2>2, <2>3
<1>6. /\ header = <<>> => r = Start(n + 1)
      /\ header # <<>> => r = Start(n + 1) + HeaderSize
      BY <1>1, <1>2, <1>4, <1>5 DEF AtBoundary
<1>7. \A j \in 1 .. l : ends[j] \in Nat
      BY <1>1, <1>2, TypesOfState
<1>8. Start(n + 1) \in Nat
  <2>1. n + 1 = 1 \/ (n + 1) - 1 \in 1 .. l  BY <1>2, <1>3
  <2> QED  BY <1>7, <2>1 DEF Start
<1>9. ends[n + 1] <= a
  <2>1. ends[n + 1] <= ends[k]  BY <1>1, <1>2, <1>3 DEF Laid
  <2> QED  BY <1>3, <1>5, <1>7, <2>1
<1>10. a - r < Needed
  <2>1. Available < Needed  BY <1>1, Zenon DEF EndedDry
  <2> QED  BY <1>5, <2>1 DEF Available
<1>11. PICK d \in Nat : d = Len(sent[n + 1].body)  BY <1>1, <1>2, <1>3, TypesOfState
<1>12. ends[n + 1] = Start(n + 1) + 10 + d
      BY <1>1, <1>2, <1>3, <1>11 DEF Laid, LaidAt, HeaderSize
<1>13. CASE header = <<>>
  <2>1. Needed = 10  BY <1>13 DEF Needed, HeaderSize
  <2>2. r = Start(n + 1)  BY <1>6, <1>13
  <2> QED  BY <1>5, <1>8, <1>9, <1>10, <1>11, <1>12, <2>1, <2>2
<1>14. CASE header # <<>>
  <2>1. Needed = d
    <3>1. Needed = PayloadLength(header)  BY <1>14 DEF Needed
    <3>2. PayloadLength(header) = Len(sent[n + 1].body)
          BY <1>1, <1>2, <1>4, <1>14, HeaderAtBoundary
    <3> QED  BY <1>11, <3>1, <3>2
  <2>2. r = Start(n + 1) + 10  BY <1>6, <1>14 DEF HeaderSize
  <2> QED  BY <1>5, <1>8, <1>9, <1>10, <1>11, <1>12, <2>1, <2>2
<1> QED  BY <1>13, <1>14

(* Every variable of the receive loop and of the stream keeps its type. *)
THEOREM WireTypeCorrect == WireSpec => []WireTypeOK
<1>1. WireInv => WireTypeOK  BY DEF WireInv
<1> QED  BY <1>1, WireInvariant, PTL

(* However the bytes of the stream are cut up, the receive loop takes out of *)
(* each packet what was sent in it, up to the first payload whose length     *)
(* does not fit (socket.rs 262-334).                                         *)
THEOREM AlwaysInStep == WireSpec => []InStep
<1>1. WireInv => InStep  BY DEF WireInv
<1> QED  BY <1>1, WireInvariant, PTL

(* While lengths fit, the loop makes up no packet and, when it ends, has     *)
(* lost none that arrived whole (socket.rs 270-339).                         *)
THEOREM AlwaysWholePackets == WireSpec => []WholePackets
<1> QED  BY WholeFromInv, WireInvariant, TakenInvariant, PTL
-----------------------------------------------------------------------------
(* WireCodec implements PacketChannel *)

Meanings == [k \in Honest |-> Frames(Meant(sent[k]))]
Whole    == {k \in Honest : ends[k] <= arrived}
TakenOut == [k \in DOMAIN delivered \cap Honest |-> delivered[k]]

(* The honest packets are the first ones.                                    *)
LEMMA HonestPrefix ==
  ASSUME WireTypeOK
  PROVE  \E h \in Nat : Honest = 1 .. h
<1> DEFINE R   == OpToRel(<, Nat)
           Bad == {k \in DOMAIN sent : ~LengthsFit(k)}
<1>1. PICK l \in Nat : l = Len(sent) /\ DOMAIN sent = 1 .. l  BY TypesOfState
<1>2. IsWellFoundedOn(R, Nat)  BY NatLessThanWellFounded, Zenon
<1>3. \A x, y \in Nat : <<y, x>> \in R <=> y < x  BY DEF OpToRel
<1>4. Bad \subseteq Nat  BY <1>1
<1>5. \A k : k \in Honest <=> k \in 1 .. l /\ k \notin Bad  BY <1>1 DEF Honest
<1>6. ASSUME NEW k \in Bad, NEW j \in 1 .. l, k <= j PROVE j \in Bad
  <2> SUFFICES ASSUME LengthsFit(j) PROVE FALSE  BY <1>1
  <2>1. LengthsFit(k)  BY <1>4, <1>6, FitsBefore
  <2> QED  BY <2>1
<1> HIDE DEF R, Bad
<1>7. CASE Bad = {}  BY <1>5, <1>7
<1>8. CASE Bad # {}
  <2>1. PICK b \in Bad : \A k \in Bad : ~(<<k, b>> \in R)  BY <1>2, <1>4, <1>8, WFMin
  <2>2. b \in 1 .. l /\ \A k \in Bad : ~(k < b)
    <3>1. b \in 1 .. l  BY <1>1 DEF Bad
    <3> QED  BY <1>3, <1>4, <2>1, <3>1
  <2>3. \A k \in 1 .. l : k \in Bad <=> b <= k  BY <1>4, <1>6, <2>1, <2>2
  <2>4. b - 1 \in Nat /\ \A k : k \in 1 .. b - 1 <=> (k \in 1 .. l /\ ~(b <= k))
        BY <2>2
  <2>5. Honest = 1 .. b - 1  BY <1>5, <2>3, <2>4
  <2> QED  BY <2>4, <2>5
<1> QED  BY <1>7, <1>8, Zenon

(* A function on 1 .. l + 1 is one on 1 .. l with a value appended. *)
LEMMA AppendedFunction ==
  ASSUME NEW l \in Nat, NEW f, NEW g,
         f = [k \in 1 .. l |-> f[k]], g = [k \in 1 .. l + 1 |-> g[k]],
         \A k \in 1 .. l : g[k] = f[k]
  PROVE  g = Append(f, g[l + 1]) /\ Len(f) = l
<1>1. PICK S : S = {g[k] : k \in 1 .. l + 1}  OBVIOUS
<1>2. l + 1 \in 1 .. l + 1 /\ l + 1 \in Nat  OBVIOUS
<1>3. g \in Seq(S) /\ Len(g) = l + 1 /\ g[l + 1] \in S
  <2>1. g \in [1 .. l + 1 -> S]  BY <1>1
  <2>2. g \in Seq(S)  BY <1>2, <2>1, SeqDef
  <2>3. DOMAIN g = 1 .. l + 1  BY <2>1
  <2> QED  BY <1>1, <1>2, <2>2, <2>3, LenProperties
<1>4. f \in Seq(S) /\ Len(f) = l
  <2>1. \A k \in 1 .. l : k \in 1 .. l + 1  OBVIOUS
  <2>2. \A k \in 1 .. l : f[k] \in S  BY <1>1, <2>1
  <2>3. f \in [1 .. l -> S]  BY <2>2
  <2>4. f \in Seq(S)  BY <2>3, SeqDef
  <2>5. DOMAIN f = 1 .. l  BY <2>3
  <2> QED  BY <2>4, <2>5, LenProperties
<1>5. /\ Append(f, g[l + 1]) \in Seq(S) /\ Len(Append(f, g[l + 1])) = l + 1
      /\ Append(f, g[l + 1])[l + 1] = g[l + 1]
      /\ \A k \in 1 .. l : Append(f, g[l + 1])[k] = f[k]
      BY <1>3, <1>4, AppendProperties
<1>6. ASSUME NEW k \in 1 .. l + 1 PROVE g[k] = Append(f, g[l + 1])[k]
  <2>1. CASE k \in 1 .. l  BY <1>5, <2>1, Zenon
  <2>2. CASE k = l + 1  BY <1>5, <2>2, Zenon
  <2> QED  BY <2>1, <2>2
<1> QED  BY <1>3, <1>4, <1>5, <1>6, SeqEqual

(* A packet is sent, or lost to the channel with a length that lies.         *)
LEMMA ChannelWrite ==
  ASSUME WireInv, NEW p \in Packets, Write(p)
  PROVE  PC!Send(Frames(Meant(p))) \/ UNCHANGED PC!vars
<1>1. WireTypeOK /\ InStep  BY Zenon DEF WireInv
<1>2. alive /\ arrived' = arrived /\ delivered' = delivered  BY DEF Write, loopVars
<1>3. alive' = alive /\ running' = running  BY DEF Write, loopVars
<1>4. PICK l \in Nat : l = Len(sent)  BY <1>1, TypesOfState
<1>5. /\ DOMAIN sent = 1 .. l /\ DOMAIN sent' = 1 .. l + 1 /\ sent'[l + 1] = p
      /\ \A k \in 1 .. l : sent'[k] = sent[k] /\ ends'[k] = ends[k]
      /\ ~(ends'[l + 1] <= arrived)
      /\ \A k \in 1 .. l : LengthsFit(k)' <=> LengthsFit(k)
      /\ LengthsFit(l + 1)' <=> (LengthsFit(l) /\ Len(p.body) < LengthCap)
      BY <1>4, WriteAppends
<1>6. \A k \in 1 .. l + 1 : k \in 1 .. l \/ k = l + 1  BY <1>4
<1>7. \A k \in 1 .. l : k \in 1 .. l + 1 /\ k # l + 1  BY <1>4
<1>8. CASE LengthsFit(l + 1)'
  <2>1. Honest = 1 .. l
    <3>1. \A k \in 1 .. l : k <= l /\ k \in Nat  BY <1>4
    <3>2. \A k \in 1 .. l : LengthsFit(k)  BY <1>1, <1>4, <1>5, <1>8, <3>1, FitsBefore
    <3> QED  BY <1>5, <3>2 DEF Honest
  <2>2. Honest' = 1 .. l + 1  BY <1>5, <1>6, <1>8, <2>1 DEF Honest
  <2>3. Meanings' = Append(Meanings, Frames(Meant(p)))
    <3>1. PICK f, g : f = Meanings /\ g = Meanings'  OBVIOUS
    <3>2. /\ f = [k \in 1 .. l |-> Frames(Meant(sent[k]))]
          /\ g = [k \in 1 .. l + 1 |-> Frames(Meant(sent'[k]))]
          BY <2>1, <2>2, <3>1 DEF Meanings
    <3>3. f = [k \in 1 .. l |-> f[k]] /\ g = [k \in 1 .. l + 1 |-> g[k]]  BY <3>2
    <3>4. \A k \in 1 .. l : g[k] = f[k]  BY <1>5, <1>7, <3>2
    <3>5. l + 1 \in 1 .. l + 1  BY <1>4
    <3>6. g[l + 1] = Frames(Meant(p))  BY <1>5, <3>2, <3>5
    <3>7. g = Append(f, g[l + 1])  BY <1>4, <3>3, <3>4, AppendedFunction
    <3> QED  BY <3>1, <3>6, <3>7
  <2>4. Whole' = Whole  BY <1>2, <1>5, <1>6, <1>7, <2>1, <2>2 DEF Whole
  <2>5. DOMAIN delivered \cap Honest = DOMAIN delivered \cap Honest'
    <3>1. LengthsFit(l)  BY <1>5, <1>8
    <3>2. \A k \in 1 .. l : k <= l  BY <1>4
    <3>3. \A k : LengthsFit(k)  BY <1>5, <3>1, <3>2 DEF LengthsFit
    <3>4. \A k \in DOMAIN delivered : k \in 1 .. l  BY <1>1, <1>5, <3>3 DEF InStep
    <3> QED  BY <1>7, <2>1, <2>2, <3>4
  <2>6. TakenOut' = TakenOut  BY <1>2, <2>5 DEF TakenOut
  <2> QED  BY <1>2, <1>3, <2>3, <2>4, <2>6 DEF PC!Send, Meanings, Whole, TakenOut
<1>9. CASE ~LengthsFit(l + 1)'
  <2>1. Honest' = Honest
    <3>1. \A k : k \in Honest' <=> k \in 1 .. l /\ LengthsFit(k)
          BY <1>5, <1>6, <1>7, <1>9 DEF Honest
    <3>2. \A k : k \in Honest <=> k \in 1 .. l /\ LengthsFit(k)  BY <1>5 DEF Honest
    <3> QED  BY <3>1, <3>2
  <2>2. \A k \in Honest : sent'[k] = sent[k] /\ ends'[k] = ends[k]  BY <1>5 DEF Honest
  <2>3. Meanings' = Meanings  BY <2>1, <2>2 DEF Meanings
  <2>4. Whole' = Whole  BY <1>2, <2>1, <2>2 DEF Whole
  <2>5. TakenOut' = TakenOut  BY <1>2, <2>1 DEF TakenOut
  <2> QED  BY <1>3, <2>3, <2>4, <2>5 DEF PC!vars, Meanings, Whole, TakenOut
<1> QED  BY <1>8, <1>9

LEMMA ChannelArrive ==
  ASSUME WireInv, NEW d \in 1 .. Len(stream), Arrive(d), NEW more, more = Whole'
  PROVE  more \in SUBSET DOMAIN Meanings /\ PC!Arrive(more)
<1>1. WireTypeOK /\ Laid  BY Zenon DEF WireInv
<1>2. /\ alive /\ sent' = sent /\ ends' = ends /\ arrived' = arrived + d
      /\ delivered' = delivered
      BY DEF Arrive, writerVars, loopVars
<1>3. alive' = alive /\ running' = running  BY DEF Arrive, loopVars
<1>4. PICK l, a, b \in Nat : l = Len(sent) /\ a = arrived /\ b = arrived' /\ a <= b
  <2>1. Len(sent) \in Nat /\ Len(stream) \in Nat /\ arrived \in 0 .. Len(stream)
        BY <1>1, TypesOfState
  <2>2. PICK a \in Nat : a = arrived  BY <2>1
  <2>3. d \in Nat  BY <2>1
  <2>4. a + d \in Nat /\ a <= a + d  BY <2>3
  <2> QED  BY <1>2, <2>1, <2>2, <2>4
<1>5. DOMAIN sent = 1 .. l /\ \A k \in 1 .. l : ends[k] \in Nat
      BY <1>1, <1>4, TypesOfState DEF Laid
<1>6. Honest' = Honest /\ Honest \subseteq 1 .. l
      BY <1>2, <1>5 DEF Honest, LengthsFit
<1>7. Whole' = {k \in Honest : ends[k] <= b} /\ Whole = {k \in Honest : ends[k] <= a}
      BY <1>2, <1>4, <1>6 DEF Whole
<1>8. Whole \subseteq Whole'
  <2>1. ASSUME NEW k \in 1 .. l, ends[k] <= a PROVE ends[k] <= b
        BY <1>4, <1>5, <2>1
  <2> QED  BY <1>6, <1>7, <2>1
<1>9. ASSUME NEW k \in Whole' PROVE 1 .. k \subseteq Whole'
  <2>1. k \in 1 .. l /\ k \in Honest /\ ends[k] <= b  BY <1>6, <1>7, <1>9
  <2>2. ASSUME NEW j \in 1 .. k PROVE j \in Honest /\ ends[j] <= b
    <3>1. j \in 1 .. l /\ j \in Nat /\ k \in Nat /\ j <= k  BY <1>4, <2>1
    <3>2. ends[j] <= ends[k]  BY <1>1, <1>4, <2>1, <3>1 DEF Laid
    <3>3. ends[j] \in Nat /\ ends[k] \in Nat  BY <1>5, <2>1, <3>1
    <3>4. LengthsFit(j)
      <4>1. LengthsFit(k)  BY <2>1 DEF Honest
      <4> QED  BY <1>1, <3>1, <4>1, FitsBefore
    <3>5. j \in Honest  BY <1>5, <3>1, <3>4 DEF Honest
    <3> QED  BY <1>4, <2>1, <3>2, <3>3, <3>5
  <2> QED  BY <1>7, <2>2
<1>10. Meanings' = Meanings /\ DOMAIN Meanings = Honest
      BY <1>2, <1>6 DEF Meanings
<1>11. TakenOut' = TakenOut  BY <1>2, <1>6 DEF TakenOut
<1>12. Whole' \in SUBSET DOMAIN Meanings  BY <1>7, <1>10
<1> QED  BY <1>2, <1>3, <1>8, <1>9, <1>10, <1>11, <1>12
         DEF PC!Arrive, Meanings, Whole, TakenOut

(* The loop takes the next packet, or goes on in what a length that lied     *)
(* left of the stream.                                                       *)
LEMMA ChannelTakes ==
  ASSUME WireInv, WireInv', TakenWhole', ReadPayload
  PROVE  PC!Take \/ UNCHANGED PC!vars
<1>1. WireTypeOK /\ WireTypeOK' /\ InStep /\ InStep'  BY Zenon DEF WireInv
<1>2. sent' = sent /\ ends' = ends /\ arrived' = arrived
      BY DEF ReadPayload, writerVars
<1>3. running /\ running' = running /\ alive' = alive  BY Zenon DEF ReadPayload
<1>4. PICK n \in Nat : n = Len(delivered)  BY <1>1, TypesOfState
<1>5. PICK fr : delivered' = Append(delivered, fr)  BY DEF ReadPayload
<1>6. /\ DOMAIN delivered = 1 .. n /\ DOMAIN delivered' = 1 .. n + 1
      /\ delivered'[n + 1] = fr /\ \A k \in 1 .. n : delivered'[k] = delivered[k]
  <2>1. delivered \in Seq(Seq(Frame)) /\ delivered' \in Seq(Seq(Frame))
        BY <1>1 DEF WireTypeOK
  <2> QED  BY <1>4, <1>5, <2>1
<1>7. Honest' = Honest  BY <1>2 DEF Honest, LengthsFit
<1>8. Meanings' = Meanings /\ Whole' = Whole  BY <1>2, <1>7 DEF Meanings, Whole
<1>9. \A k \in 1 .. n + 1 : k \in 1 .. n \/ k = n + 1  BY <1>4
<1>10. \A k \in 1 .. n : k \in 1 .. n + 1 /\ k # n + 1 /\ k \in Nat /\ k <= n + 1  BY <1>4
<1>11. CASE LengthsFit(n + 1)
  <2>1. \A k \in 1 .. n + 1 : LengthsFit(k)
    <3>1. \A k \in 1 .. n : LengthsFit(k)  BY <1>1, <1>4, <1>10, <1>11, FitsBefore
    <3> QED  BY <1>9, <1>11, <3>1
  <2>2. ASSUME NEW k \in 1 .. n + 1
        PROVE  k \in Honest /\ delivered'[k] = Frames(Meant(sent[k])) /\ ends[k] <= arrived
    <3>1. LengthsFit(k)'  BY <1>2, <2>1 DEF LengthsFit
    <3>2. k \in DOMAIN sent' /\ delivered'[k] = Frames(Meant(sent'[k]))
          BY <1>1, <1>6, <3>1 DEF InStep
    <3>3. ends'[k] <= arrived'  BY <1>6, <3>1 DEF TakenWhole
    <3> QED  BY <1>2, <2>1, <3>2, <3>3 DEF Honest
  <2>3. n + 1 \in 1 .. n + 1  BY <1>4
  <2>4. n + 1 \in Whole /\ Meanings[n + 1] = fr
        BY <1>6, <2>2, <2>3 DEF Whole, Meanings
  <2>5. PICK f, g : f = TakenOut /\ g = TakenOut'  OBVIOUS
  <2>6. DOMAIN delivered \cap Honest = 1 .. n /\ (DOMAIN delivered \cap Honest)' = 1 .. n + 1
        BY <1>6, <1>7, <1>10, <2>2
  <2>7. /\ f = [k \in 1 .. n |-> delivered[k]]
        /\ g = [k \in 1 .. n + 1 |-> delivered'[k]]
        BY <2>5, <2>6 DEF TakenOut
  <2>8. f = [k \in 1 .. n |-> f[k]] /\ g = [k \in 1 .. n + 1 |-> g[k]]  BY <2>7
  <2>9. \A k \in 1 .. n : g[k] = f[k]  BY <1>6, <1>10, <2>7
  <2>10. g = Append(f, g[n + 1]) /\ Len(f) = n
    <3>1. g = Append(f, g[n + 1])  BY <1>4, <2>8, <2>9, AppendedFunction
    <3>2. Len(f) = n  BY <1>4, <2>8, <2>9, AppendedFunction
    <3> QED  BY <3>1, <3>2
  <2>11. Len(TakenOut) + 1 = n + 1 /\ TakenOut' = Append(TakenOut, fr)
    <3>1. g[n + 1] = fr  BY <1>6, <2>3, <2>7
    <3> QED  BY <2>5, <2>10, <3>1
  <2>12. PC!Take
        BY <1>3, <1>8, <2>4, <2>11 DEF PC!Take, PC!Turn, Meanings, Whole, TakenOut
  <2> QED  BY <2>12
<1>12. CASE ~LengthsFit(n + 1)
  <2>1. n + 1 \notin Honest  BY <1>12 DEF Honest
  <2>2. (DOMAIN delivered \cap Honest)' = DOMAIN delivered \cap Honest
        BY <1>6, <1>7, <1>9, <1>10, <2>1
  <2>3. \A k \in DOMAIN delivered \cap Honest : delivered'[k] = delivered[k]  BY <1>6
  <2>4. TakenOut' = TakenOut  BY <2>2, <2>3 DEF TakenOut
  <2>5. UNCHANGED PC!vars
        BY <1>3, <1>8, <2>4 DEF PC!vars, Meanings, Whole, TakenOut
  <2> QED  BY <2>5
<1> QED  BY <1>11, <1>12

(* The loop ends when the packet whose turn it is will not arrive.           *)
LEMMA ChannelEnds ==
  ASSUME WireInv, WholePackets', ReadFails
  PROVE  PC!End
<1>1. WireTypeOK  BY Zenon DEF WireInv
<1>2. /\ sent' = sent /\ ends' = ends /\ arrived' = arrived /\ delivered' = delivered
      BY DEF ReadFails, writerVars
<1>3. running /\ ~alive /\ running' = FALSE /\ alive' = alive  BY DEF ReadFails
<1>4. PICK n \in Nat : n = Len(delivered) /\ DOMAIN delivered = 1 .. n
      BY <1>1, TypesOfState
<1>5. PICK h \in Nat : Honest = 1 .. h  BY <1>1, HonestPrefix
<1>6. Honest' = Honest  BY <1>2 DEF Honest, LengthsFit
<1>7. Meanings' = Meanings /\ Whole' = Whole /\ TakenOut' = TakenOut
      BY <1>2, <1>6 DEF Meanings, Whole, TakenOut
<1>8. PICK t \in Nat : t = IF n <= h THEN n ELSE h  BY <1>4, <1>5
<1>9. Len(TakenOut) = t
  <2>1. \A k : k \in 1 .. t <=> k \in 1 .. n /\ k \in 1 .. h  BY <1>4, <1>5, <1>8
  <2>2. DOMAIN delivered \cap Honest = 1 .. t  BY <1>4, <1>5, <2>1
  <2>3. TakenOut = [k \in 1 .. t |-> delivered[k]]  BY <2>2 DEF TakenOut
  <2>4. PICK f : f = TakenOut  OBVIOUS
  <2>5. PICK S : S = {delivered[k] : k \in 1 .. t}  OBVIOUS
  <2>6. f \in Seq(S)
    <3>1. f \in [1 .. t -> S]  BY <2>3, <2>4, <2>5
    <3> QED  BY <1>8, <3>1, SeqDef
  <2>7. DOMAIN f = 1 .. t  BY <2>3, <2>4
  <2> QED  BY <1>8, <2>4, <2>6, <2>7, LenProperties
<1>10. t + 1 \notin Whole
  <2> SUFFICES ASSUME t + 1 \in Whole PROVE FALSE  OBVIOUS
  <2>1. t + 1 \in Honest /\ ends[t + 1] <= arrived  BY DEF Whole
  <2>2. t + 1 \in 1 .. h  BY <1>5, <2>1
  <2>3. t = n  BY <1>4, <1>5, <1>8, <2>2
  <2>4. t + 1 \in DOMAIN delivered  BY <1>2, <1>3, <1>6, <2>1 DEF WholePackets
  <2> QED  BY <1>4, <2>3, <2>4
<1> QED  BY <1>3, <1>7, <1>9, <1>10 DEF PC!End, PC!Turn, Meanings, Whole, TakenOut

LEMMA ChannelStep ==
  ASSUME WireInv, WireInv', TakenWhole', WholePackets', [WireNext]_wireVars
  PROVE  [PC!Next]_(PC!vars)
<1>1. ASSUME NEW p \in Packets, Write(p) PROVE [PC!Next]_(PC!vars)
  <2>1. PICK c \in {Frames(Meant(q)) : q \in Packets} : c = Frames(Meant(p))  OBVIOUS
  <2>2. PC!Send(c) \/ UNCHANGED PC!vars  BY <1>1, <2>1, ChannelWrite
  <2> QED  BY <2>2 DEF PC!Next
<1>2. ASSUME NEW d \in 1 .. Len(stream), Arrive(d) PROVE PC!Next
  <2>1. PICK more : more = Whole'  OBVIOUS
  <2>2. more \in SUBSET DOMAIN Meanings /\ PC!Arrive(more)
        BY <1>2, <2>1, ChannelArrive
  <2> QED  BY <2>2 DEF PC!Next, Meanings
<1>3. CASE Cut
  <2>1. /\ alive /\ alive' = FALSE /\ running' = running
        BY <1>3 DEF Cut, loopVars
  <2>2. /\ sent' = sent /\ ends' = ends /\ arrived' = arrived /\ delivered' = delivered
        BY <1>3 DEF Cut, writerVars, loopVars
  <2>3. Honest' = Honest  BY <2>2 DEF Honest, LengthsFit
  <2>4. Meanings' = Meanings /\ Whole' = Whole /\ TakenOut' = TakenOut
        BY <2>2, <2>3 DEF Meanings, Whole, TakenOut
  <2>5. PC!Close  BY <2>1, <2>4 DEF PC!Close, Meanings, Whole, TakenOut
  <2> QED  BY <2>5 DEF PC!Next
<1>4. CASE ReadHeader \/ UNCHANGED wireVars
  <2>1. /\ sent' = sent /\ ends' = ends /\ arrived' = arrived /\ delivered' = delivered
        BY <1>4 DEF ReadHeader, wireVars, writerVars, loopVars
  <2>2. alive' = alive /\ running' = running
        BY <1>4 DEF ReadHeader, wireVars, loopVars
  <2>3. Honest' = Honest  BY <2>1 DEF Honest, LengthsFit
  <2>4. Meanings' = Meanings /\ Whole' = Whole /\ TakenOut' = TakenOut
        BY <2>1, <2>3 DEF Meanings, Whole, TakenOut
  <2>5. UNCHANGED PC!vars  BY <2>2, <2>4 DEF PC!vars, Meanings, Whole, TakenOut
  <2> QED  BY <2>5
<1>5. CASE ReadPayload  BY <1>5, ChannelTakes DEF PC!Next
<1>6. CASE ReadFails  BY <1>6, ChannelEnds DEF PC!Next
<1> QED  BY <1>1, <1>2, <1>3, <1>4, <1>5, <1>6, Zenon DEF WireNext

(* Every behaviour of the receive loop on the bytes of pack_packet (socket.rs *)
(* 181-340) is one of PacketChannel, up to the first length that lies: the    *)
(* safety part of what ImplementsPacketChannel asks.                          *)
THEOREM RefinesPacketChannel == WireSpec => PC!Spec
<1>1. WireInit => PC!Init
  <2> SUFFICES ASSUME WireInit PROVE PC!Init  OBVIOUS
  <2>1. sent = <<>> /\ delivered = <<>>  BY DEF WireInit
  <2>2. alive = TRUE /\ running = TRUE  BY DEF WireInit
  <2>3. Honest = {}  BY <2>1 DEF Honest
  <2>4. Meanings = <<>> /\ Whole = {} /\ TakenOut = <<>>
        BY <2>3 DEF Meanings, Whole, TakenOut
  <2> QED  BY <2>2, <2>4 DEF PC!Init, Meanings, Whole, TakenOut
<1>2. /\ WireInv /\ WireInv' /\ TakenWhole' /\ WholePackets' /\ [WireNext]_wireVars
      => [PC!Next]_(PC!vars)
      BY ChannelStep
<1> QED  BY <1>1, <1>2, WireInvariant, TakenInvariant, AlwaysWholePackets, PTL
         DEF WireSpec, PC!Spec
=============================================================================
