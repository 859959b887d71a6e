---------------------------- MODULE OutgoingQueue ----------------------------
(***************************************************************************)
(* The outgoing queue of zeromax-core (transport/queue.rs): producers put  *)
(* messages in a bounded channel; one consumer task takes them out, sends   *)
(* them under a circuit breaker, and puts a message it could not send back *)
(* at the end of the same channel.                                         *)
(*                                                                         *)
(* Time is abstracted to one bit, `cooled`: the cooldown has passed since   *)
(* the last failure.  tokio's channel grants room to waiting senders in    *)
(* order; here any waiting sender may get it.                              *)
(***************************************************************************)
EXTENDS Integers, Sequences

CONSTANTS Messages,    \* one call of QueueSender::send each
          NoMessage,   \* the consumer's hand is empty
          Capacity,    \* of the channel (256)
          MaxRetries,  \* DEFAULT_MAX_RETRIES (3)
          Threshold    \* CIRCUIT_BREAKER_THRESHOLD (10)

ASSUME NoMessageAssumption  == NoMessage \notin Messages
ASSUME CapacityAssumption   == Capacity \in Nat \ {0}
ASSUME MaxRetriesAssumption == MaxRetries \in Nat
ASSUME ThresholdAssumption  == Threshold \in Nat \ {0}

VARIABLES queue,      \* the channel
          loop,       \* where the consumer task is
          hand,       \* the message it holds
          retries,    \* message -> its retry_count
          attempts,   \* message -> calls of send_fn made for it (history)
          fate,       \* message -> what has become of it
          errors,     \* breaker: error_count
          tripped,    \* breaker: tripped
          cooled      \* breaker: last_error.elapsed() >= cooldown

breakerVars == <<errors, tripped, cooled>>
countVars   == <<retries, attempts>>
vars == <<queue, loop, hand, countVars, fate, breakerVars>>

LoopPlaces == {"recv", "holding", "delay", "sending", "backoff", "requeue"}
Fates      == {"new", "offered", "accepted", "sent", "dropped"}

TypeOK ==
  /\ queue \in Seq(Messages)
  /\ loop \in LoopPlaces
  /\ hand \in Messages \cup {NoMessage}
  /\ retries \in [Messages -> 0 .. MaxRetries + 1]
  /\ attempts \in [Messages -> 0 .. MaxRetries + 1]
  /\ fate \in [Messages -> Fates]
  /\ errors \in 0 .. Threshold
  /\ tripped \in BOOLEAN
  /\ cooled \in BOOLEAN

Init ==
  /\ queue = <<>> /\ loop = "recv" /\ hand = NoMessage
  /\ retries = [m \in Messages |-> 0] /\ attempts = [m \in Messages |-> 0]
  /\ fate = [m \in Messages |-> "new"]
  /\ errors = 0 /\ tripped = FALSE /\ cooled = FALSE
-----------------------------------------------------------------------------
(* CircuitBreaker *)

RecordSuccess == /\ errors' = IF errors > 0 THEN errors - 1 ELSE errors
                 /\ UNCHANGED <<tripped, cooled>>

RecordFailure == /\ errors' = errors + 1
                 /\ tripped' = (tripped \/ errors + 1 >= Threshold)
                 /\ cooled' = FALSE

(* is_tripped: TRUE while tripped and warm; a cooled breaker is reset. *)
IsTripped == tripped /\ ~cooled
(* Mutant of ResetIfCooled: the count is not reset. *)
ResetFlagOnly == /\ tripped' = (tripped /\ ~cooled)
                 /\ UNCHANGED <<errors, cooled>>
ResetIfCooled == /\ tripped' = (tripped /\ ~cooled)
                 /\ errors' = IF tripped /\ cooled THEN 0 ELSE errors
                 /\ UNCHANGED cooled

CooldownPasses == /\ ~cooled /\ cooled' = TRUE
                  /\ UNCHANGED <<queue, loop, hand, countVars, fate, errors, tripped>>
-----------------------------------------------------------------------------
(* QueueSender::send: the call, then the wait for room in the channel. *)
Offer(m) == /\ fate[m] = "new"
            /\ fate' = [fate EXCEPT ![m] = "offered"]
            /\ UNCHANGED <<queue, loop, hand, countVars, breakerVars>>

HasRoom == Len(queue) < Capacity

Accept(m) == /\ fate[m] = "offered" /\ HasRoom
             /\ queue' = Append(queue, m)
             /\ fate' = [fate EXCEPT ![m] = "accepted"]
             /\ UNCHANGED <<loop, hand, countVars, breakerVars>>
-----------------------------------------------------------------------------
(* The consumer task.  It holds a sender of its own channel, so recv never   *)
(* returns None and the loop has no exit.                                    *)
Receive == /\ loop = "recv" /\ queue # <<>>
           /\ hand' = Head(queue) /\ queue' = Tail(queue)
           /\ loop' = "holding"
           /\ UNCHANGED <<countVars, fate, breakerVars>>

(* Mutant of CheckBreaker: a message met by a tripped breaker is let go. *)
CheckBreakerDiscards ==
  /\ loop = "holding"
  /\ ResetIfCooled
  /\ loop' = IF IsTripped THEN "recv" ELSE "sending"
  /\ hand' = IF IsTripped THEN NoMessage ELSE hand
  /\ UNCHANGED <<queue, countVars, fate>>

CheckBreaker == /\ loop = "holding"
                /\ ResetIfCooled
                /\ loop' = IF IsTripped THEN "delay" ELSE "sending"
                /\ UNCHANGED <<queue, hand, countVars, fate>>

LetGo(f) == /\ loop' = "recv" /\ hand' = NoMessage
            /\ fate' = [fate EXCEPT ![hand] = f]

SendSucceeds == /\ loop = "sending"
                /\ attempts' = [attempts EXCEPT ![hand] = @ + 1]
                /\ RecordSuccess
                /\ LetGo("sent")
                /\ UNCHANGED <<queue, retries>>

(* Mutants of SendFails: one retry too few; the retry is not counted. *)
SendFailsEarlyDrop ==
  /\ loop = "sending"
  /\ attempts' = [attempts EXCEPT ![hand] = @ + 1]
  /\ retries' = [retries EXCEPT ![hand] = @ + 1]
  /\ RecordFailure
  /\ IF retries[hand] + 1 < MaxRetries
     THEN loop' = "backoff" /\ UNCHANGED <<hand, fate>>
     ELSE LetGo("dropped")
  /\ UNCHANGED queue
SendFailsUncounted ==
  /\ loop = "sending"
  /\ loop' = "backoff"
  /\ RecordFailure
  /\ UNCHANGED <<queue, hand, countVars, fate>>
SendFailsKeepsHand ==
  /\ loop = "sending"
  /\ attempts' = [attempts EXCEPT ![hand] = @ + 1]
  /\ retries' = [retries EXCEPT ![hand] = @ + 1]
  /\ RecordFailure
  /\ loop' = "backoff"
  /\ UNCHANGED <<queue, hand, fate>>

SendFails == /\ loop = "sending"
             /\ attempts' = [attempts EXCEPT ![hand] = @ + 1]
             /\ retries' = [retries EXCEPT ![hand] = @ + 1]
             /\ RecordFailure
             /\ IF retries[hand] + 1 <= MaxRetries
                THEN loop' = "backoff" /\ UNCHANGED <<hand, fate>>
                ELSE LetGo("dropped")
             /\ UNCHANGED queue

(* The sleeps: 5 s under a tripped breaker, retry_delay after a failure. *)
SleepOver == /\ loop \in {"delay", "backoff"}
             /\ loop' = "requeue"
             /\ UNCHANGED <<queue, hand, countVars, fate, breakerVars>>

(* tx_retry.send(msg).await: the consumer waits for room that only it makes. *)
Requeue == /\ loop = "requeue" /\ HasRoom
           /\ queue' = Append(queue, hand)
           /\ loop' = "recv" /\ hand' = NoMessage
           /\ UNCHANGED <<countVars, fate, breakerVars>>

Consumer == \/ Receive \/ CheckBreaker \/ SendSucceeds \/ SendFails
            \/ SleepOver \/ Requeue

Next == \/ \E m \in Messages : Offer(m) \/ Accept(m)
        \/ Consumer \/ CooldownPasses

Spec == Init /\ [][Next]_vars

(* The executor runs the consumer, send_fn returns (it has a timeout), the   *)
(* clock advances, and room in the channel goes to a waiting sender.         *)
FairSpec == /\ Spec /\ WF_vars(Consumer) /\ WF_vars(CooldownPasses)
            /\ \A m \in Messages : WF_vars(Accept(m))
-----------------------------------------------------------------------------
(* Properties *)

Occurrences(m) == {i \in 1 .. Len(queue) : queue[i] = m}

(* An accepted message that is neither sent nor dropped is in exactly one    *)
(* place, once in the channel or in the consumer's hand; any other message   *)
(* is in neither.  Retries and breaker delays lose and duplicate nothing.    *)
OnePlace ==
  /\ \A m \in Messages :
       IF fate[m] = "accepted"
       THEN \/ hand = m /\ Occurrences(m) = {}
            \/ hand # m /\ \E i \in 1 .. Len(queue) : Occurrences(m) = {i}
       ELSE hand # m /\ Occurrences(m) = {}
  /\ Len(queue) <= Capacity
  /\ hand = NoMessage <=> loop = "recv"

(* A message is given up only when the first attempt and every retry have    *)
(* failed; time spent waiting for a tripped breaker costs it no attempt.     *)
DroppedOnlyWhenExhausted ==
  \A m \in Messages :
    /\ fate[m] = "dropped" => attempts[m] = MaxRetries + 1
    /\ fate[m] = "sent" => attempts[m] = retries[m] + 1

(* The breaker is tripped exactly while its count has reached the threshold: *)
(* a reset starts the count afresh and no success lets it slip below.        *)
BreakerAgrees == tripped <=> errors >= Threshold

(* Every message the queue accepted is sent or, after its retries, dropped.  *)
AcceptedSettles ==
  \A m \in Messages : fate[m] = "accepted" ~> fate[m] \in {"sent", "dropped"}

(* The same, as long as the channel does not stay full for ever: then the    *)
(* consumer, waiting for room in its own channel, is stuck with it.          *)
SettlesUnlessFull == []<>HasRoom => AcceptedSettles
=============================================================================
