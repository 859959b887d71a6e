----------------------------- MODULE PendingMap -----------------------------
(***************************************************************************)
(* The map of pending requests of zeromax-core (transport/pending.rs): one *)
(* oneshot sender per key.  The transports share one map between every     *)
(* request in flight, the receive loop and the keepalive loop.             *)
(*                                                                         *)
(* A oneshot channel is named by the sequence number of the request that   *)
(* created it; numbers are never reused (AtomicU64::fetch_add), so the     *)
(* name is unique.  The key of a channel is the whole number on WebSocket  *)
(* and the number modulo 256 on the binary socket: Key(s) covers both, with *)
(* Modulus > MaxSeq for WebSocket and a small Modulus for the socket.      *)
(***************************************************************************)
EXTENDS Integers

CONSTANTS Modulus,  \* 256 on the socket; above every number on WebSocket
          MaxSeq    \* bound: the largest sequence number handed out

ASSUME ModulusAssumption == Modulus \in Nat \ {0}
ASSUME MaxSeqAssumption  == MaxSeq \in Nat

VARIABLES pending,  \* key -> number of the channel whose sender is stored
          chan,     \* number -> state of its oneshot channel
          got       \* number -> the request its frame answers, 0 for none

mapVars == <<pending, chan, got>>

Seqs   == 1 .. MaxSeq
Keys   == 0 .. Modulus - 1
Absent == 0

Key(s) == s % Modulus

(* unused: not created; open: sender in use, receiver waiting; full: a frame *)
(* was sent; closed: the sender was dropped (RecvError); deaf: the receiver  *)
(* was dropped, whatever becomes of the sender.                              *)
ChanStates == {"unused", "open", "full", "closed", "deaf"}

PendingTypeOK == /\ pending \in [Keys -> Seqs \cup {Absent}]
                 /\ chan \in [Seqs -> ChanStates]
                 /\ got \in [Seqs -> Seqs \cup {0}]

PendingInit == /\ pending = [k \in Keys |-> Absent]
               /\ chan = [s \in Seqs |-> "unused"]
               /\ got = [s \in Seqs |-> 0]

(* What dropping the senders of the channels in S does to their receivers. *)
SendersDropped(S) ==
  [s \in Seqs |-> IF s \in S /\ chan[s] = "open" THEN "closed" ELSE chan[s]]

(* insert, after its remove (MakeRoom of Transport): a sender stored under  *)
(* the key since then is returned by DashMap::insert and dropped.           *)
Insert(s) ==
  /\ chan' = [SendersDropped({pending[Key(s)]}) EXCEPT ![s] = "open"]
  /\ pending' = [pending EXCEPT ![Key(s)] = s]
  /\ UNCHANGED got

(* resolve, when the key is present: the entry goes, the frame (which      *)
(* answers request re, or none when re = 0) reaches the receiver if there  *)
(* still is one, and is lost without a trace otherwise.                    *)
Resolve(k, re) ==
  LET s == pending[k] IN
  /\ s # Absent
  /\ pending' = [pending EXCEPT ![k] = Absent]
  /\ chan' = [chan EXCEPT ![s] = IF @ = "open" THEN "full" ELSE @]
  /\ got' = [got EXCEPT ![s] = IF chan[s] = "open" THEN re ELSE @]

(* remove: unconditional, by key; whatever sender is stored there is dropped. *)
Remove(k) ==
  /\ pending' = [pending EXCEPT ![k] = Absent]
  /\ chan' = SendersDropped({pending[k]})
  /\ UNCHANGED got

(* cancel_all: every sender is dropped. *)
CancelAll ==
  /\ pending' = [k \in Keys |-> Absent]
  /\ chan' = SendersDropped({pending[k] : k \in Keys})
  /\ UNCHANGED got

(* The task that waits on channel s drops the receiver (its future returned *)
(* or was dropped); the entry of the map is not touched.                    *)
HangUp(s) ==
  /\ chan' = [chan EXCEPT ![s] = "deaf"]
  /\ UNCHANGED <<pending, got>>
=============================================================================
