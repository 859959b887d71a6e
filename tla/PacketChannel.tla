---------------------------- MODULE PacketChannel ----------------------------
(***************************************************************************)
(* What the byte stream promises its two ends, with no bytes in it: what   *)
(* is written comes out packet by packet, in order, with the contents that *)
(* were meant; and the reader ends after the connection did, when it has   *)
(* taken every packet that arrived.                                        *)
(***************************************************************************)
EXTENDS Integers, Sequences

CONSTANT Contents   \* what packets may mean

VARIABLES meant,     \* the contents written, in order
          there,     \* indices of the packets that arrived
          taken,     \* the contents taken out, in order
          open,      \* the connection
          reading    \* the reader

vars == <<meant, there, taken, open, reading>>

Init == meant = <<>> /\ there = {} /\ taken = <<>> /\ open = TRUE /\ reading = TRUE

Send(c) == /\ open /\ meant' = Append(meant, c)
           /\ UNCHANGED <<there, taken, open, reading>>

(* Packets arrive in order: with a packet, all those before it are there. *)
Arrive(more) == /\ open /\ there \subseteq more
                /\ \A k \in more : 1 .. k \subseteq more
                /\ there' = more
                /\ UNCHANGED <<meant, taken, open, reading>>

Close == open /\ open' = FALSE /\ UNCHANGED <<meant, there, taken, reading>>

Turn == Len(taken) + 1

Take == /\ reading /\ Turn \in there
        /\ taken' = Append(taken, meant[Turn])
        /\ UNCHANGED <<meant, there, open, reading>>

End == /\ reading /\ ~open /\ Turn \notin there /\ reading' = FALSE
       /\ UNCHANGED <<meant, there, taken, open>>

Next == \/ \E c \in Contents : Send(c)
        \/ \E more \in SUBSET DOMAIN meant : Arrive(more)
        \/ Close \/ Take \/ End

Spec == Init /\ [][Next]_vars

(* Every packet that arrived is taken, and the reader of a closed channel ends. *)
FairSpec == Spec /\ WF_vars(Take \/ End)
=============================================================================
