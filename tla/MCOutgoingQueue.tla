--------------------------- MODULE MCOutgoingQueue ---------------------------
(* OutgoingQueue on small instances. *)
EXTENDS OutgoingQueue
=============================================================================
