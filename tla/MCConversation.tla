---------------------------- MODULE MCConversation ----------------------------
(* Conversation on a small instance. *)
EXTENDS Conversation, TLC

(* Two states are one when they differ only in whether a message that is     *)
(* cached or deleted, and stays so, counts as missed: no step and no         *)
(* property looks at that.                                                   *)
Seen == <<serverVars, queues, cache, view, calls, own, kept, missed \cap (live \ Cached)>>
=============================================================================
