---------------------------- MODULE MCFfiSession -----------------------------
(* FfiSession on a small instance. *)
EXTENDS FfiSession, TLC
=============================================================================
