---------------------------- MODULE MCClientStart ----------------------------
(* ClientStart on a small instance. *)
EXTENDS ClientStart, TLC
=============================================================================
