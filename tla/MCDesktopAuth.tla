---------------------------- MODULE MCDesktopAuth ----------------------------
(* DesktopAuth on a small instance. *)
EXTENDS DesktopAuth, TLC

SlotSymmetry == Permutations(Slots)

(* Bound: at most two logins start at once. *)
TwoStart == Cardinality(Of("sms") \cup Of("qr")) <= 2
=============================================================================
