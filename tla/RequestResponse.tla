--------------------------- MODULE RequestResponse ---------------------------
(***************************************************************************)
(* What `request` promises its callers, with no map, no tasks and no       *)
(* connection in it: every call returns exactly once, with the server's    *)
(* answer to that call, with another frame that bore its number, or with   *)
(* an error.  An answer implies that the server has seen the request; the  *)
(* other two imply nothing, the server may have executed the request all   *)
(* the same.                                                               *)
(***************************************************************************)
CONSTANT Callers

VARIABLES call,   \* caller -> what has become of its call
          seen    \* callers whose request the server has received

vars == <<call, seen>>

States == {"new", "open", "answered", "misled", "failed"}

Init == call = [r \in Callers |-> "new"] /\ seen = {}

Go(r, from, to) == call[r] = from /\ call' = [call EXCEPT ![r] = to]

Start(r)  == Go(r, "new", "open") /\ UNCHANGED seen
Reject(r) == Go(r, "new", "failed") /\ UNCHANGED seen
Arrive(r) == call[r] = "open" /\ seen' = seen \cup {r} /\ UNCHANGED call
Answer(r) == r \in seen /\ Go(r, "open", "answered") /\ UNCHANGED seen
Fail(r)   == Go(r, "open", "failed") /\ UNCHANGED seen

(* Frames are matched by number alone: the number may be on a push, or be    *)
(* one that an earlier request had modulo the key.                           *)
Mislead(r) == Go(r, "open", "misled") /\ UNCHANGED seen

Next == \E r \in Callers : \/ Start(r) \/ Reject(r) \/ Arrive(r)
                           \/ Answer(r) \/ Mislead(r) \/ Fail(r)

Spec == Init /\ [][Next]_vars

(* Every call that was started returns. *)
FairSpec == Spec /\ \A r \in Callers : WF_vars(Answer(r) \/ Mislead(r) \/ Fail(r))
=============================================================================
