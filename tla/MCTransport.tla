----------------------------- MODULE MCTransport -----------------------------
(* Transport on small instances. *)
EXTENDS Transport, TLC

CallerSymmetry == Permutations(Callers)

(* What socket.rs 110 and frame.rs 17 say: the answer to that very request.  *)
(* True neither of the socket, whose keys are used again, nor of a push that *)
(* bears the number of a request: TransportWrap.cfg.                         *)
AnswerToThisRequest == \A r \in Callers : outcome[r] = "ok" => Answered(r)
=============================================================================
