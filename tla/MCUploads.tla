------------------------------ MODULE MCUploads ------------------------------
(* Uploads on a small instance: a file, a video, and one more that may be a  *)
(* file or a photo.                                                          *)
EXTENDS Uploads, TLC

CONSTANTS u1, u2, u3

TwoOrThreeWait == {u1 :> "file" @@ u2 :> "video" @@ u3 :> k : k \in {"file", "photo"}}
=============================================================================
