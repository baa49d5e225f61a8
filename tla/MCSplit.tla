------------------------------ MODULE MCSplit -------------------------------
EXTENDS SplitTransport, TLC

(* Three matrices, two of them with the same checksum, and a garbled one.     *)
Collide == 0 :> "a" @@ 1 :> "b" @@ 2 :> "b" @@ Garbage :> "g"
=============================================================================
