------------------------------ MODULE MCCombo -------------------------------
EXTENDS Combo

(* A combo within another, and two beside them that share a key.              *)
Nested == << <<1, 2>>, <<1, 2, 3>>, <<3, 4>>, <<1, 4>> >>
Terms  == << 1, 2, 1, 1 >>

(* The hypotheses of the theorems of ComboProofs.                             *)
ASSUME MCHypotheses ==
    /\ TwoKeys /\ RingHolds /\ AnyOrder
    /\ BufferHolds /\ OvertakesAll /\ HoldMeetsAll /\ MeetsOvertaken /\ RELEASE_EARLY = {}
=============================================================================
