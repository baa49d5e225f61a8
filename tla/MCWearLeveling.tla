---------------------------- MODULE MCWearLeveling --------------------------
EXTENDS WearLeveling

(* Erase units: the data, and everything behind it.                          *)
TwoSectors == [i \in 0..LOG_SLOTS |-> 2]

(* The theorems of WearLevelingProofs speak of these instances.              *)
ASSUME MCHypotheses == OneSector /\ WholeEntries
=============================================================================
