----------------------------- MODULE MCDebounce -----------------------------
EXTENDS Debounce

(* A row of two keys and a row of one.                                       *)
TwoRows == [k \in Key |-> IF k = 2 THEN 1 ELSE k]
=============================================================================
