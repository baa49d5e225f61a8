----------------------------- MODULE MCTapDance -----------------------------
(* A key that is a or S(b), one that is c or moves to layer 1, one that is d  *)
(* or toggles layer 1, a shift, a one-shot shift, and a key that is e on      *)
(* layer 0 and f on layer 1.                                                  *)
EXTENDS TapDance

key(c) == [kind |-> "key", code |-> c]
td(d)  == [kind |-> "td", dance |-> d]
trns   == [kind |-> "trns"]

MCKeymap == 0 :> <<td("pair"), td("move"), key("e"), [kind |-> "mod", mod |-> "S"],
                   [kind |-> "osm", mod |-> "S"], td("toggle")>>
         @@ 1 :> <<trns, trns, key("f"), trns, trns, trns>>
MCModsOf == "a" :> {} @@ "b" :> {"S"} @@ "c" :> {"S"} @@ "d" :> {} @@ "e" :> {} @@ "f" :> {}
MCKind   == "pair" :> "pair" @@ "move" :> "layer_move" @@ "toggle" :> "layer_toggle"
MCFirst  == "pair" :> "a" @@ "move" :> "c" @@ "toggle" :> "d"
MCSecond == "pair" :> "b" @@ "move" :> 1 @@ "toggle" :> 1

(* The hypotheses of the theorems in TapDanceProofs.                          *)
ASSUME MCHypotheses == OneKeyPerDance /\ OwnOutcomes /\ Resets = {}
=============================================================================
