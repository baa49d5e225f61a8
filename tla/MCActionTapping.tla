--------------------------- MODULE MCActionTapping --------------------------
EXTENDS ActionTapping, TLC

(* Keymap entries.                                                           *)
Act(kind, code, mods, layer) ==
    [kind |-> kind, code |-> code, mods |-> mods, layer |-> layer]
KC(c)    == Act("key", c, {}, 0)
MT(m, c) == Act("mt", c, {m}, 0)
MO(l)    == Act("mo", NoCode, {}, l)
LT(l, c) == Act("lt", c, {}, l)
Trns     == Act("trns", NoCode, {}, 0)

(* A layer-tap that its own layer covers, a mod-tap that is a layer-tap      *)
(* there, and a key that is a modifier there.                                *)
CoveredKeys == (0 :> (1 :> LT(1, "b") @@ 2 :> MT("sft", "a") @@ 3 :> KC("c"))) @@
               (1 :> (1 :> KC("d") @@ 2 :> LT(1, "b") @@ 3 :> Act("mod", NoCode, {"ctl"}, 0)))

(* A mod-tap and a layer that five taps lock, two in the model.              *)
ToggleKey == (0 :> (1 :> MT("sft", "a") @@ 2 :> Act("tt", NoCode, {}, 1) @@ 3 :> KC("c"))) @@
             (1 :> (1 :> KC("b") @@ 2 :> Trns @@ 3 :> KC("d")))

Term(n) == [k \in Key |-> n]
Term2 == Term(2)
Term3 == Term(3)
=============================================================================
