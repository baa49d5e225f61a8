----------------------------- MODULE KeyAction -----------------------------
(* What the firmware does with a key event once it has decided to process    *)
(* it: the layer lookup of action_layer.c, the action of action.c and the    *)
(* mods and report bits of action_util.c.  Operators only: a downstream      *)
(* state d is a record, and every operator returns the next one.             *)
EXTENDS Naturals, Sequences

CONSTANTS NumKeys,        \* matrix positions, numbered in row-major order
          NumLayers,      \* MAX_LAYER
          Code,           \* basic keycodes
          Mod,            \* modifier bits
          Keymap,         \* keymaps[layer][key], as actions
          TAPPING_TOGGLE, \* taps that lock a TT() layer
          MaxCount,       \* largest tap_t.count: 15, a four-bit field
          TIMER_MOD       \* the range of the 16-bit millisecond timer

Key   == 1..NumKeys
Layer == 0..(NumLayers - 1)
NoKey == 0                \* the key of a tick event and of a zeroed record
NoCode == "KC_NO"

(* The action codes a keymap entry can decode to, by what they do:           *)
(*   "trns" KC_TRNS     "key" a basic key, with weak mods if it has any      *)
(*   "mod"  a modifier  "mt"  mod when held, key when tapped                 *)
(*   "mo"   MO(layer)   "lt"  layer when held, key when tapped               *)
(*   "tt"   TT(layer): momentary when held, locked by TAPPING_TOGGLE taps    *)
Action == [kind : {"trns", "key", "mod", "mt", "lt", "mo", "tt"},
           code : Code \cup {NoCode}, mods : SUBSET Mod, layer : Layer]

ASSUME KeymapAssumption ==
    /\ NumKeys \in Nat /\ NumLayers \in Nat \ {0}
    /\ MaxCount \in Nat \ {0, 1} /\ TAPPING_TOGGLE \in 1..MaxCount /\ TIMER_MOD \in Nat \ {0}
    /\ Keymap \in [Layer -> [Key -> Action]]

(* An event together with its tap state: keyevent_t and tap_t.               *)
Time     == 0..(TIMER_MOD - 1)
Record == [key : Key \cup {NoKey}, pressed : BOOLEAN, time : Time,
           count : 0..MaxCount, interrupted : BOOLEAN]

IsEvent(r) == r.key # NoKey

-----------------------------------------------------------------------------
(* The downstream state.  keys, mods and weak make up the keyboard report,   *)
(* layers is layer_state, src the source layer cache.  sent is a history     *)
(* variable: the keys whose last processed event was a press.                *)
Downstream == [keys : SUBSET Code, mods : SUBSET Mod, weak : SUBSET Mod,
               layers : SUBSET Layer, src : [Key -> Layer], sent : SUBSET Key]

InitDownstream == [keys |-> {}, mods |-> {}, weak |-> {}, layers |-> {},
                   src |-> [k \in Key |-> 0], sent |-> {}]

(* The search from the top layer down, over layer_state | default_layer.     *)
layer_switch_get_layer(d, k) ==
    LET opaque(l) == l \in d.layers \cup {0} /\ Keymap[l][k].kind # "trns"
        top(l)    == opaque(l) /\ \A m \in Layer : m > l => ~opaque(m)
    IN  IF \E l \in Layer : top(l) THEN CHOOSE l \in Layer : top(l) ELSE 0

layer_switch_get_action(d, k) == Keymap[layer_switch_get_layer(d, k)][k]

is_tap_action(a) == a.kind \in {"mt", "lt", "tt"}

is_tap_record(d, r) == IsEvent(r) /\ is_tap_action(layer_switch_get_action(d, r.key))

register_code(d, c)    == IF c = NoCode THEN d ELSE [d EXCEPT !.keys = @ \cup {c}]
unregister_code(d, c)  == [d EXCEPT !.keys = @ \ {c}]
register_mods(d, m)    == [d EXCEPT !.mods = @ \cup m]
unregister_mods(d, m)  == [d EXCEPT !.mods = @ \ m]
layer_on(d, l)         == [d EXCEPT !.layers = @ \cup {l}]
layer_off(d, l)        == [d EXCEPT !.layers = @ \ {l}]
layer_invert(d, l)     == IF l \in d.layers THEN layer_off(d, l) ELSE layer_on(d, l)
clear_weak_mods(d)     == [d EXCEPT !.weak = {}]

(* process_action(), split on event.pressed.                                 *)
Press(d, r, a) ==
    CASE a.kind = "key" -> [register_code(d, a.code) EXCEPT !.weak = @ \cup a.mods]
      [] a.kind = "mod" -> register_mods(d, a.mods)
      [] a.kind = "mt"  -> IF r.count > 0 THEN register_code(d, a.code)
                                          ELSE register_mods(d, a.mods)
      [] a.kind = "lt"  -> IF r.count > 0 THEN register_code(d, a.code)
                                          ELSE layer_on(d, a.layer)
      [] a.kind = "mo"  -> layer_on(d, a.layer)
      [] a.kind = "tt"  -> IF r.count < TAPPING_TOGGLE THEN layer_invert(d, a.layer) ELSE d
      [] OTHER          -> d

Release(d, r, a) ==
    CASE a.kind = "key" -> [unregister_code(d, a.code) EXCEPT !.weak = @ \ a.mods]
      [] a.kind = "mod" -> unregister_mods(d, a.mods)
      [] a.kind = "mt"  -> IF r.count > 0 THEN unregister_code(d, a.code)
                                          ELSE unregister_mods(d, a.mods)
      [] a.kind = "lt"  -> IF r.count > 0 THEN unregister_code(d, a.code)
                                          ELSE layer_off(d, a.layer)
      [] a.kind = "mo"  -> layer_off(d, a.layer)
      [] a.kind = "tt"  -> IF r.count <= TAPPING_TOGGLE THEN layer_invert(d, a.layer) ELSE d
      [] OTHER          -> d

process_action(d, r, a) == IF r.pressed THEN Press(d, r, a) ELSE Release(d, r, a)

(* mutant: a release looks its layer up again *)
LayerLookedUpAgain(d, r) == layer_switch_get_layer(d, r.key)

(* A press looks its layer up and stores it; a release uses the stored one.  *)
store_or_get_layer(d, r) ==
    IF r.pressed THEN layer_switch_get_layer(d, r.key) ELSE d.src[r.key]

process_record(d, r) ==
    LET l == store_or_get_layer(d, r)
        e == [d EXCEPT !.src[r.key] = l,
                       !.sent = IF r.pressed THEN @ \cup {r.key} ELSE @ \ {r.key}]
    IN  process_action(e, r, Keymap[l][r.key])

(* mutant: the modifiers survive *)
KeepMods(d) == [d EXCEPT !.keys = {}, !.weak = {}]

(* clear_keyboard() empties the report; it does not touch layer_state.       *)
clear_keyboard(d) == [d EXCEPT !.keys = {}, !.mods = {}, !.weak = {}]

=============================================================================
