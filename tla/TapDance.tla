------------------------------ MODULE TapDance ------------------------------
(* Tap dances (quantum/process_keycode/process_tap_dance.c): keys that do one *)
(* thing or another by how often they are tapped, decided by a pause or by    *)
(* the next other key; with the modifiers and layers they reach and the order *)
(* in which process_record() comes to them.                                   *)
EXTENDS Integers, Sequences, FiniteSets, SequencesExt

CONSTANTS
    Key,           \* matrix positions
    Layer,         \* 0..n
    Mod, Code,     \* modifier bits; basic keycodes
    Dance,         \* the indices of tap_dance_actions
    Keymap,        \* of every layer and key, see Action
    ModsOf,        \* of a code: the modifiers that its 16-bit keycode brings
    Kind,          \* of a dance: "pair", "layer_move", "layer_toggle", "user"
    First, Second, \* of a dance: kc or kc1; kc2, or the layer
    Resets,        \* functions of a "user" dance that call reset_tap_dance()
    TAPPING_TERM,
    MaxTaps,       \* bound: taps of one dance
    MaxDown        \* bound: keys down at once

NoDance == "none"
(* A keymap entry: KC_TRNS, a modifier, a one-shot modifier that is tapped, a *)
(* code, or TD(d).                                                            *)
Action == [kind : {"trns"}] \cup [kind : {"mod", "osm"}, mod : Mod]
          \cup [kind : {"key"}, code : Code] \cup [kind : {"td"}, dance : Dance]

ASSUME DanceAssumption ==
    /\ IsFiniteSet(Layer) /\ 0 \in Layer /\ Layer = 0..(Cardinality(Layer) - 1)
    /\ Keymap \in [Layer -> [Key -> Action]]
    /\ ModsOf \in [Code -> SUBSET Mod] /\ NoDance \notin Dance
    /\ Kind \in [Dance -> {"pair", "layer_move", "layer_toggle", "user"}]
    /\ First \in [Dance -> Code]
    /\ \A d \in Dance : Second[d] \in (IF Kind[d] = "pair" THEN Code ELSE Layer)
    /\ Resets \subseteq {"tap", "release", "finished"}
    /\ TAPPING_TERM \in Nat /\ MaxTaps \in Nat /\ MaxDown \in Nat

VARIABLES
    matrix,   \* keys that are down
    src,      \* source_layers_cache
    st,       \* the dances, active_td, modifiers, layer_state and the report
    elapsed   \* timer_elapsed(last_tap_time) while a dance is waited for, up to
              \* where the term is over

vars == <<matrix, src, st, elapsed>>

Zero == [count |-> 0, weak_mods |-> {}, oneshot_mods |-> {},
         pressed |-> FALSE, finished |-> FALSE, interrupted |-> FALSE]
Called == [d \in Dance |-> <<>>]

(* out and calls are what the last step registered, with which modifiers, and *)
(* which functions of every dance it called.                                  *)
Init ==
    /\ matrix = {} /\ src = [k \in Key |-> 0] /\ elapsed = 0
    /\ st = [td |-> [d \in Dance |-> Zero], active |-> NoDance, mods |-> {}, weak |-> {},
             oneshot |-> {}, layers |-> {}, keys |-> {}, out |-> <<>>, calls |-> Called]

-----------------------------------------------------------------------------
(* action_util.c, action_layer.c and quantum.c, as far as dances reach.       *)
send_keyboard_report(s) == IF s.keys = {} THEN s ELSE [s EXCEPT !.oneshot = {}]

add_weak(s, ms) == IF ms = {} THEN s ELSE send_keyboard_report([s EXCEPT !.weak = @ \cup ms])
del_weak(s, ms) == IF ms = {} THEN s ELSE send_keyboard_report([s EXCEPT !.weak = @ \ ms])

unregister_code(s, c) == send_keyboard_report([s EXCEPT !.keys = @ \ {c}])
register_code(s, c) ==
    LET up == IF c \in s.keys THEN unregister_code(s, c) ELSE s
    IN  send_keyboard_report([up EXCEPT
            !.keys = @ \cup {c},
            !.out  = Append(@, [code |-> c, mods |-> up.mods \cup up.weak \cup up.oneshot])])

register_code16(s, c)   == register_code(add_weak(s, ModsOf[c]), c)
unregister_code16(s, c) == del_weak(unregister_code(s, c), ModsOf[c])

layer_move(s, l)   == [s EXCEPT !.layers = {l}]
layer_invert(s, l) == [s EXCEPT !.layers = SymDiff(@, {l})]

TopLayer(s, k) ==
    LET opaque == {l \in s.layers \cup {0} : Keymap[l][k].kind # "trns"}
    IN  IF opaque = {} THEN 0 ELSE Max(opaque)

-----------------------------------------------------------------------------
(* The functions of the ready-made dances, and of a user's that does nothing  *)
(* but reset the dance.                                                       *)
Calling(s, d, f) == [s EXCEPT !.calls[d] = Append(@, f)]

on_reset(s, d) ==
    LET n == s.td[d].count
    IN  IF Kind[d] = "user" THEN s
        ELSE IF n = 1 THEN unregister_code16(s, First[d])
        ELSE IF n = 2 /\ Kind[d] = "pair" THEN unregister_code16(s, Second[d]) ELSE s

(* mutant: the one-shot modifiers stay *)
OnlyWeakBack(s, d) == [s EXCEPT !.weak = @ \ s.td[d].weak_mods]
ModsBack(s, d) == [s EXCEPT !.weak = @ \ s.td[d].weak_mods, !.mods = @ \ s.td[d].oneshot_mods]
Reset(s, d) ==
    [send_keyboard_report(ModsBack(on_reset(Calling(s, d, "reset"), d), d)) EXCEPT !.td[d] = Zero]

reset_tap_dance(s, d) == Reset([s EXCEPT !.active = NoDance], d)
ByUser(s, d, f) == IF Kind[d] = "user" /\ f \in Resets THEN reset_tap_dance(s, d) ELSE s

on_each_tap(s, d) ==
    LET done == [s EXCEPT !.td[d].finished = TRUE]
    IN  IF s.td[d].count = 2 /\ Kind[d] = "pair" THEN register_code16(done, Second[d])
        ELSE IF s.td[d].count = 2 /\ Kind[d] = "layer_move" THEN layer_move(done, Second[d])
        ELSE ByUser(s, d, "tap")

on_dance_finished(s, d) ==
    LET n == s.td[d].count
    IN  CASE Kind[d] = "pair" \/ (Kind[d] # "user" /\ n = 1) -> register_code16(s, First[d])
          [] Kind[d] = "layer_move" /\ n = 2   -> layer_move(s, Second[d])
          [] Kind[d] = "layer_toggle" /\ n = 2 -> layer_invert(s, Second[d])
          [] OTHER -> ByUser(s, d, "finished")

EachTap(s, d) ==
    on_each_tap(Calling([s EXCEPT !.td[d].count = @ + 1, !.td[d].weak_mods = s.mods \cup s.weak,
                                  !.td[d].oneshot_mods = s.oneshot], d, "tap"), d)

EachRelease(s, d) == ByUser(Calling(s, d, "release"), d, "release")

(* The modifiers of the last tap hold until the reset, which is now or when   *)
(* the key comes up.                                                          *)
(* mutant: only the one-shot modifiers are brought back *)
OnlyOneshot(s, d) == [s EXCEPT !.mods = @ \cup s.td[d].oneshot_mods]
ModsOn(s, d) == [s EXCEPT !.weak = @ \cup s.td[d].weak_mods, !.mods = @ \cup s.td[d].oneshot_mods]
(* mutant: the reset does not wait for the release *)
NeverDown(s, d) == FALSE
StillDown(s, d) == s.td[d].pressed

Finished(s, d) ==
    LET r == IF s.td[d].finished THEN s
             ELSE on_dance_finished(Calling(send_keyboard_report(
                      ModsOn([s EXCEPT !.td[d].finished = TRUE], d)), d, "finished"), d)
        e == [r EXCEPT !.active = NoDance]
    IN  IF StillDown(e, d) THEN e ELSE Reset(e, d)

-----------------------------------------------------------------------------
(* mutant: what the dance left of its modifiers reaches the next key *)
KeepWeak(s) == s
clear_weak_mods(s) == [s EXCEPT !.weak = {}]

preprocess_tap_dance(s, a) ==
    IF s.active = NoDance \/ (a.kind = "td" /\ a.dance = s.active) THEN s
    ELSE clear_weak_mods(Finished([s EXCEPT !.td[s.active].interrupted = TRUE], s.active))

(* mutant: every tap waits for another one *)
AlwaysWaits(s, d) == d
NowActive(s, d) == IF s.td[d].finished THEN NoDance ELSE d

process_tap_dance(s, a, pressed) ==
    IF a.kind # "td" THEN s
    ELSE LET d == a.dance
             p == [s EXCEPT !.td[d].pressed = pressed]
             t == EachTap(p, d)
             r == EachRelease(p, d)
             e == Reset(r, d)
         IN  CASE pressed -> [t EXCEPT !.active = NowActive(t, d)]
               [] ~pressed /\ ~r.td[d].finished -> r
               [] ~pressed /\ r.td[d].finished  -> [e EXCEPT !.active = IF @ = d THEN NoDance ELSE @]

process_action(s, a, pressed) ==
    CASE a.kind = "mod" /\ pressed  -> send_keyboard_report([s EXCEPT !.mods = @ \cup {a.mod}])
      [] a.kind = "mod" /\ ~pressed -> send_keyboard_report([s EXCEPT !.mods = @ \ {a.mod}])
      [] a.kind = "osm" /\ pressed  -> [s EXCEPT !.oneshot = @ \cup {a.mod}]
      [] a.kind = "key" /\ pressed  -> register_code16(s, a.code)
      [] a.kind = "key" /\ ~pressed -> unregister_code16(s, a.code)
      [] OTHER -> s

(* The key is looked up when it arrives, when a dance has ended before it,    *)
(* and once more for its action.                                              *)
At(s, k) == Keymap[TopLayer(s, k)][k]
Fresh == [st EXCEPT !.out = <<>>, !.calls = Called]

Press(k) ==
    /\ k \notin matrix /\ Cardinality(matrix) < MaxDown /\ matrix' = matrix \cup {k}
    /\ At(st, k).kind = "td" => st.td[At(st, k).dance].count < MaxTaps
    /\ \E s0 \in {clear_weak_mods(Fresh)} :
       \E s1 \in {preprocess_tap_dance(s0, At(s0, k))} :
       \E s2 \in {process_tap_dance(s1, At(s1, k), TRUE)} :
          /\ st' = process_action(s2, At(s2, k), TRUE)
          /\ src' = [src EXCEPT ![k] = TopLayer(s2, k)]
    /\ elapsed' = 0      \* a tap, or nothing is waited for any more

Release(k) ==
    /\ k \in matrix /\ matrix' = matrix \ {k}
    /\ \E a \in {Keymap[src[k]][k]} :
          st' = process_action(process_tap_dance(Fresh, a, FALSE), a, FALSE)
    /\ elapsed' = IF st'.active = NoDance THEN 0 ELSE elapsed
    /\ UNCHANGED src

Tick ==
    /\ st.active # NoDance /\ elapsed <= TAPPING_TERM /\ elapsed' = elapsed + 1
    /\ st' = Fresh /\ UNCHANGED <<matrix, src>>

(* mutant: the task leaves a dance alone while its key is down *)
DueWhenUp ==
    /\ st.active # NoDance /\ elapsed > TAPPING_TERM
    /\ ~st.td[st.active].interrupted /\ ~st.td[st.active].pressed
Due == st.active # NoDance /\ elapsed > TAPPING_TERM /\ ~st.td[st.active].interrupted
tap_dance_task == Due /\ st' = Finished(Fresh, st.active) /\ elapsed' = 0 /\ UNCHANGED <<matrix, src>>

Next == Tick \/ tap_dance_task \/ \E k \in Key : Press(k) \/ Release(k)

(* The timer runs, and the main loop comes back to the task when it is due:   *)
(* the step that sets the timer back while no key moves.                      *)
TaskRuns == Due /\ elapsed' = 0 /\ matrix' = matrix
Spec == Init /\ [][Next]_vars /\ WF_vars(Tick) /\ WF_<<matrix, elapsed>>(TaskRuns)

-----------------------------------------------------------------------------
DanceState == [count : 0..MaxTaps, weak_mods : SUBSET Mod, oneshot_mods : SUBSET Mod,
               pressed : BOOLEAN, finished : BOOLEAN, interrupted : BOOLEAN]

(* The variables have their types, and the dance that is waited for           *)
(* (active_td, process_tap_dance.c:25) has been tapped and is not finished.   *)
TypeOK ==
    /\ matrix \subseteq Key /\ src \in [Key -> Layer] /\ elapsed \in 0..(TAPPING_TERM + 1)
    /\ st.td \in [Dance -> DanceState]
    /\ st.mods \cup st.weak \cup st.oneshot \subseteq Mod
    /\ st.layers \subseteq Layer /\ st.keys \subseteq Code
    /\ st.active # NoDance =>
          st.active \in Dance /\ st.td[st.active].count > 0 /\ ~st.td[st.active].finished

(* With all keys up and no dance waited for, no code and no modifier that a   *)
(* dance put down is left, and every dance starts over.                       *)
NothingSticks ==
    matrix = {} /\ st.active = NoDance =>
        /\ st.keys = {} /\ st.mods = {} /\ st.weak = {}
        /\ st.td = [d \in Dance |-> Zero]

(* The outcome of a dance is sent with the modifiers and one-shot modifiers   *)
(* of its last tap, held or not when it is decided (add_weak_mods at          *)
(* process_tap_dance.c:115).                                                  *)
Outcome(d) == {i \in DOMAIN st.out' : st.out'[i].code = First[d]}
ModsOfTap == [][
    \A d \in Dance : "finished" \in Range(st.calls'[d]) =>
        \A i \in Outcome(d) :
            st.td[d].weak_mods \cup st.td[d].oneshot_mods \subseteq st.out'[i].mods]_vars

(* A key that interrupts a dance is sent after the outcome and from the layer *)
(* that the dance leaves behind, and "these weak mods should not affect the   *)
(* keypress which interrupted the tap dance" (process_tap_dance.c:141-149):   *)
(* its modifiers are its own, those of modifier keys that are still down and  *)
(* a one-shot modifier that no outcome used up.  Only one-shot modifiers that *)
(* a dance has used reach it as well, for as long as the dance's key is down: *)
(* add_mods() at :117 made them real ones, which clear_weak_mods() spares.    *)
Held == {m \in Mod : \E k \in matrix : Keymap[src[k]][k] = [kind |-> "mod", mod |-> m]}
Lent(s) == UNION {s.td[d].oneshot_mods : d \in {e \in Dance : s.td[e].finished /\ s.td[e].pressed}}
InterruptsLast == [][
    \A k \in matrix' \ matrix :
        LET a   == At(st', k)
            own == ModsOf[a.code] \cup Held \cup (IF Len(st.out') = 1 THEN st.oneshot ELSE {})
        IN  st.active # NoDance /\ a.kind = "key" =>
                /\ st.out' # <<>> /\ Last(st.out').code = a.code
                /\ Last(st.out').mods \subseteq own \cup Lent(st')]_vars

(* The functions of every dance are called as its life allows.                *)
Life(d) == INSTANCE DanceLife WITH
    taps <- st.td[d].count, ended <- st.td[d].finished, down <- st.td[d].pressed, calls <- st.calls[d]
ImplementsLife == (\A d \in Dance : Life(d)!Init) /\ [][\A d \in Dance : [Life(d)!Next]_(Life(d)!vars)]_vars

(* What the keymap must be for the properties above: a dance has one key,      *)
(* which is nothing else on any layer, and no other key and no second code    *)
(* of a dance is the outcome of a dance.                                      *)
TD(d) == [kind |-> "td", dance |-> d]
DanceKey(k, d) == Keymap[0][k] = TD(d)
OneKeyPerDance ==
    /\ \A k \in Key :
          \/ \A l \in Layer : Keymap[l][k].kind # "td"
          \/ \E d \in Dance :
                DanceKey(k, d) /\ \A l \in Layer : Keymap[l][k].kind = "trns" \/ Keymap[l][k] = TD(d)
    /\ \A d \in Dance, j, k \in Key : DanceKey(j, d) /\ DanceKey(k, d) => j = k
OwnOutcomes ==
    \A d \in Dance :
        /\ \A l \in Layer, k \in Key : Keymap[l][k].kind = "key" => Keymap[l][k].code # First[d]
        /\ \A e \in Dance : Kind[e] = "pair" => Second[e] # First[d]

(* A dance that has begun is decided, at the latest when its term is over     *)
(* after the last tap.                                                        *)
DanceDecided == \A d \in Dance : st.active = d ~> st.active # d
=============================================================================
