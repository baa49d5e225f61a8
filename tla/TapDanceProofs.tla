--------------------------- MODULE TapDanceProofs ---------------------------
(* Proofs about TapDance, for every keymap, every set of dances and every     *)
(* tapping term: the types, that nothing stays down, what the outcome of a    *)
(* dance and the key that interrupts it are sent with, and that every dance   *)
(* lives as DanceLife promises. First what every operator on the state does,  *)
(* from the report up to a whole dance; then that the actions preserve IInv.  *)
(* Two hypotheses: no user function resets its own dance (NoResets), and a    *)
(* dance's key is that dance's on every layer (OneKeyPerDance).               *)
EXTENDS TapDance, FiniteSetTheorems, WellFoundedInduction, TLAPS

Fn     == {"tap", "release", "finished", "reset"}
Report == [code : Code, mods : SUBSET Mod]

State == [td : [Dance -> DanceState], active : Dance \cup {NoDance},
          mods : SUBSET Mod, weak : SUBSET Mod, oneshot : SUBSET Mod,
          layers : SUBSET Layer, keys : SUBSET Code,
          out : Seq(Report), calls : [Dance -> Seq(Fn)]]

(* What sending keys leaves alone.                                           *)
Frame(s, t) ==
    /\ t \in State
    /\ t.td = s.td /\ t.active = s.active /\ t.layers = s.layers /\ t.calls = s.calls
    /\ t.mods = s.mods /\ t.oneshot \subseteq s.oneshot

-----------------------------------------------------------------------------
LEMMA Sends ==
    ASSUME NEW s \in State
    PROVE  LET t == send_keyboard_report(s) IN
           /\ Frame(s, t) /\ t.keys = s.keys /\ t.weak = s.weak /\ t.out = s.out
           /\ t.keys # {} => t.oneshot = {}
BY DEF send_keyboard_report, Frame, State

LEMMA AddsWeak ==
    ASSUME NEW s \in State, NEW ms \in SUBSET Mod
    PROVE  LET t == add_weak(s, ms) IN
           Frame(s, t) /\ t.keys = s.keys /\ t.weak = s.weak \cup ms /\ t.out = s.out
<1>. DEFINE u == [s EXCEPT !.weak = @ \cup ms]
<1>1. /\ u \in State /\ u.td = s.td /\ u.active = s.active /\ u.layers = s.layers /\ u.calls = s.calls
      /\ u.mods = s.mods /\ u.oneshot = s.oneshot /\ u.keys = s.keys /\ u.out = s.out
      /\ u.weak = s.weak \cup ms
    BY DEF State
<1>2. Frame(s, s) /\ (ms = {} => s.weak = s.weak \cup ms)
    BY DEF Frame
<1>3. add_weak(s, ms) = IF ms = {} THEN s ELSE send_keyboard_report(u)
    BY DEF add_weak
<1>. HIDE DEF u
<1>. QED BY <1>1, <1>2, <1>3, Sends DEF Frame

LEMMA DelsWeak ==
    ASSUME NEW s \in State, NEW ms \in SUBSET Mod
    PROVE  LET t == del_weak(s, ms) IN
           Frame(s, t) /\ t.keys = s.keys /\ t.weak = s.weak \ ms /\ t.out = s.out
<1>. DEFINE u == [s EXCEPT !.weak = @ \ ms]
<1>1. /\ u \in State /\ u.td = s.td /\ u.active = s.active /\ u.layers = s.layers /\ u.calls = s.calls
      /\ u.mods = s.mods /\ u.oneshot = s.oneshot /\ u.keys = s.keys /\ u.out = s.out
      /\ u.weak = s.weak \ ms
    BY DEF State
<1>2. Frame(s, s) /\ (ms = {} => s.weak = s.weak \ ms)
    BY DEF Frame
<1>3. del_weak(s, ms) = IF ms = {} THEN s ELSE send_keyboard_report(u)
    BY DEF del_weak
<1>. HIDE DEF u
<1>. QED BY <1>1, <1>2, <1>3, Sends DEF Frame

LEMMA Unregisters ==
    ASSUME NEW s \in State, NEW c \in Code
    PROVE  LET t == unregister_code(s, c) IN
           Frame(s, t) /\ t.keys = s.keys \ {c} /\ t.weak = s.weak /\ t.out = s.out
<1>. DEFINE u == [s EXCEPT !.keys = @ \ {c}]
<1>1. /\ u \in State /\ u.td = s.td /\ u.active = s.active /\ u.layers = s.layers /\ u.calls = s.calls
      /\ u.mods = s.mods /\ u.oneshot = s.oneshot /\ u.keys = s.keys \ {c} /\ u.out = s.out
      /\ u.weak = s.weak
    BY DEF State
<1>2. unregister_code(s, c) = send_keyboard_report(u)
    BY DEF unregister_code
<1>. HIDE DEF u
<1>. QED BY <1>1, <1>2, Sends DEF Frame

(* A code goes out with all modifiers that are set, and takes the one-shot    *)
(* modifiers with it.                                                         *)
Sent(s, t, c) ==
    \E ms \in SUBSET Mod :
        /\ t.out = Append(s.out, [code |-> c, mods |-> ms])
        /\ s.mods \cup s.weak \cup ModsOf[c] \subseteq ms
        /\ ms \subseteq s.mods \cup s.weak \cup ModsOf[c] \cup s.oneshot

LEMMA ModsOfType == \A c \in Code : ModsOf[c] \in SUBSET Mod
BY DanceAssumption

LEMMA Registers ==
    ASSUME NEW s \in State, NEW c \in Code
    PROVE  LET t == register_code(s, c) IN
           /\ Frame(s, t) /\ t.keys = s.keys \cup {c} /\ t.weak = s.weak /\ t.oneshot = {}
           /\ \E ms \in SUBSET Mod :
                 /\ t.out = Append(s.out, [code |-> c, mods |-> ms])
                 /\ s.mods \cup s.weak \subseteq ms /\ ms \subseteq s.mods \cup s.weak \cup s.oneshot
<1>. DEFINE up == IF c \in s.keys THEN unregister_code(s, c) ELSE s
            ms == up.mods \cup up.weak \cup up.oneshot
            u  == [up EXCEPT !.keys = @ \cup {c}, !.out = Append(@, [code |-> c, mods |-> ms])]
<1>1. /\ Frame(s, up) /\ up.weak = s.weak /\ up.out = s.out
      /\ up.keys \cup {c} = s.keys \cup {c}
    BY Unregisters DEF Frame
<1>2. ms \in SUBSET Mod /\ [code |-> c, mods |-> ms] \in Report
    BY <1>1 DEF Frame, State, Report
<1>3. Append(up.out, [code |-> c, mods |-> ms]) \in Seq(Report)
  <2>1. up.out \in Seq(Report)
      BY <1>1 DEF Frame, State
  <2>. HIDE DEF ms, up
  <2>. QED BY <1>2, <2>1
<1>4. /\ u \in State /\ u.td = up.td /\ u.active = up.active /\ u.layers = up.layers
      /\ u.calls = up.calls /\ u.mods = up.mods /\ u.oneshot = up.oneshot /\ u.weak = up.weak
      /\ u.keys = up.keys \cup {c} /\ u.out = Append(up.out, [code |-> c, mods |-> ms])
  <2>1. up \in State
      BY <1>1 DEF Frame
  <2>. HIDE DEF ms, up
  <2>. QED BY <1>3, <2>1 DEF State
<1>5. register_code(s, c) = send_keyboard_report(u)
    BY DEF register_code
<1>6. /\ s.mods \cup s.weak \subseteq ms /\ ms \subseteq s.mods \cup s.weak \cup s.oneshot
    BY <1>1 DEF Frame
<1>. HIDE DEF u, ms, up
<1>7. u.keys # {} /\ u.out = Append(s.out, [code |-> c, mods |-> ms])
    BY <1>1, <1>4
<1>. DEFINE t == send_keyboard_report(u)
<1>8. Frame(u, t) /\ t.keys = u.keys /\ t.weak = u.weak /\ t.out = u.out /\ t.oneshot = {}
    BY <1>4, <1>7, Sends
<1>. HIDE DEF t
<1>9. Frame(s, t) /\ t.keys = s.keys \cup {c} /\ t.weak = s.weak
    BY <1>1, <1>4, <1>8 DEF Frame
<1>. QED BY <1>2, <1>5, <1>6, <1>7, <1>8, <1>9 DEF t

LEMMA Registers16 ==
    ASSUME NEW s \in State, NEW c \in Code
    PROVE  LET t == register_code16(s, c) IN
           /\ Frame(s, t) /\ Sent(s, t, c) /\ t.oneshot = {}
           /\ t.keys = s.keys \cup {c} /\ t.weak = s.weak \cup ModsOf[c]
<1>. DEFINE u == add_weak(s, ModsOf[c])
            t == register_code(u, c)
<1>1. Frame(s, u) /\ u.keys = s.keys /\ u.weak = s.weak \cup ModsOf[c] /\ u.out = s.out
    BY ModsOfType, AddsWeak
<1>2. register_code16(s, c) = t
    BY DEF register_code16
<1>. HIDE DEF u
<1>3. u \in State
    BY <1>1 DEF Frame
<1>4. /\ Frame(u, t) /\ t.keys = u.keys \cup {c} /\ t.weak = u.weak /\ t.oneshot = {}
      /\ \E ms \in SUBSET Mod :
            /\ t.out = Append(u.out, [code |-> c, mods |-> ms])
            /\ u.mods \cup u.weak \subseteq ms /\ ms \subseteq u.mods \cup u.weak \cup u.oneshot
    BY <1>3, Registers
<1>. HIDE DEF t
<1>. QED BY <1>1, <1>2, <1>4 DEF Frame, Sent

LEMMA Unregisters16 ==
    ASSUME NEW s \in State, NEW c \in Code
    PROVE  LET t == unregister_code16(s, c) IN
           /\ Frame(s, t) /\ t.out = s.out
           /\ t.keys = s.keys \ {c} /\ t.weak = s.weak \ ModsOf[c]
<1>. DEFINE u == unregister_code(s, c)
            t == del_weak(u, ModsOf[c])
<1>1. Frame(s, u) /\ u.keys = s.keys \ {c} /\ u.weak = s.weak /\ u.out = s.out
    BY Unregisters
<1>2. unregister_code16(s, c) = t
    BY DEF unregister_code16
<1>. HIDE DEF u
<1>3. u \in State
    BY <1>1 DEF Frame
<1>4. Frame(u, t) /\ t.keys = u.keys /\ t.weak = u.weak \ ModsOf[c] /\ t.out = u.out
    BY <1>3, ModsOfType, DelsWeak
<1>. HIDE DEF t
<1>. QED BY <1>1, <1>2, <1>4 DEF Frame

-----------------------------------------------------------------------------
(* No function of a "user" dance calls reset_tap_dance(): with one that does, *)
(* from on_each_tap, the dance would be over before it has been released.     *)
NoResets == Resets = {}

LEMMA DanceTypes ==
    /\ ModsOf \in [Code -> SUBSET Mod] /\ NoDance \notin Dance
    /\ \A d \in Dance : /\ Kind[d] \in {"pair", "layer_move", "layer_toggle", "user"}
                        /\ First[d] \in Code
                        /\ Kind[d] = "pair" => Second[d] \in Code
                        /\ Kind[d] # "pair" => Second[d] \in Layer
    /\ MaxTaps \in Nat /\ TAPPING_TERM \in Nat /\ 0 \in Layer
    /\ Zero \in DanceState
<1>1. Zero \in DanceState
    BY DanceAssumption DEF Zero, DanceState
<1>. QED BY <1>1, DanceAssumption

(* The codes that a finished dance has put down and its reset takes back.     *)
Down(s, d) ==
    IF Kind[d] = "user" THEN {}
    ELSE IF s.td[d].count = 1 THEN {First[d]}
    ELSE IF s.td[d].count = 2 /\ Kind[d] = "pair" THEN {Second[d]} ELSE {}
DownMods(s, d) == UNION {ModsOf[c] : c \in Down(s, d)}

LEMMA OnReset ==
    ASSUME NEW s \in State, NEW d \in Dance
    PROVE  LET t == on_reset(s, d) IN
           /\ Frame(s, t) /\ t.out = s.out
           /\ t.keys = s.keys \ Down(s, d) /\ t.weak = s.weak \ DownMods(s, d)
<1>1. Frame(s, s) /\ s.keys = s.keys \ {} /\ s.weak = s.weak \ {}
    BY DEF Frame
<1>2. \A c : UNION {ModsOf[x] : x \in {c}} = ModsOf[c]
    OBVIOUS
<1>3. UNION {ModsOf[x] : x \in {}} = {}
    OBVIOUS
<1>4. CASE Down(s, d) = {}
    BY <1>1, <1>3, <1>4 DEF on_reset, Down, DownMods
<1>5. CASE Down(s, d) # {}
  <2>1. PICK c \in Code : on_reset(s, d) = unregister_code16(s, c) /\ Down(s, d) = {c}
      BY <1>5, DanceTypes DEF on_reset, Down
  <2>2. DownMods(s, d) = ModsOf[c]
      BY <1>2, <2>1 DEF DownMods
  <2>. QED BY <2>1, <2>2, Unregisters16
<1>. QED BY <1>4, <1>5

(* What the functions of one dance leave alone.                              *)
Apart(s, t, d) ==
    /\ t \in State /\ t.active = s.active
    /\ \A e \in Dance \ {d} : t.td[e] = s.td[e] /\ t.calls[e] = s.calls[e]

LEMMA Calls ==
    ASSUME NEW s \in State, NEW d \in Dance, NEW f \in Fn
    PROVE  LET t == Calling(s, d, f) IN
           /\ Apart(s, t, d)
           /\ t.td = s.td /\ t.layers = s.layers /\ t.mods = s.mods /\ t.oneshot = s.oneshot
           /\ t.keys = s.keys /\ t.weak = s.weak /\ t.out = s.out
           /\ t.calls[d] = Append(s.calls[d], f)
<1>. DEFINE cs == [s.calls EXCEPT ![d] = Append(@, f)]
            t == [s EXCEPT !.calls = cs]
<1>1. s.calls \in [Dance -> Seq(Fn)]
    BY DEF State
<1>2. Append(s.calls[d], f) \in Seq(Fn)
  <2>1. s.calls[d] \in Seq(Fn)
      BY <1>1
  <2>. QED BY <2>1
<1>3. cs \in [Dance -> Seq(Fn)] /\ cs[d] = Append(s.calls[d], f)
      /\ \A e \in Dance \ {d} : cs[e] = s.calls[e]
    BY <1>1, <1>2
<1>4. Calling(s, d, f) = t
    BY DEF Calling
<1>. HIDE DEF cs
<1>5. /\ t \in State /\ t.calls = cs /\ t.active = s.active
      /\ t.td = s.td /\ t.layers = s.layers /\ t.mods = s.mods /\ t.oneshot = s.oneshot
      /\ t.keys = s.keys /\ t.weak = s.weak /\ t.out = s.out
    BY <1>3 DEF State
<1>. QED BY <1>3, <1>4, <1>5 DEF Apart

LEMMA SetsDance ==
    ASSUME NEW s \in State, NEW d \in Dance, NEW x \in DanceState
    PROVE  LET t == [s EXCEPT !.td[d] = x] IN
           /\ Apart(s, t, d) /\ t.td[d] = x
           /\ t.layers = s.layers /\ t.calls = s.calls /\ t.mods = s.mods /\ t.oneshot = s.oneshot
           /\ t.active = s.active /\ t.keys = s.keys /\ t.weak = s.weak /\ t.out = s.out
           /\ t \in State
<1>. DEFINE f == [s.td EXCEPT ![d] = x]
            t == [s EXCEPT !.td[d] = x]
<1>1. s.td \in [Dance -> DanceState]
    BY DEF State
<1>2. f \in [Dance -> DanceState] /\ f[d] = x /\ \A e \in Dance \ {d} : f[e] = s.td[e]
    BY <1>1
<1>3. t = [s EXCEPT !.td = f]
    OBVIOUS
<1>. HIDE DEF f
<1>4. [s EXCEPT !.td = f] \in State
    BY <1>2 DEF State
<1>5. /\ t.td = f /\ t.active = s.active /\ t.layers = s.layers /\ t.calls = s.calls
      /\ t.mods = s.mods /\ t.oneshot = s.oneshot /\ t.keys = s.keys
      /\ t.weak = s.weak /\ t.out = s.out
    BY <1>3 DEF State
<1>. QED BY <1>2, <1>3, <1>4, <1>5 DEF Apart

(* A reset takes back what the dance has put down, codes and modifiers.       *)
LEMMA Resetting ==
    ASSUME NEW s \in State, NEW d \in Dance
    PROVE  LET t == Reset(s, d) IN
           /\ Apart(s, t, d) /\ t.layers = s.layers /\ t.out = s.out
           /\ t.oneshot \subseteq s.oneshot
           /\ t.keys = s.keys \ Down(s, d)
           /\ t.weak = (s.weak \ DownMods(s, d)) \ s.td[d].weak_mods
           /\ t.mods = s.mods \ s.td[d].oneshot_mods
           /\ t.td[d] = Zero /\ t.calls[d] = Append(s.calls[d], "reset")
<1>. DEFINE a == Calling(s, d, "reset")
            b == on_reset(a, d)
            c == ModsBack(b, d)
            e == send_keyboard_report(c)
            t == [e EXCEPT !.td[d] = Zero]
<1>1. /\ Apart(s, a, d)
      /\ a.td = s.td /\ a.layers = s.layers /\ a.mods = s.mods /\ a.oneshot = s.oneshot
      /\ a.keys = s.keys /\ a.weak = s.weak /\ a.out = s.out
      /\ a.calls[d] = Append(s.calls[d], "reset")
    BY Calls DEF Fn
<1>2. a \in State /\ Down(a, d) = Down(s, d) /\ DownMods(a, d) = DownMods(s, d)
    BY <1>1 DEF Apart, Down, DownMods
<1>. HIDE DEF a
<1>3. /\ Frame(a, b) /\ b.out = a.out
      /\ b.keys = a.keys \ Down(s, d) /\ b.weak = a.weak \ DownMods(s, d)
    BY <1>2, OnReset
<1>. HIDE DEF b
<1>4. /\ c \in State /\ c.td = b.td /\ c.active = b.active /\ c.layers = b.layers /\ c.calls = b.calls
      /\ c.oneshot = b.oneshot /\ c.keys = b.keys /\ c.out = b.out
      /\ c.weak = b.weak \ b.td[d].weak_mods /\ c.mods = b.mods \ b.td[d].oneshot_mods
    BY <1>3 DEF ModsBack, Frame, State
<1>. HIDE DEF c
<1>5. Frame(c, e) /\ e.keys = c.keys /\ e.weak = c.weak /\ e.out = c.out
    BY <1>4, Sends
<1>. HIDE DEF e
<1>6. e.td \in [Dance -> DanceState] /\ e \in State
    BY <1>5 DEF Frame, State
<1>7. /\ t \in State /\ t.active = e.active /\ t.layers = e.layers
      /\ t.calls = e.calls /\ t.mods = e.mods /\ t.oneshot = e.oneshot /\ t.keys = e.keys
      /\ t.weak = e.weak /\ t.out = e.out
    BY <1>6, SetsDance, DanceTypes
<1>8. t.td[d] = Zero /\ \A x \in Dance \ {d} : t.td[x] = e.td[x]
    BY <1>6, SetsDance, DanceTypes
<1>9. Reset(s, d) = t
    BY DEF Reset, a, b, c, e
<1>. HIDE DEF t
<1>10. /\ b.td = s.td /\ e.td = s.td /\ t.calls = a.calls /\ t.active = a.active
       /\ t.layers = s.layers /\ t.out = s.out /\ t.oneshot \subseteq s.oneshot
    BY <1>1, <1>3, <1>4, <1>5, <1>7 DEF Frame
<1>11. t.keys = s.keys \ Down(s, d)
    BY <1>1, <1>3, <1>4, <1>5, <1>7
<1>12. t.weak = (s.weak \ DownMods(s, d)) \ s.td[d].weak_mods
    BY <1>1, <1>3, <1>4, <1>5, <1>7, <1>10
<1>13. t.mods = s.mods \ s.td[d].oneshot_mods
    BY <1>1, <1>3, <1>4, <1>5, <1>7, <1>10 DEF Frame
<1>14. Apart(s, t, d) /\ t.calls[d] = Append(s.calls[d], "reset")
    BY <1>1, <1>7, <1>8, <1>10 DEF Apart
<1>. QED BY <1>8, <1>9, <1>10, <1>11, <1>12, <1>13, <1>14

LEMMA SetsLayers ==
    ASSUME NEW s \in State, NEW ls \in SUBSET Layer
    PROVE  LET t == [s EXCEPT !.layers = ls] IN
           /\ t \in State /\ t.td = s.td /\ t.calls = s.calls /\ t.active = s.active
           /\ t.mods = s.mods /\ t.weak = s.weak /\ t.oneshot = s.oneshot /\ t.keys = s.keys
           /\ t.out = s.out
BY DEF State

(* A tap counts, remembers the modifiers, and may finish the dance.           *)
Unfinished(s, d) == ~s.td[d].finished /\ (Kind[d] \in {"pair", "layer_move"} => s.td[d].count <= 1)

SendsSecond(s, t, d) ==
    \/ t.out = s.out
    \/ /\ Kind[d] = "pair"
       /\ \E ms \in SUBSET Mod : t.out = Append(s.out, [code |-> Second[d], mods |-> ms])

LEMMA Tapping ==
    ASSUME NoResets, NEW s \in State, NEW d \in Dance, s.td[d].count < MaxTaps, Unfinished(s, d)
    PROVE  LET t == EachTap(s, d) IN
           /\ Apart(s, t, d) /\ t.mods = s.mods
           /\ t.oneshot \subseteq s.oneshot
           /\ t.td[d].count = s.td[d].count + 1 /\ t.td[d].pressed = s.td[d].pressed
           /\ t.td[d].interrupted = s.td[d].interrupted
           /\ t.td[d].weak_mods = s.mods \cup s.weak
           /\ ~t.td[d].finished => Unfinished(t, d) /\ t.keys = s.keys /\ t.weak = s.weak
           /\ t.keys \subseteq s.keys \cup Down(t, d) /\ t.weak \subseteq s.weak \cup DownMods(t, d)
           /\ t.calls[d] = Append(s.calls[d], "tap") /\ SendsSecond(s, t, d)
<1>. DEFINE x == [s.td[d] EXCEPT !.count = @ + 1, !.weak_mods = s.mods \cup s.weak,
                                 !.oneshot_mods = s.oneshot]
            a == [s EXCEPT !.td[d] = x]
            b == Calling(a, d, "tap")
            y == [b.td[d] EXCEPT !.finished = TRUE]
            done == [b EXCEPT !.td[d] = y]
<1>1. s.td[d] \in DanceState
    BY DEF State
<1>2. /\ x \in DanceState /\ x.count = s.td[d].count + 1 /\ x.weak_mods = s.mods \cup s.weak
      /\ x.pressed = s.td[d].pressed /\ x.interrupted = s.td[d].interrupted
      /\ x.finished = s.td[d].finished
  <2>1. s.td[d].count + 1 \in 0..MaxTaps
      BY <1>1, DanceTypes DEF DanceState
  <2>2. s.mods \cup s.weak \in SUBSET Mod /\ s.oneshot \in SUBSET Mod
      BY DEF State
  <2>. QED BY <1>1, <2>1, <2>2 DEF DanceState
<1>3. EachTap(s, d) = on_each_tap(b, d)
    BY DEF EachTap
<1>. HIDE DEF x
<1>4. /\ Apart(s, a, d) /\ a.td[d] = x /\ a \in State
      /\ a.layers = s.layers /\ a.calls = s.calls /\ a.mods = s.mods /\ a.oneshot = s.oneshot
      /\ a.active = s.active /\ a.keys = s.keys /\ a.weak = s.weak /\ a.out = s.out
    BY <1>2, SetsDance
<1>. HIDE DEF a
<1>5. /\ Apart(a, b, d) /\ b \in State
      /\ b.td = a.td /\ b.layers = a.layers /\ b.mods = a.mods /\ b.oneshot = a.oneshot
      /\ b.keys = a.keys /\ b.weak = a.weak /\ b.out = a.out
      /\ b.calls[d] = Append(a.calls[d], "tap")
  <2>1. a \in State
      BY <1>4
  <2>. HIDE DEF x
  <2>2. /\ Apart(a, b, d) /\ b \in State /\ b.td = a.td /\ b.layers = a.layers
        /\ b.mods = a.mods /\ b.oneshot = a.oneshot
      BY <2>1, Calls DEF Fn, Apart
  <2>3. b.keys = a.keys /\ b.weak = a.weak /\ b.out = a.out /\ b.calls[d] = Append(a.calls[d], "tap")
      BY <2>1, Calls DEF Fn, Apart
  <2>. QED BY <2>2, <2>3
<1>. HIDE DEF b
<1>6. Apart(s, b, d) /\ b.td[d] = x
    BY <1>4, <1>5 DEF Apart
<1>7. y \in DanceState /\ y = [x EXCEPT !.finished = TRUE] /\ y.count = x.count /\ y.pressed = x.pressed
      /\ y.interrupted = x.interrupted /\ y.weak_mods = x.weak_mods /\ y.finished
    BY <1>2, <1>6 DEF DanceState
<1>8. done = [b EXCEPT !.td[d].finished = TRUE]
    OBVIOUS
<1>. HIDE DEF y
<1>9. /\ Apart(b, done, d) /\ done.td[d] = y /\ done \in State
      /\ done.layers = b.layers /\ done.calls = b.calls /\ done.mods = b.mods /\ done.oneshot = b.oneshot
      /\ done.active = b.active /\ done.keys = b.keys /\ done.weak = b.weak /\ done.out = b.out
  <2>1. b \in State /\ y \in DanceState
      BY <1>5, <1>7
  <2>. QED BY <2>1, SetsDance
<1>. HIDE DEF done
<1>10. Apart(s, done, d)
    BY <1>6, <1>9 DEF Apart
<1>11. CASE b.td[d].count = 2 /\ Kind[d] = "pair"
  <2>. DEFINE t == register_code16(done, Second[d])
  <2>1. EachTap(s, d) = t
      BY <1>3, <1>8, <1>11 DEF on_each_tap
  <2>2. /\ Frame(done, t) /\ t.oneshot = {} /\ Sent(done, t, Second[d])
        /\ t.keys = done.keys \cup {Second[d]} /\ t.weak = done.weak \cup ModsOf[Second[d]]
      BY <1>9, <1>11, DanceTypes, Registers16
  <2>. HIDE DEF t
  <2>3. t.td[d] = y /\ t.calls = done.calls /\ Apart(s, t, d) /\ t.mods = s.mods
      BY <1>4, <1>5, <1>9, <1>10, <2>2 DEF Frame, Apart
  <2>4. Down(t, d) = {Second[d]} /\ DownMods(t, d) = ModsOf[Second[d]]
    <3>1. Down(t, d) = {Second[d]}
        BY <1>6, <1>7, <1>11, <2>3 DEF Down
    <3>. QED BY <3>1 DEF DownMods
  <2>5. SendsSecond(s, t, d)
    <3>1. PICK ms \in SUBSET Mod : t.out = Append(done.out, [code |-> Second[d], mods |-> ms])
        BY <2>2 DEF Sent
    <3>2. done.out = s.out
        BY <1>4, <1>5, <1>9
    <3>. QED BY <1>11, <3>1, <3>2 DEF SendsSecond
  <2>. QED BY <1>2, <1>4, <1>5, <1>7, <1>9, <2>1, <2>2, <2>3, <2>4, <2>5
<1>12. CASE b.td[d].count = 2 /\ Kind[d] = "layer_move"
  <2>. DEFINE t == [done EXCEPT !.layers = {Second[d]}]
  <2>1. EachTap(s, d) = t
      BY <1>3, <1>8, <1>12 DEF on_each_tap, layer_move
  <2>2. {Second[d]} \in SUBSET Layer
      BY <1>12, DanceTypes
  <2>3. /\ t \in State /\ t.td = done.td /\ t.calls = done.calls /\ t.active = done.active
        /\ t.mods = done.mods /\ t.weak = done.weak /\ t.oneshot = done.oneshot /\ t.keys = done.keys
        /\ t.out = done.out
      BY <1>9, <2>2, SetsLayers
  <2>. HIDE DEF t
  <2>4. Apart(s, t, d)
      BY <1>10, <2>3 DEF Apart
  <2>5. t.td[d] = y /\ t.keys = s.keys /\ t.weak = s.weak /\ t.mods = s.mods /\ t.oneshot = s.oneshot
        /\ t.calls[d] = Append(s.calls[d], "tap") /\ SendsSecond(s, t, d)
      BY <1>4, <1>5, <1>9, <2>3 DEF SendsSecond
  <2>. QED BY <1>2, <1>7, <2>1, <2>4, <2>5
<1>13. CASE ~(b.td[d].count = 2 /\ Kind[d] \in {"pair", "layer_move"})
  <2>1. EachTap(s, d) = b
      BY <1>3, <1>13 DEF on_each_tap, ByUser, NoResets
  <2>2. Unfinished(b, d)
    <3>1. s.td[d].count \in Nat
        BY <1>1, DanceTypes DEF DanceState
    <3>. QED BY <1>2, <1>6, <1>13, <3>1 DEF Unfinished
  <2>3. SendsSecond(s, b, d)
      BY <1>4, <1>5 DEF SendsSecond
  <2>. QED BY <1>2, <1>4, <1>5, <1>6, <2>1, <2>2, <2>3
<1>. QED BY <1>11, <1>12, <1>13

LEMMA SetsActive ==
    ASSUME NEW s \in State, NEW x \in Dance \cup {NoDance}
    PROVE  LET t == [s EXCEPT !.active = x] IN
           /\ t \in State /\ t.active = x /\ t.td = s.td /\ t.calls = s.calls /\ t.layers = s.layers
           /\ t.mods = s.mods /\ t.weak = s.weak /\ t.oneshot = s.oneshot /\ t.keys = s.keys
           /\ t.out = s.out
BY DEF State

(* The outcome of a dance goes out with the modifiers of its last tap, or not *)
(* at all.                                                                    *)
Decides(s, t, d) ==
    \/ t.out = s.out
    \/ /\ t.oneshot = {}
       /\ \E ms \in SUBSET Mod :
             /\ t.out = Append(s.out, [code |-> First[d], mods |-> ms])
             /\ s.td[d].weak_mods \cup s.td[d].oneshot_mods \subseteq ms

(* on_dance_finished() puts down what a reset takes back.                     *)
LEMMA Deciding ==
    ASSUME NoResets, NEW s \in State, NEW d \in Dance, s.td[d].count > 0,
           Kind[d] \in {"pair", "layer_move"} => s.td[d].count <= 1
    PROVE  LET t == on_dance_finished(s, d) IN
           /\ t \in State /\ t.td = s.td /\ t.calls = s.calls /\ t.mods = s.mods
           /\ t.oneshot \subseteq s.oneshot
           /\ t.keys \subseteq s.keys \cup Down(s, d) /\ t.weak \subseteq s.weak \cup DownMods(s, d)
           /\ \/ t.out = s.out
              \/ t.oneshot = {} /\ Sent(s, t, First[d])
<1>. DEFINE n == s.td[d].count
<1>1. n \in Nat /\ Kind[d] \in {"pair", "layer_move", "layer_toggle", "user"}
    BY DanceTypes DEF State, DanceState
<1>2. CASE Kind[d] # "user" /\ n = 1
  <2>. DEFINE t == register_code16(s, First[d])
  <2>1. on_dance_finished(s, d) = t
      BY <1>2 DEF on_dance_finished
  <2>2. /\ Frame(s, t) /\ Sent(s, t, First[d]) /\ t.oneshot = {}
        /\ t.keys = s.keys \cup {First[d]} /\ t.weak = s.weak \cup ModsOf[First[d]]
      BY DanceTypes, Registers16
  <2>. HIDE DEF t
  <2>3. Down(s, d) = {First[d]}
      BY <1>2 DEF Down
  <2>4. DownMods(s, d) = ModsOf[First[d]]
      BY <2>3 DEF DownMods
  <2>. QED BY <2>1, <2>2, <2>3, <2>4 DEF Frame
<1>3. CASE Kind[d] = "layer_toggle" /\ n = 2
  <2>. DEFINE t == [s EXCEPT !.layers = SymDiff(@, {Second[d]})]
  <2>1. on_dance_finished(s, d) = t
      BY <1>3 DEF on_dance_finished, layer_invert
  <2>2. SymDiff(s.layers, {Second[d]}) \in SUBSET Layer
      BY <1>3, DanceTypes DEF SymDiff, State
  <2>3. t \in State /\ t.td = s.td /\ t.calls = s.calls /\ t.mods = s.mods /\ t.weak = s.weak
        /\ t.oneshot = s.oneshot /\ t.keys = s.keys /\ t.out = s.out
      BY <2>2, SetsLayers
  <2>. HIDE DEF t
  <2>. QED BY <2>1, <2>3
<1>4. CASE ~(Kind[d] # "user" /\ n = 1) /\ ~(Kind[d] = "layer_toggle" /\ n = 2)
  <2>1. Kind[d] # "pair" /\ ~(Kind[d] = "layer_move" /\ n = 2)
      BY <1>1, <1>4
  <2>2. on_dance_finished(s, d) = ByUser(s, d, "finished")
      BY <1>4, <2>1 DEF on_dance_finished
  <2>3. on_dance_finished(s, d) = s
      BY <2>2 DEF ByUser, NoResets
  <2>. QED BY <2>3
<1>. QED BY <1>2, <1>3, <1>4

LEMMA Finishing ==
    ASSUME NoResets, NEW s \in State, NEW d \in Dance, s.td[d].count > 0, Unfinished(s, d)
    PROVE  LET t == Finished(s, d) IN
           /\ t \in State /\ t.active = NoDance
           /\ \A e \in Dance \ {d} : t.td[e] = s.td[e] /\ t.calls[e] = s.calls[e]
           /\ t.oneshot \subseteq s.oneshot /\ Decides(s, t, d)
           /\ IF s.td[d].pressed
              THEN /\ t.td[d] = [s.td[d] EXCEPT !.finished = TRUE]
                   /\ t.calls[d] = Append(s.calls[d], "finished")
                   /\ t.keys \subseteq s.keys \cup Down(t, d)
                   /\ t.weak \subseteq s.weak \cup t.td[d].weak_mods \cup DownMods(t, d)
                   /\ t.mods \subseteq s.mods \cup t.td[d].oneshot_mods
              ELSE /\ t.td[d] = Zero
                   /\ t.calls[d] = Append(Append(s.calls[d], "finished"), "reset")
                   /\ t.keys \subseteq s.keys /\ t.weak \subseteq s.weak /\ t.mods \subseteq s.mods
<1>. DEFINE x == [s.td[d] EXCEPT !.finished = TRUE]
            a == [s EXCEPT !.td[d] = x]
            b == ModsOn(a, d)
            c == send_keyboard_report(b)
            p == Calling(c, d, "finished")
            r == on_dance_finished(p, d)
            e == [r EXCEPT !.active = NoDance]
<1>1. s.td[d] \in DanceState
    BY DEF State
<1>2. /\ x \in DanceState /\ x.count = s.td[d].count /\ x.weak_mods = s.td[d].weak_mods
      /\ x.oneshot_mods = s.td[d].oneshot_mods /\ x.pressed = s.td[d].pressed
    BY <1>1 DEF DanceState
<1>3. Finished(s, d) = IF e.td[d].pressed THEN e ELSE Reset(e, d)
    BY DEF Finished, Unfinished, StillDown
<1>. HIDE DEF x
<1>4. /\ Apart(s, a, d) /\ a.td[d] = x /\ a \in State
      /\ a.calls = s.calls /\ a.mods = s.mods /\ a.oneshot = s.oneshot
      /\ a.keys = s.keys /\ a.weak = s.weak /\ a.out = s.out
    BY <1>2, SetsDance
<1>. HIDE DEF a
<1>5. x.weak_mods \in SUBSET Mod /\ x.oneshot_mods \in SUBSET Mod
    BY <1>2 DEF DanceState
<1>6. /\ b \in State /\ b.td = a.td /\ b.calls = a.calls /\ b.oneshot = a.oneshot /\ b.keys = a.keys
      /\ b.out = a.out /\ b.weak = a.weak \cup x.weak_mods /\ b.mods = a.mods \cup x.oneshot_mods
    BY <1>4, <1>5 DEF ModsOn, State
<1>. HIDE DEF b
<1>7. Frame(b, c) /\ c.keys = b.keys /\ c.weak = b.weak /\ c.out = b.out /\ c \in State
    BY <1>6, Sends DEF Frame
<1>. HIDE DEF c
<1>8. /\ Apart(c, p, d) /\ p \in State /\ p.td = c.td /\ p.mods = c.mods /\ p.oneshot = c.oneshot
      /\ p.keys = c.keys /\ p.weak = c.weak /\ p.out = c.out
      /\ p.calls[d] = Append(c.calls[d], "finished")
    BY <1>7, Calls DEF Fn, Apart
<1>. HIDE DEF p
<1>9. p.td = a.td /\ p.td[d] = x /\ p.td[d].count > 0
      /\ (Kind[d] \in {"pair", "layer_move"} => p.td[d].count <= 1)
    BY <1>2, <1>4, <1>6, <1>7, <1>8 DEF Frame, Unfinished
<1>10. /\ r \in State /\ r.td = p.td /\ r.calls = p.calls /\ r.mods = p.mods
       /\ r.oneshot \subseteq p.oneshot
       /\ r.keys \subseteq p.keys \cup Down(p, d) /\ r.weak \subseteq p.weak \cup DownMods(p, d)
       /\ \/ r.out = p.out
          \/ r.oneshot = {} /\ Sent(p, r, First[d])
    BY <1>8, <1>9, Deciding
<1>. HIDE DEF r
<1>11. /\ e \in State /\ e.active = NoDance /\ e.td = r.td /\ e.calls = r.calls
       /\ e.mods = r.mods /\ e.weak = r.weak /\ e.oneshot = r.oneshot /\ e.keys = r.keys
       /\ e.out = r.out
    BY <1>10, SetsActive
<1>. HIDE DEF e
<1>12. /\ e.td[d] = x /\ e.calls[d] = Append(s.calls[d], "finished")
       /\ Down(e, d) = Down(p, d) /\ DownMods(e, d) = DownMods(p, d)
       /\ \A o \in Dance \ {d} : e.td[o] = s.td[o] /\ e.calls[o] = s.calls[o]
  <2>1. e.td = p.td /\ e.td = a.td /\ e.calls = p.calls /\ c.calls = s.calls
      BY <1>4, <1>6, <1>7, <1>8, <1>9, <1>10, <1>11 DEF Frame
  <2>. QED BY <1>4, <1>8, <1>9, <2>1 DEF Apart, Down, DownMods
<1>13. /\ e.mods = s.mods \cup x.oneshot_mods /\ e.oneshot \subseteq s.oneshot
       /\ p.weak = s.weak \cup x.weak_mods /\ p.mods = s.mods \cup x.oneshot_mods
       /\ e.weak \subseteq s.weak \cup x.weak_mods \cup DownMods(e, d)
       /\ e.keys \subseteq s.keys \cup Down(e, d) /\ p.out = s.out
    BY <1>4, <1>6, <1>7, <1>8, <1>10, <1>11, <1>12 DEF Frame
<1>14. Decides(s, e, d)
  <2>1. CASE r.out = p.out
      BY <1>11, <1>13, <2>1 DEF Decides
  <2>2. CASE r.oneshot = {} /\ Sent(p, r, First[d])
    <3>1. PICK ms \in SUBSET Mod :
             r.out = Append(p.out, [code |-> First[d], mods |-> ms]) /\ p.mods \cup p.weak \subseteq ms
        BY <2>2 DEF Sent
    <3>. QED BY <1>2, <1>11, <1>13, <2>2, <3>1 DEF Decides
  <2>. QED BY <1>10, <2>1, <2>2
<1>15. CASE s.td[d].pressed
  <2>1. Finished(s, d) = e
      BY <1>2, <1>3, <1>12, <1>15
  <2>2. e.keys \subseteq s.keys \cup Down(e, d) /\ e.mods \subseteq s.mods \cup e.td[d].oneshot_mods
        /\ e.weak \subseteq s.weak \cup e.td[d].weak_mods \cup DownMods(e, d)
      BY <1>12, <1>13
  <2>. QED BY <1>11, <1>12, <1>13, <1>14, <1>15, <2>1, <2>2 DEF x
<1>16. CASE ~s.td[d].pressed
  <2>. DEFINE t == Reset(e, d)
  <2>1. Finished(s, d) = t
      BY <1>2, <1>3, <1>12, <1>16
  <2>2. /\ Apart(e, t, d) /\ t.out = e.out
        /\ t.oneshot \subseteq e.oneshot
        /\ t.keys = e.keys \ Down(e, d)
        /\ t.weak = (e.weak \ DownMods(e, d)) \ e.td[d].weak_mods
        /\ t.mods = e.mods \ e.td[d].oneshot_mods
        /\ t.td[d] = Zero /\ t.calls[d] = Append(e.calls[d], "reset")
      BY <1>11, Resetting
  <2>. HIDE DEF t
  <2>3. t.keys \subseteq s.keys /\ t.weak \subseteq s.weak /\ t.mods \subseteq s.mods
      BY <1>12, <1>13, <2>2
  <2>4. Decides(s, t, d)
      BY <1>14, <2>2 DEF Decides
  <2>. QED BY <1>11, <1>12, <1>13, <1>16, <2>1, <2>2, <2>3, <2>4 DEF Apart
<1>. QED BY <1>15, <1>16

-----------------------------------------------------------------------------
(* The life of a dance: nothing is going on, it is waited for, or it is over  *)
(* and its key still down.                                                    *)
Idle(s, d)  == s.active # d /\ s.td[d] = Zero
Waits(s, d) == s.active = d /\ s.td[d].count > 0 /\ Unfinished(s, d)
Spent(s, d) == s.active # d /\ s.td[d].pressed /\ s.td[d].finished
Lives(s) == \A d \in Dance : Idle(s, d) \/ Waits(s, d) \/ Spent(s, d)

(* Everything that is down belongs to a key that is down, of which C are the  *)
(* codes and M the modifiers, or to a dance that is over.                     *)
Ended(s)      == {d \in Dance : s.td[d].finished}
DanceCodes(s) == UNION {Down(s, d) : d \in Ended(s)}
DanceMods(s)  == UNION {s.td[d].oneshot_mods : d \in Ended(s)}
DanceWeak(s)  == UNION {s.td[d].weak_mods \cup DownMods(s, d) : d \in Ended(s)}
CodeMods(C) == UNION {ModsOf[c] : c \in C}
Owned(s, C, M) ==
    /\ s.keys \subseteq C \cup DanceCodes(s)
    /\ s.mods \subseteq M \cup DanceMods(s)
    /\ s.weak \subseteq CodeMods(C) \cup DanceWeak(s)

(* The dances other than d stay as they are.                                  *)
Others(s, t, d) ==
    /\ t \in State
    /\ \A e \in Dance \ {d} : t.td[e] = s.td[e] /\ t.calls[e] = s.calls[e]

(* What belongs to the other dances goes on to belong to them.                *)
LEMMA OthersOwn ==
    ASSUME NEW s \in State, NEW t, NEW d \in Dance, Others(s, t, d)
    PROVE  /\ DanceCodes(s) \subseteq DanceCodes(t) \cup (IF s.td[d].finished THEN Down(s, d) ELSE {})
           /\ DanceMods(s) \subseteq DanceMods(t)
                  \cup (IF s.td[d].finished THEN s.td[d].oneshot_mods ELSE {})
           /\ DanceWeak(s) \subseteq DanceWeak(t)
                  \cup (IF s.td[d].finished THEN s.td[d].weak_mods \cup DownMods(s, d) ELSE {})
<1>1. ASSUME NEW e \in Dance \ {d}
      PROVE  /\ t.td[e] = s.td[e] /\ Down(t, e) = Down(s, e) /\ DownMods(t, e) = DownMods(s, e)
             /\ e \in Ended(t) <=> e \in Ended(s)
    BY DEF Others, Down, DownMods, Ended
<1>. QED BY <1>1 DEF DanceCodes, DanceMods, DanceWeak, Ended

(* A dance that is over owns what it has put down.                            *)
LEMMA EndedOwns ==
    ASSUME NEW t, NEW d \in Dance, t.td[d].finished
    PROVE  /\ Down(t, d) \subseteq DanceCodes(t) /\ t.td[d].oneshot_mods \subseteq DanceMods(t)
           /\ t.td[d].weak_mods \cup DownMods(t, d) \subseteq DanceWeak(t)
BY DEF DanceCodes, DanceMods, DanceWeak, Ended

(* The end of a dance.                                                        *)
Finishes(s, t, d) ==
    IF s.td[d].pressed
    THEN /\ t.td[d] = [s.td[d] EXCEPT !.finished = TRUE]
         /\ t.calls[d] = Append(s.calls[d], "finished")
    ELSE /\ t.td[d] = Zero
         /\ t.calls[d] = Append(Append(s.calls[d], "finished"), "reset")

LEMMA Ends ==
    ASSUME NoResets, NEW s \in State, NEW C, NEW M, Lives(s), Owned(s, C, M), s.active \in Dance
    PROVE  LET t == Finished(s, s.active) IN
           /\ Others(s, t, s.active) /\ t.active = NoDance /\ Lives(t) /\ Owned(t, C, M)
           /\ t.oneshot \subseteq s.oneshot /\ Decides(s, t, s.active)
           /\ Finishes(s, t, s.active)
<1>. DEFINE d == s.active
            t == Finished(s, d)
<1>1. d \in Dance /\ d # NoDance /\ s.td[d] \in DanceState
    BY DanceTypes DEF State
<1>2. Waits(s, d)
    BY <1>1 DEF Lives, Idle, Spent
<1>3. /\ t \in State /\ t.active = NoDance
      /\ \A e \in Dance \ {d} : t.td[e] = s.td[e] /\ t.calls[e] = s.calls[e]
      /\ t.oneshot \subseteq s.oneshot /\ Decides(s, t, d)
      /\ IF s.td[d].pressed
         THEN /\ t.td[d] = [s.td[d] EXCEPT !.finished = TRUE]
              /\ t.calls[d] = Append(s.calls[d], "finished")
              /\ t.keys \subseteq s.keys \cup Down(t, d)
              /\ t.weak \subseteq s.weak \cup t.td[d].weak_mods \cup DownMods(t, d)
              /\ t.mods \subseteq s.mods \cup t.td[d].oneshot_mods
         ELSE /\ t.td[d] = Zero
              /\ t.calls[d] = Append(Append(s.calls[d], "finished"), "reset")
              /\ t.keys \subseteq s.keys /\ t.weak \subseteq s.weak /\ t.mods \subseteq s.mods
    BY <1>1, <1>2, Finishing DEF Waits
<1>. HIDE DEF t
<1>4. Others(s, t, d) /\ Finishes(s, t, d)
    BY <1>3 DEF Others, Finishes
<1>5. /\ DanceCodes(s) \subseteq DanceCodes(t) /\ DanceMods(s) \subseteq DanceMods(t)
      /\ DanceWeak(s) \subseteq DanceWeak(t)
    BY <1>1, <1>2, <1>4, OthersOwn DEF Waits, Unfinished
<1>6. Lives(t)
  <2>1. ASSUME NEW e \in Dance, e # d PROVE Idle(t, e) \/ Spent(t, e)
      BY <1>3, <2>1, DanceTypes DEF Lives, Idle, Waits, Spent
  <2>2. Idle(t, d) \/ Spent(t, d)
    <3>1. CASE s.td[d].pressed
      <4>1. t.td[d].finished /\ t.td[d].pressed
          BY <1>1, <1>3, <3>1 DEF DanceState
      <4>. QED BY <1>1, <1>3, <4>1 DEF Spent
    <3>2. CASE ~s.td[d].pressed
        BY <1>1, <1>3, <3>2 DEF Idle
    <3>. QED BY <3>1, <3>2
  <2>. QED BY <2>1, <2>2 DEF Lives
<1>7. Owned(t, C, M)
  <2>1. CASE s.td[d].pressed
    <3>1. t.td[d].finished
        BY <1>1, <1>3, <2>1 DEF DanceState
    <3>2. /\ Down(t, d) \subseteq DanceCodes(t) /\ t.td[d].oneshot_mods \subseteq DanceMods(t)
          /\ t.td[d].weak_mods \cup DownMods(t, d) \subseteq DanceWeak(t)
        BY <1>1, <3>1, EndedOwns
    <3>3. t.keys \subseteq C \cup DanceCodes(t)
        BY <1>3, <1>5, <2>1, <3>2 DEF Owned
    <3>4. t.mods \subseteq M \cup DanceMods(t)
        BY <1>3, <1>5, <2>1, <3>2 DEF Owned
    <3>5. t.weak \subseteq CodeMods(C) \cup DanceWeak(t)
        BY <1>3, <1>5, <2>1, <3>2 DEF Owned
    <3>. QED BY <3>3, <3>4, <3>5 DEF Owned
  <2>2. CASE ~s.td[d].pressed
      BY <1>3, <1>5, <2>2 DEF Owned
  <2>. QED BY <2>1, <2>2
<1>. QED BY <1>3, <1>4, <1>6, <1>7 DEF t

(* A press of a dance's key.                                                  *)
LEMMA Taps ==
    ASSUME NoResets, NEW s \in State, NEW C, NEW M, Lives(s), Owned(s, C, M), NEW d \in Dance,
           s.active \in {NoDance, d}, ~s.td[d].pressed, s.td[d].count < MaxTaps
    PROVE  LET t == process_tap_dance(s, TD(d), TRUE) IN
           /\ Others(s, t, d) /\ t.active \in {NoDance, d} /\ Lives(t) /\ Owned(t, C, M)
           /\ ~s.td[d].finished
           /\ t.td[d].count = s.td[d].count + 1 /\ t.td[d].pressed /\ t.td[d].finished \in BOOLEAN
           /\ t.calls[d] = Append(s.calls[d], "tap") /\ SendsSecond(s, t, d)
<1>. DEFINE x == [s.td[d] EXCEPT !.pressed = TRUE]
            p == [s EXCEPT !.td[d] = x]
            e == EachTap(p, d)
            t == [e EXCEPT !.active = NowActive(e, d)]
<1>1. s.td[d] \in DanceState /\ d # NoDance
    BY DanceTypes DEF State
<1>2. /\ x \in DanceState /\ x.count = s.td[d].count /\ x.finished = s.td[d].finished /\ x.pressed
    BY <1>1 DEF DanceState
<1>3. process_tap_dance(s, TD(d), TRUE) = t
    BY DEF process_tap_dance, TD
<1>. HIDE DEF x
<1>4. /\ Apart(s, p, d) /\ p.td[d] = x /\ p \in State
      /\ p.layers = s.layers /\ p.calls = s.calls /\ p.mods = s.mods /\ p.oneshot = s.oneshot
      /\ p.active = s.active /\ p.keys = s.keys /\ p.weak = s.weak /\ p.out = s.out
    BY <1>2, SetsDance
<1>5. Unfinished(p, d) /\ ~s.td[d].finished
  <2>1. Idle(s, d) \/ Waits(s, d)
      BY DEF Lives, Spent
  <2>2. CASE Idle(s, d)
    <3>1. s.td[d].finished = FALSE /\ s.td[d].count = 0
        BY <2>2 DEF Idle, Zero
    <3>2. p.td[d].finished = FALSE /\ p.td[d].count = 0
        BY <1>2, <1>4, <3>1
    <3>. QED BY <3>1, <3>2 DEF Unfinished
  <2>3. CASE Waits(s, d)
      BY <1>2, <1>4, <2>3 DEF Waits, Unfinished
  <2>. QED BY <2>1, <2>2, <2>3
<1>6. p.td[d].count < MaxTaps
    BY <1>2, <1>4
<1>. HIDE DEF p
<1>7. /\ Apart(p, e, d) /\ e.mods = p.mods
      /\ e.td[d].count = p.td[d].count + 1 /\ e.td[d].pressed = p.td[d].pressed
      /\ ~e.td[d].finished => Unfinished(e, d) /\ e.keys = p.keys /\ e.weak = p.weak
      /\ e.keys \subseteq p.keys \cup Down(e, d) /\ e.weak \subseteq p.weak \cup DownMods(e, d)
      /\ e.calls[d] = Append(p.calls[d], "tap") /\ SendsSecond(p, e, d)
    BY <1>4, <1>5, <1>6, Tapping
<1>. HIDE DEF e
<1>8. e \in State /\ NowActive(e, d) \in Dance \cup {NoDance}
    BY <1>7 DEF Apart, NowActive
<1>9. /\ t \in State /\ t.active = NowActive(e, d) /\ t.td = e.td /\ t.calls = e.calls
      /\ t.mods = e.mods /\ t.weak = e.weak /\ t.keys = e.keys /\ t.out = e.out
    BY <1>8, SetsActive
<1>. HIDE DEF t
<1>10. /\ Others(s, t, d) /\ t.td[d].count = s.td[d].count + 1 /\ t.td[d].pressed
       /\ t.calls[d] = Append(s.calls[d], "tap") /\ SendsSecond(s, t, d)
    BY <1>2, <1>4, <1>7, <1>9 DEF Others, Apart, SendsSecond
<1>11. t.td[d] \in DanceState
    BY <1>9 DEF State
<1>12. Lives(t)
  <2>1. ASSUME NEW o \in Dance, o # d PROVE Idle(t, o) \/ Spent(t, o)
    <3>1. s.active # o /\ t.active # o
        BY <1>9, <2>1, DanceTypes DEF NowActive
    <3>. QED BY <1>10, <2>1, <3>1 DEF Others, Lives, Idle, Waits, Spent
  <2>2. CASE t.td[d].finished
      BY <1>1, <1>9, <1>10, <2>1, <2>2 DEF Lives, Spent, NowActive
  <2>3. CASE ~t.td[d].finished
    <3>1. t.active = d /\ Unfinished(t, d) /\ t.td[d].count > 0
        BY <1>1, <1>7, <1>9, <1>10, <2>3, DanceTypes DEF NowActive, Unfinished, DanceState
    <3>. QED BY <2>1, <3>1 DEF Lives, Waits
  <2>. QED BY <2>2, <2>3
<1>13. Owned(t, C, M)
  <2>1. /\ DanceCodes(s) \subseteq DanceCodes(t) /\ DanceMods(s) \subseteq DanceMods(t)
        /\ DanceWeak(s) \subseteq DanceWeak(t)
      BY <1>5, <1>10, OthersOwn
  <2>2. t.mods = s.mods
      BY <1>4, <1>7, <1>9
  <2>3. CASE t.td[d].finished
    <3>1. Down(t, d) \subseteq DanceCodes(t) /\ DownMods(t, d) \subseteq DanceWeak(t)
        BY <2>3, EndedOwns
    <3>2. Down(t, d) = Down(e, d) /\ DownMods(t, d) = DownMods(e, d)
        BY <1>9 DEF Down, DownMods
    <3>3. t.keys \subseteq s.keys \cup Down(t, d) /\ t.weak \subseteq s.weak \cup DownMods(t, d)
        BY <1>4, <1>7, <1>9, <3>2
    <3>. QED BY <2>1, <2>2, <3>1, <3>3 DEF Owned
  <2>4. CASE ~t.td[d].finished
    <3>1. t.keys = s.keys /\ t.weak = s.weak
        BY <1>4, <1>7, <1>9, <2>4
    <3>. QED BY <2>1, <2>2, <3>1 DEF Owned
  <2>. QED BY <2>3, <2>4
<1>. QED BY <1>3, <1>5, <1>9, <1>10, <1>11, <1>12, <1>13 DEF NowActive, DanceState

(* Its release ends the dance when it is over.                                *)
Releases(s, t, d) ==
    IF s.td[d].finished
    THEN /\ t.td[d] = Zero
         /\ t.calls[d] = Append(Append(s.calls[d], "release"), "reset")
    ELSE /\ t.td[d] = [s.td[d] EXCEPT !.pressed = FALSE]
         /\ t.calls[d] = Append(s.calls[d], "release")

LEMMA Released ==
    ASSUME NoResets, NEW s \in State, NEW C, NEW M, Lives(s), Owned(s, C, M), NEW d \in Dance,
           s.td[d].pressed
    PROVE  LET t == process_tap_dance(s, TD(d), FALSE) IN
           /\ Others(s, t, d) /\ t.active = s.active /\ Lives(t) /\ Owned(t, C, M)
           /\ Releases(s, t, d)
<1>. DEFINE x == [s.td[d] EXCEPT !.pressed = FALSE]
            p == [s EXCEPT !.td[d] = x]
            r == Calling(p, d, "release")
            e == Reset(r, d)
            t == [e EXCEPT !.active = IF @ = d THEN NoDance ELSE @]
<1>1. s.td[d] \in DanceState /\ d # NoDance
    BY DanceTypes DEF State
<1>2. /\ x \in DanceState /\ x.count = s.td[d].count /\ x.finished = s.td[d].finished /\ ~x.pressed
      /\ x.weak_mods = s.td[d].weak_mods /\ x.oneshot_mods = s.td[d].oneshot_mods
    BY <1>1 DEF DanceState
<1>3. EachRelease(p, d) = r
    BY DEF EachRelease, ByUser, NoResets
<1>4. process_tap_dance(s, TD(d), FALSE) = IF r.td[d].finished THEN t ELSE r
    BY <1>3 DEF process_tap_dance, TD
<1>. HIDE DEF x
<1>5. /\ Apart(s, p, d) /\ p.td[d] = x /\ p \in State
      /\ p.calls = s.calls /\ p.mods = s.mods
      /\ p.active = s.active /\ p.keys = s.keys /\ p.weak = s.weak
    BY <1>2, SetsDance
<1>. HIDE DEF p
<1>6. /\ Apart(p, r, d) /\ r.td = p.td /\ r.mods = p.mods /\ r.keys = p.keys /\ r.weak = p.weak
      /\ r.calls[d] = Append(p.calls[d], "release")
    BY <1>5, Calls DEF Fn
<1>. HIDE DEF r
<1>7. /\ r \in State /\ r.active = s.active /\ r.td[d] = x
      /\ r.calls[d] = Append(s.calls[d], "release") /\ Others(s, r, d)
    BY <1>5, <1>6 DEF Apart, Others
<1>8. Waits(s, d) \/ Spent(s, d)
  <2>1. ~Idle(s, d)
      BY DEF Idle, Zero
  <2>. QED BY <2>1 DEF Lives
<1>9. CASE s.td[d].finished
  <2>1. Spent(s, d) /\ s.active # d
      BY <1>8, <1>9 DEF Waits, Unfinished, Spent
  <2>2. /\ Apart(r, e, d)
        /\ e.keys = r.keys \ Down(r, d)
        /\ e.weak = (r.weak \ DownMods(r, d)) \ r.td[d].weak_mods
        /\ e.mods = r.mods \ r.td[d].oneshot_mods
        /\ e.td[d] = Zero /\ e.calls[d] = Append(r.calls[d], "reset")
    <3>1. r \in State
        BY <1>7
    <3>. QED BY <3>1, Resetting
  <2>. HIDE DEF e
  <2>3. e.active = s.active /\ e \in State
      BY <1>7, <2>2 DEF Apart
  <2>4. /\ t \in State /\ t.active = s.active /\ t.td = e.td /\ t.calls = e.calls
        /\ t.mods = e.mods /\ t.weak = e.weak /\ t.keys = e.keys
    <3>1. t = [e EXCEPT !.active = s.active] /\ s.active \in Dance \cup {NoDance}
        BY <2>1, <2>3 DEF State
    <3>. HIDE DEF t
    <3>. QED BY <2>3, <3>1, SetsActive
  <2>. HIDE DEF t
  <2>5. process_tap_dance(s, TD(d), FALSE) = t
      BY <1>2, <1>4, <1>7, <1>9
  <2>6. Others(s, t, d) /\ Releases(s, t, d) /\ t.td[d] = Zero
      BY <1>7, <1>9, <2>2, <2>4 DEF Others, Apart, Releases
  <2>7. Lives(t)
    <3>1. ASSUME NEW o \in Dance, o # d PROVE Idle(t, o) \/ Waits(t, o) \/ Spent(t, o)
        BY <2>4, <2>6, <3>1 DEF Others, Lives, Idle, Waits, Spent, Unfinished
    <3>. QED BY <2>1, <2>4, <2>6, <3>1 DEF Lives, Idle
  <2>8. Owned(t, C, M)
    <3>1. Down(r, d) = Down(s, d) /\ DownMods(r, d) = DownMods(s, d)
        BY <1>2, <1>7 DEF Down, DownMods
    <3>2. /\ t.keys = s.keys \ Down(s, d) /\ t.mods = s.mods \ s.td[d].oneshot_mods
          /\ t.weak = (s.weak \ DownMods(s, d)) \ s.td[d].weak_mods
        BY <1>2, <1>5, <1>6, <1>7, <2>2, <2>4, <3>1
    <3>3. /\ DanceCodes(s) \subseteq DanceCodes(t) \cup Down(s, d)
          /\ DanceMods(s) \subseteq DanceMods(t) \cup s.td[d].oneshot_mods
          /\ DanceWeak(s) \subseteq DanceWeak(t) \cup s.td[d].weak_mods \cup DownMods(s, d)
        BY <1>9, <2>6, OthersOwn
    <3>. QED BY <3>2, <3>3 DEF Owned
  <2>. QED BY <2>4, <2>5, <2>6, <2>7, <2>8
<1>10. CASE ~s.td[d].finished
  <2>1. process_tap_dance(s, TD(d), FALSE) = r
      BY <1>2, <1>4, <1>7, <1>10
  <2>2. Others(s, r, d) /\ Releases(s, r, d)
      BY <1>7, <1>10 DEF Releases, x
  <2>3. Waits(s, d) /\ Waits(r, d)
      BY <1>2, <1>7, <1>8, <1>10 DEF Waits, Spent, Unfinished
  <2>4. Lives(r)
    <3>1. ASSUME NEW o \in Dance, o # d PROVE Idle(r, o) \/ Waits(r, o) \/ Spent(r, o)
        BY <1>7, <2>2, <3>1 DEF Others, Lives, Idle, Waits, Spent, Unfinished
    <3>. QED BY <2>3, <3>1 DEF Lives
  <2>5. Owned(r, C, M)
    <3>1. r.keys = s.keys /\ r.mods = s.mods /\ r.weak = s.weak
        BY <1>5, <1>6
    <3>2. /\ DanceCodes(s) \subseteq DanceCodes(r) /\ DanceMods(s) \subseteq DanceMods(r)
          /\ DanceWeak(s) \subseteq DanceWeak(r)
        BY <1>7, <1>10, OthersOwn
    <3>. QED BY <3>1, <3>2 DEF Owned
  <2>. QED BY <1>7, <2>1, <2>2, <2>4, <2>5
<1>. QED BY <1>9, <1>10

(* How far a dance has come when an interrupted flag no longer matters.       *)
Over(s, t, d) ==
    IF s.td[d].pressed
    THEN /\ t.td[d].finished = TRUE /\ t.td[d].pressed = TRUE /\ t.td[d].count = s.td[d].count
         /\ t.calls[d] = Append(s.calls[d], "finished")
    ELSE /\ t.td[d] = Zero
         /\ t.calls[d] = Append(Append(s.calls[d], "finished"), "reset")

LEMMA Clears ==
    ASSUME NEW s \in State, NEW C, NEW M, Lives(s), Owned(s, C, M)
    PROVE  LET t == clear_weak_mods(s) IN
           /\ t \in State /\ t.td = s.td /\ t.calls = s.calls /\ t.active = s.active
           /\ t.layers = s.layers /\ t.oneshot = s.oneshot /\ t.out = s.out /\ t.mods = s.mods
           /\ t.weak = {} /\ Lives(t) /\ Owned(t, C, M)
<1>. DEFINE t == clear_weak_mods(s)
<1>1. /\ t \in State /\ t.td = s.td /\ t.calls = s.calls /\ t.active = s.active
      /\ t.layers = s.layers /\ t.oneshot = s.oneshot /\ t.out = s.out /\ t.mods = s.mods
      /\ t.keys = s.keys /\ t.weak = {}
    BY DEF clear_weak_mods, State
<1>. HIDE DEF t
<1>2. Lives(t)
    BY <1>1 DEF Lives, Idle, Waits, Spent, Unfinished
<1>3. DanceCodes(t) = DanceCodes(s) /\ DanceMods(t) = DanceMods(s)
    BY <1>1 DEF DanceCodes, DanceMods, Ended, Down
<1>4. Owned(t, C, M)
    BY <1>1, <1>3 DEF Owned
<1>. QED BY <1>1, <1>2, <1>4 DEF t

(* A press of another key ends the dance that is waited for.                  *)
LEMMA Interrupts ==
    ASSUME NoResets, NEW s \in State, NEW C, NEW M, Lives(s), Owned(s, C, M), s.active \in Dance
    PROVE  LET d == s.active
               t == clear_weak_mods(Finished([s EXCEPT !.td[d].interrupted = TRUE], d)) IN
           /\ Others(s, t, d) /\ t.active = NoDance /\ Lives(t) /\ Owned(t, C, M)
           /\ t.oneshot \subseteq s.oneshot /\ Decides(s, t, d) /\ t.weak = {}
           /\ Over(s, t, d)
<1>. DEFINE d == s.active
            x == [s.td[d] EXCEPT !.interrupted = TRUE]
            i == [s EXCEPT !.td[d] = x]
            f == Finished(i, d)
            t == clear_weak_mods(f)
<1>1. s.td[d] \in DanceState
    BY DEF State
<1>2. /\ x \in DanceState /\ x.count = s.td[d].count /\ x.finished = s.td[d].finished
      /\ x.pressed = s.td[d].pressed
      /\ x.weak_mods = s.td[d].weak_mods /\ x.oneshot_mods = s.td[d].oneshot_mods
    BY <1>1 DEF DanceState
<1>3. i = [s EXCEPT !.td[d].interrupted = TRUE]
    OBVIOUS
<1>. HIDE DEF x
<1>4. /\ Apart(s, i, d) /\ i.td[d] = x /\ i \in State
      /\ i.calls = s.calls /\ i.mods = s.mods /\ i.oneshot = s.oneshot
      /\ i.active = s.active /\ i.keys = s.keys /\ i.weak = s.weak /\ i.out = s.out
    BY <1>2, SetsDance
<1>. HIDE DEF i
<1>5. Waits(s, d)
    BY DanceTypes DEF Lives, Idle, Spent
<1>6. Others(s, i, d) /\ Lives(i)
  <2>1. Waits(i, d)
      BY <1>2, <1>4, <1>5 DEF Waits, Unfinished
  <2>2. ASSUME NEW o \in Dance, o # d PROVE Idle(i, o) \/ Spent(i, o)
      BY <1>4, <2>2 DEF Apart, Lives, Idle, Waits, Spent
  <2>. QED BY <1>4, <2>1, <2>2 DEF Others, Apart, Lives
<1>7. Owned(i, C, M)
  <2>1. /\ DanceCodes(s) \subseteq DanceCodes(i) /\ DanceMods(s) \subseteq DanceMods(i)
        /\ DanceWeak(s) \subseteq DanceWeak(i)
      BY <1>5, <1>6, OthersOwn DEF Waits, Unfinished
  <2>. QED BY <1>4, <2>1 DEF Owned
<1>8. /\ Others(i, f, d) /\ f.active = NoDance /\ Lives(f) /\ Owned(f, C, M)
      /\ f.oneshot \subseteq i.oneshot /\ Decides(i, f, d)
      /\ Finishes(i, f, d)
  <2>1. i.active = d /\ i.active \in Dance
      BY <1>4
  <2>. QED BY <1>4, <1>6, <1>7, <2>1, Ends
<1>. HIDE DEF f
<1>9. f \in State
    BY <1>8 DEF Others
<1>10. /\ t \in State /\ t.td = f.td /\ t.calls = f.calls /\ t.active = f.active
       /\ t.oneshot = f.oneshot /\ t.out = f.out /\ t.weak = {} /\ Lives(t) /\ Owned(t, C, M)
    BY <1>8, <1>9, Clears
<1>. HIDE DEF t
<1>11. Others(s, t, d)
    BY <1>6, <1>8, <1>10 DEF Others
<1>12. Over(s, t, d)
  <2>1. CASE s.td[d].pressed
    <3>1. t.td[d] = [x EXCEPT !.finished = TRUE] /\ t.calls[d] = Append(s.calls[d], "finished")
        BY <1>2, <1>4, <1>8, <1>10, <2>1 DEF Finishes
    <3>2. t.td[d].finished = TRUE /\ t.td[d].pressed = x.pressed /\ t.td[d].count = x.count
        BY <1>2, <3>1 DEF DanceState
    <3>3. s.td[d].pressed = TRUE
        BY <1>1, <2>1 DEF DanceState
    <3>. QED BY <1>2, <2>1, <3>1, <3>2, <3>3 DEF Over
  <2>2. CASE ~s.td[d].pressed
      BY <1>2, <1>4, <1>8, <1>10, <2>2 DEF Finishes, Over
  <2>. QED BY <2>1, <2>2
<1>13. Decides(s, t, d)
    BY <1>2, <1>4, <1>8, <1>10 DEF Decides
<1>14. t.oneshot \subseteq s.oneshot
    BY <1>4, <1>8, <1>10
<1>15. t = clear_weak_mods(Finished([s EXCEPT !.td[s.active].interrupted = TRUE], s.active))
    BY <1>3 DEF t, f
<1>. QED BY <1>8, <1>10, <1>11, <1>12, <1>13, <1>14, <1>15

-----------------------------------------------------------------------------
(* What a key that is not a dance's puts down itself.                         *)
Codes(a) == IF a.kind = "key" THEN {a.code} ELSE {}
Mods(a)  == IF a.kind = "mod" THEN {a.mod} ELSE {}

Untouched(s, t) ==
    t \in State /\ t.td = s.td /\ t.active = s.active /\ t.calls = s.calls /\ t.layers = s.layers

LEMMA UntouchedLives ==
    ASSUME NEW s, NEW t, Untouched(s, t)
    PROVE  /\ Lives(s) => Lives(t)
           /\ DanceCodes(t) = DanceCodes(s) /\ DanceMods(t) = DanceMods(s)
           /\ DanceWeak(t) = DanceWeak(s)
<1>1. Lives(s) => Lives(t)
    BY DEF Untouched, Lives, Idle, Waits, Spent, Unfinished
<1>2. \A d : Down(t, d) = Down(s, d) /\ DownMods(t, d) = DownMods(s, d)
    BY DEF Untouched, Down, DownMods
<1>3. Ended(t) = Ended(s)
    BY DEF Untouched, Ended
<1>. QED BY <1>1, <1>2, <1>3 DEF Untouched, DanceCodes, DanceMods, DanceWeak

LEMMA OneMoreCode == \A C, c : CodeMods(C \cup {c}) = CodeMods(C) \cup ModsOf[c]
BY DEF CodeMods

LEMMA Pressing ==
    ASSUME NEW s \in State, NEW a \in Action, NEW C, NEW M, Owned(s, C, M), Lives(s)
    PROVE  LET t == process_action(s, a, TRUE) IN
           Untouched(s, t) /\ Lives(t) /\ Owned(t, C \cup Codes(a), M \cup Mods(a))
<1>. DEFINE t == process_action(s, a, TRUE)
<1>1. Untouched(s, s) /\ C = C \cup {} /\ M = M \cup {}
    BY DEF Untouched
<1>2. CASE a.kind = "mod"
  <2>. DEFINE u == [s EXCEPT !.mods = @ \cup {a.mod}]
  <2>1. a.mod \in Mod
      BY <1>2 DEF Action
  <2>2. /\ u \in State /\ Untouched(s, u) /\ u.mods = s.mods \cup {a.mod}
        /\ u.keys = s.keys /\ u.weak = s.weak
      BY <2>1 DEF State, Untouched
  <2>3. t = send_keyboard_report(u)
      BY <1>2 DEF process_action
  <2>. HIDE DEF u, t
  <2>4. Untouched(s, t) /\ t.mods = s.mods \cup {a.mod} /\ t.keys = s.keys /\ t.weak = s.weak
      BY <2>2, <2>3, Sends DEF Frame, Untouched
  <2>5. Codes(a) = {} /\ Mods(a) = {a.mod}
      BY <1>2 DEF Codes, Mods
  <2>6. Owned(t, C, M \cup {a.mod})
      BY <2>4, UntouchedLives DEF Owned
  <2>. QED BY <1>1, <2>4, <2>5, <2>6, UntouchedLives DEF t
<1>3. CASE a.kind = "osm"
  <2>1. a.mod \in Mod
      BY <1>3 DEF Action
  <2>2. t = [s EXCEPT !.oneshot = @ \cup {a.mod}]
      BY <1>3 DEF process_action
  <2>3. Untouched(s, t) /\ t.mods = s.mods /\ t.keys = s.keys /\ t.weak = s.weak
    <3>. HIDE DEF t
    <3>1. t \in State
        BY <2>1, <2>2 DEF State
    <3>2. /\ t.td = s.td /\ t.active = s.active /\ t.calls = s.calls /\ t.layers = s.layers
          /\ t.mods = s.mods /\ t.keys = s.keys /\ t.weak = s.weak
        BY <2>2 DEF State
    <3>. QED BY <3>1, <3>2 DEF Untouched
  <2>4. Codes(a) = {} /\ Mods(a) = {}
      BY <1>3 DEF Codes, Mods
  <2>. HIDE DEF t
  <2>5. Owned(t, C, M)
      BY <2>3, UntouchedLives DEF Owned
  <2>. QED BY <1>1, <2>3, <2>4, <2>5, UntouchedLives DEF t
<1>4. CASE a.kind = "key"
  <2>1. a.code \in Code
      BY <1>4 DEF Action
  <2>2. t = register_code16(s, a.code)
      BY <1>4 DEF process_action
  <2>. HIDE DEF t
  <2>3. /\ Untouched(s, t) /\ t.mods = s.mods
        /\ t.keys = s.keys \cup {a.code} /\ t.weak = s.weak \cup ModsOf[a.code]
      BY <2>1, <2>2, Registers16 DEF Frame, Untouched
  <2>4. Codes(a) = {a.code} /\ Mods(a) = {}
      BY <1>4 DEF Codes, Mods
  <2>5. CodeMods(C \cup {a.code}) = CodeMods(C) \cup ModsOf[a.code]
      BY OneMoreCode
  <2>6. DanceCodes(t) = DanceCodes(s) /\ DanceMods(t) = DanceMods(s) /\ DanceWeak(t) = DanceWeak(s)
      BY <2>3, UntouchedLives
  <2>7. Owned(t, C \cup {a.code}, M)
      BY <2>3, <2>5, <2>6 DEF Owned
  <2>. QED BY <1>1, <2>3, <2>4, <2>7, UntouchedLives DEF t
<1>5. CASE a.kind \notin {"mod", "osm", "key"}
  <2>1. t = s
      BY <1>5 DEF process_action
  <2>2. Codes(a) = {} /\ Mods(a) = {}
      BY <1>5 DEF Codes, Mods
  <2>. QED BY <1>1, <2>1, <2>2
<1>. QED BY <1>2, <1>3, <1>4, <1>5

LEMMA Releasing ==
    ASSUME NEW s \in State, NEW a \in Action, NEW C, NEW M, Lives(s),
           Owned(s, C \cup Codes(a), M \cup Mods(a))
    PROVE  LET t == process_action(s, a, FALSE) IN
           Untouched(s, t) /\ Lives(t) /\ Owned(t, C, M)
<1>. DEFINE t == process_action(s, a, FALSE)
<1>1. Untouched(s, s) /\ C = C \cup {} /\ M = M \cup {}
    BY DEF Untouched
<1>2. CASE a.kind = "mod"
  <2>. DEFINE u == [s EXCEPT !.mods = @ \ {a.mod}]
  <2>1. /\ u \in State /\ Untouched(s, u) /\ u.mods = s.mods \ {a.mod}
        /\ u.keys = s.keys /\ u.weak = s.weak
      BY DEF State, Untouched
  <2>2. t = send_keyboard_report(u)
      BY <1>2 DEF process_action
  <2>. HIDE DEF u, t
  <2>3. Untouched(s, t) /\ t.mods = s.mods \ {a.mod} /\ t.keys = s.keys /\ t.weak = s.weak
      BY <2>1, <2>2, Sends DEF Frame, Untouched
  <2>4. Owned(s, C, M \cup {a.mod})
      BY <1>1, <1>2 DEF Codes, Mods
  <2>5. Owned(t, C, M)
      BY <2>3, <2>4, UntouchedLives DEF Owned
  <2>. QED BY <2>3, <2>5, UntouchedLives DEF t
<1>3. CASE a.kind = "key"
  <2>1. a.code \in Code
      BY <1>3 DEF Action
  <2>2. t = unregister_code16(s, a.code)
      BY <1>3 DEF process_action
  <2>. HIDE DEF t
  <2>3. /\ Untouched(s, t) /\ t.mods = s.mods
        /\ t.keys = s.keys \ {a.code} /\ t.weak = s.weak \ ModsOf[a.code]
      BY <2>1, <2>2, Unregisters16 DEF Frame, Untouched
  <2>4. Owned(s, C \cup {a.code}, M)
      BY <1>1, <1>3 DEF Codes, Mods
  <2>5. CodeMods(C \cup {a.code}) = CodeMods(C) \cup ModsOf[a.code]
      BY OneMoreCode
  <2>6. DanceCodes(t) = DanceCodes(s) /\ DanceMods(t) = DanceMods(s) /\ DanceWeak(t) = DanceWeak(s)
      BY <2>3, UntouchedLives
  <2>7. Owned(t, C, M)
      BY <2>3, <2>4, <2>5, <2>6 DEF Owned
  <2>. QED BY <2>3, <2>7, UntouchedLives DEF t
<1>4. CASE a.kind \notin {"mod", "key"}
  <2>1. t = s
      BY <1>4 DEF process_action
  <2>2. Owned(s, C, M)
      BY <1>1, <1>4 DEF Codes, Mods
  <2>. QED BY <1>1, <2>1, <2>2
<1>. QED BY <1>2, <1>3, <1>4

-----------------------------------------------------------------------------
(* TopLayer looks the key up on a layer of the keymap: Max is a choice, that  *)
(* there is something to choose follows from the order of the naturals.       *)
LEMMA LeastElement ==
    ASSUME NEW S \in SUBSET Nat, S # {}
    PROVE  \E x \in S : \A y \in S : x <= y
<1>1. PICK x \in S : \A y \in S : ~(<<y, x>> \in OpToRel(<, Nat))
    BY NatLessThanWellFounded, WFMin, Zenon
<1>2. ASSUME NEW y \in S PROVE x <= y
  <2>. DEFINE R == OpToRel(<, Nat)
  <2>1. <<y, x>> \notin R
      BY <1>1, Zenon
  <2>2. R = {p \in Nat \X Nat : p[1] < p[2]}
      BY Zenon DEF OpToRel
  <2>. HIDE DEF R
  <2>. QED BY <2>1, <2>2
<1>. QED BY <1>2

LEMMA MaxIn ==
    ASSUME NEW n \in Nat, NEW S \in SUBSET (0..n), S # {}
    PROVE  Max(S) \in S
<1>. DEFINE T == {n - x : x \in S}
<1>1. T \in SUBSET Nat
  <2>. SUFFICES ASSUME NEW x \in S PROVE n - x \in Nat
      OBVIOUS
  <2>1. x \in 0..n
      OBVIOUS
  <2>. QED BY <2>1
<1>2. T # {}
    OBVIOUS
<1>3. PICK t \in T : \A y \in T : t <= y
  <2>. HIDE DEF T
  <2>. QED BY <1>1, <1>2, LeastElement
<1>4. PICK x \in S : t = n - x
    OBVIOUS
<1>5. \A y \in S : x >= y
  <2>. SUFFICES ASSUME NEW y \in S PROVE x >= y
      OBVIOUS
  <2>1. n - x <= n - y
      BY <1>3, <1>4
  <2>2. x \in 0..n /\ y \in 0..n
      OBVIOUS
  <2>. QED BY <2>1, <2>2
<1>. QED BY <1>5 DEF Max

LEMMA LayerRange == Layer = 0..(Cardinality(Layer) - 1) /\ Cardinality(Layer) - 1 \in Nat
<1>1. Cardinality(Layer) \in Nat
    BY DanceAssumption, FS_CardinalityType
<1>2. Layer = 0..(Cardinality(Layer) - 1) /\ 0 \in Layer
    BY DanceAssumption
<1>. DEFINE c == Cardinality(Layer)
<1>3. c \in Nat /\ 0 \in 0..(c - 1)
    BY <1>1, <1>2
<1>. HIDE DEF c
<1>4. c - 1 \in Nat
    BY <1>3
<1>. QED BY <1>2, <1>4 DEF c

LEMMA Looks ==
    ASSUME NEW s \in State, NEW k \in Key
    PROVE  TopLayer(s, k) \in Layer /\ At(s, k) \in Action
<1>. DEFINE opaque == {l \in s.layers \cup {0} : Keymap[l][k].kind # "trns"}
            n == Cardinality(Layer) - 1
<1>1. TopLayer(s, k) = IF opaque = {} THEN 0 ELSE Max(opaque)
    BY DEF TopLayer
<1>2. opaque \subseteq Layer
    BY DanceTypes DEF State
<1>3. Layer = 0..n /\ 0 \in Layer /\ n \in Nat
    BY LayerRange, DanceTypes
<1>. HIDE DEF opaque, n
<1>4. TopLayer(s, k) \in Layer
    BY <1>1, <1>2, <1>3, MaxIn
<1>. QED BY <1>4, DanceAssumption DEF At

(* The key of a dance is always the dance's.                                  *)
LEMMA LooksDance ==
    ASSUME OneKeyPerDance, NEW s \in State, NEW k \in Key, NEW d \in Dance, DanceKey(k, d)
    PROVE  At(s, k) = TD(d)
<1>. DEFINE opaque == {l \in s.layers \cup {0} : Keymap[l][k].kind # "trns"}
            n == Cardinality(Layer) - 1
<1>1. TopLayer(s, k) = IF opaque = {} THEN 0 ELSE Max(opaque)
    BY DEF TopLayer
<1>2. 0 \in opaque /\ opaque \subseteq Layer
    BY DanceTypes DEF State, DanceKey, TD
<1>3. Layer = 0..n /\ n \in Nat
    BY LayerRange
<1>4. \A l \in opaque : Keymap[l][k].kind # "trns"
    OBVIOUS
<1>. HIDE DEF opaque, n
<1>5. TopLayer(s, k) \in opaque
    BY <1>1, <1>2, <1>3, MaxIn
<1>6. Keymap[0][k] = TD(d) /\ 0 \in Layer
    BY DanceTypes DEF DanceKey
<1>7. \A l \in Layer : Keymap[l][k].kind = "trns" \/ Keymap[l][k] = TD(d)
  <2>1. Keymap[0][k].kind = "td"
      BY <1>6 DEF TD
  <2>2. PICK e \in Dance :
           DanceKey(k, e) /\ \A l \in Layer : Keymap[l][k].kind = "trns" \/ Keymap[l][k] = TD(e)
      BY <1>6, <2>1 DEF OneKeyPerDance
  <2>3. TD(e) = TD(d)
      BY <1>6, <2>2 DEF DanceKey
  <2>. QED BY <2>2, <2>3
<1>. QED BY <1>2, <1>4, <1>5, <1>7 DEF At

(* A key that is a dance's on some layer is that dance's key.                 *)
LEMMA IsDanceKey ==
    ASSUME OneKeyPerDance, NEW l \in Layer, NEW k \in Key, Keymap[l][k].kind = "td"
    PROVE  \E d \in Dance : DanceKey(k, d) /\ Keymap[l][k] = TD(d)
BY DEF OneKeyPerDance

-----------------------------------------------------------------------------
(* What a step of the whole does to one dance.                                *)
Left(s, t, d) == t.td[d] = s.td[d] /\ t.calls[d] = s.calls[d]
Tapped(s, t, d) ==
    /\ ~s.td[d].finished /\ ~s.td[d].pressed
    /\ t.td[d].count = s.td[d].count + 1 /\ t.td[d].pressed /\ t.td[d].finished \in BOOLEAN
    /\ t.calls[d] = Append(s.calls[d], "tap")
LifeStep(s, t, d) ==
    \/ Left(s, t, d)
    \/ Tapped(s, t, d)
    \/ s.td[d].pressed /\ Releases(s, t, d)
    \/ Waits(s, d) /\ Over(s, t, d)

Waiting(s) == s.active # NoDance

(* The outcome goes out before anything else in the step, with the modifiers  *)
(* of the last tap.                                                           *)
LEMMA Preprocessed ==
    ASSUME NoResets, NEW s \in State, NEW a \in Action, NEW C, NEW M,
           Lives(s), Owned(s, C, M), s.weak = {}
    PROVE  LET t == preprocess_tap_dance(s, a) IN
           \/ t = s /\ (s.active = NoDance \/ a = TD(s.active))
           \/ /\ s.active \in Dance /\ a # TD(s.active)
              /\ Others(s, t, s.active) /\ t.active = NoDance /\ Lives(t) /\ Owned(t, C, M)
              /\ t.oneshot \subseteq s.oneshot /\ t.weak = {} /\ Decides(s, t, s.active)
              /\ Waits(s, s.active) /\ Over(s, t, s.active)
<1>1. s.active \in Dance \cup {NoDance}
    BY DEF State
<1>2. CASE s.active = NoDance
    BY <1>2 DEF preprocess_tap_dance
<1>3. CASE a = TD(s.active)
    BY <1>3 DEF preprocess_tap_dance, TD
<1>4. CASE s.active \in Dance /\ a # TD(s.active)
  <2>1. ~(a.kind = "td" /\ a.dance = s.active)
      BY <1>4 DEF Action, TD
  <2>2. preprocess_tap_dance(s, a)
            = clear_weak_mods(Finished([s EXCEPT !.td[s.active].interrupted = TRUE], s.active))
      BY <1>4, <2>1, DanceTypes DEF preprocess_tap_dance
  <2>3. Waits(s, s.active)
      BY <1>4, DanceTypes DEF Lives, Idle, Spent
  <2>. QED BY <1>4, <2>2, <2>3, Interrupts
<1>. QED BY <1>1, <1>2, <1>3, <1>4

HeldCodes == UNION {Codes(Keymap[src[k]][k]) : k \in matrix}
HeldMods  == UNION {Mods(Keymap[src[k]][k]) : k \in matrix}

(* The inductive invariant: every dance is idle, waited for or over with its  *)
(* key down; a dance's key is down exactly while the dance says so; and what  *)
(* is down belongs to a key that is down or to a dance that is over.          *)
IInv ==
    /\ matrix \subseteq Key /\ src \in [Key -> Layer] /\ elapsed \in 0..(TAPPING_TERM + 1)
    /\ st \in State /\ Lives(st)
    /\ \A k \in matrix, d \in Dance : DanceKey(k, d) => Keymap[src[k]][k] = TD(d)
    /\ \A d \in Dance : st.td[d].pressed <=> \E k \in matrix : DanceKey(k, d)
    /\ Owned(st, HeldCodes, HeldMods)

LEMMA Invariant == Init => IInv
<1>. SUFFICES ASSUME Init PROVE IInv
    OBVIOUS
<1>1. /\ matrix = {} /\ src = [k \in Key |-> 0] /\ elapsed = 0
      /\ st = [td |-> [d \in Dance |-> Zero], active |-> NoDance, mods |-> {}, weak |-> {},
               oneshot |-> {}, layers |-> {}, keys |-> {}, out |-> <<>>, calls |-> Called]
    BY DEF Init
<1>2. [d \in Dance |-> Zero] \in [Dance -> DanceState] /\ Called \in [Dance -> Seq(Fn)]
      /\ <<>> \in Seq(Report)
    BY DanceTypes DEF Called
<1>3. st \in State
    BY <1>1, <1>2 DEF State
<1>4. /\ \A d \in Dance : st.td[d] = Zero /\ st.active # d /\ ~st.td[d].pressed
      /\ st.keys = {} /\ st.mods = {} /\ st.weak = {}
    BY <1>1, DanceTypes DEF Zero
<1>5. Lives(st) /\ Owned(st, HeldCodes, HeldMods)
    BY <1>4 DEF Lives, Idle, Owned
<1>. QED BY <1>1, <1>3, <1>4, <1>5, DanceTypes DEF IInv

(* A step begins with nothing sent and nothing called.                        *)
LEMMA Freshly ==
    ASSUME st \in State, Lives(st), NEW C, NEW M, Owned(st, C, M)
    PROVE  /\ Fresh \in State /\ Lives(Fresh) /\ Owned(Fresh, C, M)
           /\ Fresh.td = st.td /\ Fresh.active = st.active /\ Fresh.layers = st.layers
           /\ Fresh.mods = st.mods /\ Fresh.oneshot = st.oneshot
           /\ Fresh.out = <<>> /\ \A d \in Dance : Fresh.calls[d] = <<>>
<1>. DEFINE t == Fresh
<1>1. Called \in [Dance -> Seq(Fn)] /\ <<>> \in Seq(Report)
    BY DEF Called
<1>2. \A d \in Dance : Called[d] = <<>>
    BY DEF Called
<1>3. /\ t \in State /\ t.td = st.td /\ t.active = st.active /\ t.layers = st.layers
      /\ t.mods = st.mods /\ t.oneshot = st.oneshot /\ t.keys = st.keys /\ t.weak = st.weak
      /\ t.out = <<>> /\ t.calls = Called
    BY <1>1 DEF Fresh, State
<1>. HIDE DEF t
<1>4. Lives(t)
    BY <1>3 DEF Lives, Idle, Waits, Spent, Unfinished
<1>5. DanceCodes(t) = DanceCodes(st) /\ DanceMods(t) = DanceMods(st) /\ DanceWeak(t) = DanceWeak(st)
    BY <1>3 DEF DanceCodes, DanceMods, DanceWeak, Ended, Down, DownMods
<1>6. Owned(t, C, M)
    BY <1>3, <1>5 DEF Owned
<1>. QED BY <1>2, <1>3, <1>4, <1>6 DEF t

(* Time passes.                                                               *)
LEMMA Ticks ==
    ASSUME IInv, Tick
    PROVE  IInv' /\ \A d \in Dance : LifeStep(Fresh, st', d)
<1>1. /\ st \in State /\ Lives(st) /\ Owned(st, HeldCodes, HeldMods)
      /\ elapsed \in 0..(TAPPING_TERM + 1)
      /\ elapsed <= TAPPING_TERM /\ elapsed' = elapsed + 1 /\ st' = Fresh
      /\ matrix' = matrix /\ src' = src
    BY DEF IInv, Tick
<1>2. /\ Fresh \in State /\ Lives(Fresh) /\ Owned(Fresh, HeldCodes, HeldMods) /\ Fresh.td = st.td
    BY <1>1, Freshly
<1>3. HeldCodes' = HeldCodes /\ HeldMods' = HeldMods
    BY <1>1 DEF HeldCodes, HeldMods
<1>4. Lives(st') /\ Owned(st', HeldCodes', HeldMods') /\ st' \in State /\ st'.td = st.td
    BY <1>1, <1>2, <1>3
<1>5. elapsed' \in 0..(TAPPING_TERM + 1)
    BY <1>1, DanceTypes
<1>6. IInv'
    BY <1>1, <1>4, <1>5 DEF IInv
<1>. QED BY <1>1, <1>6 DEF LifeStep, Left

(* The term of the dance that is waited for is over.                          *)
LEMMA Tasks ==
    ASSUME NoResets, IInv, tap_dance_task
    PROVE  IInv' /\ \A d \in Dance : LifeStep(Fresh, st', d)
<1>. DEFINE x == st.active
<1>1. /\ st \in State /\ Lives(st) /\ Owned(st, HeldCodes, HeldMods)
      /\ st.active # NoDance /\ elapsed' = 0 /\ st' = Finished(Fresh, x)
      /\ matrix' = matrix /\ src' = src
    BY DEF IInv, tap_dance_task, Due
<1>2. /\ Fresh \in State /\ Lives(Fresh) /\ Owned(Fresh, HeldCodes, HeldMods)
      /\ Fresh.td = st.td /\ Fresh.active = x
    BY <1>1, Freshly
<1>3. x \in Dance
    BY <1>1 DEF State
<1>4. /\ Others(Fresh, st', x) /\ Lives(st') /\ Owned(st', HeldCodes, HeldMods)
      /\ Finishes(Fresh, st', x)
    BY <1>1, <1>2, <1>3, Ends
<1>5. Waits(Fresh, x)
    BY <1>1, <1>2, <1>3 DEF Lives, Idle, Spent
<1>6. Over(Fresh, st', x)
  <2>1. Fresh.td[x] \in DanceState
      BY <1>2, <1>3 DEF State
  <2>2. CASE Fresh.td[x].pressed
    <3>1. st'.td[x] = [Fresh.td[x] EXCEPT !.finished = TRUE]
        BY <1>4, <2>2 DEF Finishes
    <3>2. /\ st'.td[x].finished = TRUE /\ st'.td[x].pressed = TRUE
          /\ st'.td[x].count = Fresh.td[x].count
        BY <2>1, <2>2, <3>1 DEF DanceState
    <3>. QED BY <1>4, <2>2, <3>2 DEF Over, Finishes
  <2>3. CASE ~Fresh.td[x].pressed
      BY <1>4, <2>3 DEF Over, Finishes
  <2>. QED BY <2>2, <2>3
<1>7. \A d \in Dance : LifeStep(Fresh, st', d)
    BY <1>4, <1>5, <1>6 DEF LifeStep, Left, Others
<1>8. \A d \in Dance : st'.td[d].pressed <=> st.td[d].pressed
  <2>1. ASSUME NEW d \in Dance, d # x PROVE st'.td[d] = st.td[d]
      BY <1>2, <1>4, <2>1 DEF Others
  <2>2. st'.td[x].pressed <=> st.td[x].pressed
      BY <1>2, <1>6 DEF Over, Zero
  <2>. QED BY <2>1, <2>2
<1>9. HeldCodes' = HeldCodes /\ HeldMods' = HeldMods
    BY <1>1 DEF HeldCodes, HeldMods
<1>10. Lives(st') /\ Owned(st', HeldCodes', HeldMods') /\ st' \in State
    BY <1>4, <1>9 DEF Others
<1>11. elapsed' \in 0..(TAPPING_TERM + 1)
    BY <1>1, DanceTypes
<1>12. IInv'
    BY <1>1, <1>8, <1>10, <1>11 DEF IInv
<1>. QED BY <1>7, <1>12

LEMMA SameDance == ASSUME NEW d, NEW e, TD(d) = TD(e) PROVE d = e
<1>1. TD(d).dance = d /\ TD(e).dance = e
    BY DEF TD
<1>. QED BY <1>1

(* The release of a key takes back what the key or its dance has put down.    *)
LEMMA ReleaseStep ==
    ASSUME NoResets, OneKeyPerDance, IInv, NEW k \in Key, Release(k)
    PROVE  /\ IInv'
           /\ \A d \in Dance : \/ Left(Fresh, st', d)
                               \/ Fresh.td[d].pressed /\ Releases(Fresh, st', d)
<1>. DEFINE a == Keymap[src[k]][k]
            t == process_tap_dance(Fresh, a, FALSE)
<1>1. /\ matrix \subseteq Key /\ src \in [Key -> Layer] /\ elapsed \in 0..(TAPPING_TERM + 1)
      /\ st \in State /\ Lives(st) /\ Owned(st, HeldCodes, HeldMods)
      /\ k \in matrix /\ matrix' = matrix \ {k} /\ src' = src
      /\ st' = process_action(t, a, FALSE)
    BY DEF IInv, Release
<1>2. elapsed' \in 0..(TAPPING_TERM + 1)
  <2>1. elapsed' = 0 \/ elapsed' = elapsed
      BY DEF Release
  <2>. QED BY <1>1, <2>1, DanceTypes
<1>3. /\ Fresh \in State /\ Lives(Fresh) /\ Owned(Fresh, HeldCodes, HeldMods)
      /\ Fresh.td = st.td /\ Fresh.active = st.active
    BY <1>1, Freshly
<1>4. /\ \A j \in matrix, d \in Dance : DanceKey(j, d) => Keymap[src[j]][j] = TD(d)
      /\ \A d \in Dance : st.td[d].pressed <=> \E j \in matrix : DanceKey(j, d)
    BY DEF IInv
<1>5. HeldCodes = HeldCodes' \cup Codes(a) /\ HeldMods = HeldMods' \cup Mods(a)
    BY <1>1 DEF HeldCodes, HeldMods
<1>6. src[k] \in Layer /\ a \in Action
    BY <1>1, DanceAssumption
<1>7. ASSUME Lives(st'), Owned(st', HeldCodes', HeldMods'), st' \in State,
             \A d \in Dance : st'.td[d].pressed <=> \E j \in matrix \ {k} : DanceKey(j, d)
      PROVE  IInv'
    BY <1>1, <1>2, <1>4, <1>7 DEF IInv
<1>8. CASE a.kind = "td"
  <2>1. PICK d \in Dance : DanceKey(k, d) /\ a = TD(d)
      BY <1>1, <1>6, <1>8, IsDanceKey
  <2>2. Fresh.td[d].pressed
      BY <1>1, <1>3, <1>4, <2>1
  <2>3. /\ Others(Fresh, t, d) /\ t.active = Fresh.active /\ Lives(t)
        /\ Owned(t, HeldCodes, HeldMods) /\ Releases(Fresh, t, d)
      BY <1>3, <2>1, <2>2, Released
  <2>4. st' = t
      BY <1>1, <1>8 DEF process_action
  <2>5. Codes(a) = {} /\ Mods(a) = {}
      BY <1>8 DEF Codes, Mods
  <2>6. HeldCodes' = HeldCodes /\ HeldMods' = HeldMods
      BY <1>5, <2>5
  <2>7. ~st'.td[d].pressed
    <3>1. Fresh.td[d] \in DanceState
        BY <1>3 DEF State
    <3>2. CASE Fresh.td[d].finished
      <4>1. st'.td[d] = Zero /\ Zero.pressed = FALSE
          BY <2>3, <2>4, <3>2 DEF Releases, Zero
      <4>. QED BY <4>1
    <3>3. CASE ~Fresh.td[d].finished
        BY <2>3, <2>4, <3>1, <3>3 DEF Releases, DanceState
    <3>. QED BY <3>2, <3>3
  <2>8. ASSUME NEW e \in Dance
        PROVE  st'.td[e].pressed <=> \E j \in matrix \ {k} : DanceKey(j, e)
    <3>1. CASE e = d
      <4>1. \A j \in matrix \ {k} : ~DanceKey(j, d)
          BY <1>1, <2>1 DEF OneKeyPerDance
      <4>. QED BY <2>7, <3>1, <4>1
    <3>2. CASE e # d
      <4>1. st'.td[e] = st.td[e]
          BY <1>3, <2>3, <2>4, <3>2 DEF Others
      <4>2. ~DanceKey(k, e)
          BY <2>1, <3>2, SameDance DEF DanceKey
      <4>. QED BY <1>4, <4>1, <4>2
    <3>. QED BY <3>1, <3>2
  <2>9. \A e \in Dance : Left(Fresh, st', e) \/ (Fresh.td[e].pressed /\ Releases(Fresh, st', e))
      BY <2>2, <2>3, <2>4 DEF Left, Others
  <2>. HIDE DEF t, a
  <2>10. Lives(st') /\ Owned(st', HeldCodes', HeldMods') /\ st' \in State
      BY <2>3, <2>4, <2>6 DEF Others
  <2>. QED BY <1>7, <2>8, <2>9, <2>10
<1>9. CASE a.kind # "td"
  <2>1. t = Fresh
      BY <1>9 DEF process_tap_dance
  <2>2. Owned(Fresh, HeldCodes' \cup Codes(a), HeldMods' \cup Mods(a))
      BY <1>3, <1>5
  <2>3. Untouched(Fresh, st') /\ Lives(st') /\ Owned(st', HeldCodes', HeldMods')
    <3>1. st' = process_action(Fresh, a, FALSE)
        BY <1>1, <2>1
    <3>. HIDE DEF a, t
    <3>. QED BY <1>3, <1>6, <2>2, <3>1, Releasing
  <2>4. \A e \in Dance : ~DanceKey(k, e)
    <3>1. \A e : TD(e).kind = "td"
        BY DEF TD
    <3>. QED BY <1>1, <1>4, <1>9, <3>1
  <2>5. \A e \in Dance : st'.td[e].pressed <=> \E j \in matrix \ {k} : DanceKey(j, e)
      BY <1>3, <1>4, <2>3, <2>4 DEF Untouched
  <2>6. \A e \in Dance : Left(Fresh, st', e)
      BY <2>3 DEF Untouched, Left
  <2>. QED BY <1>7, <2>3, <2>5, <2>6 DEF Untouched
<1>. QED BY <1>8, <1>9

(* The key that a press is looked up as.                                      *)
LEMMA PressIs ==
    ASSUME NEW k \in Key, Press(k)
    PROVE  LET s0 == clear_weak_mods(Fresh)
               s1 == preprocess_tap_dance(s0, At(s0, k))
               s2 == process_tap_dance(s1, At(s1, k), TRUE) IN
           /\ k \notin matrix /\ matrix' = matrix \cup {k}
           /\ At(st, k).kind = "td" => st.td[At(st, k).dance].count < MaxTaps
           /\ st' = process_action(s2, At(s2, k), TRUE)
           /\ src' = [src EXCEPT ![k] = TopLayer(s2, k)] /\ elapsed' = 0
BY DEF Press

(* What a press comes to: the dance that is waited for ends, unless the key   *)
(* is its own; then the dance of the key takes a tap, or the key acts.        *)
Before(s0, s1, C, M, a) ==
    \/ s1 = s0 /\ (s0.active = NoDance \/ a = TD(s0.active))
    \/ /\ s0.active \in Dance /\ a # TD(s0.active)
       /\ Others(s0, s1, s0.active) /\ s1.active = NoDance /\ Lives(s1) /\ Owned(s1, C, M)
       /\ s1.oneshot \subseteq s0.oneshot /\ s1.weak = {} /\ Decides(s0, s1, s0.active)
       /\ Waits(s0, s0.active) /\ Over(s0, s1, s0.active)

TapsWith(k, d, s0, s1) ==
    /\ s0.td = st.td /\ s0.active = st.active /\ s0.out = <<>> /\ s0.weak = {}
    /\ \A e \in Dance : s0.calls[e] = <<>>
    /\ Before(s0, s1, HeldCodes, HeldMods, TD(d))
    /\ Others(s1, st', d) /\ Tapped(s1, st', d) /\ SendsSecond(s1, st', d)
    /\ Lives(st') /\ Owned(st', HeldCodes, HeldMods)
    /\ src' \in [Key -> Layer] /\ Keymap[src'[k]][k] = TD(d)
    /\ \A j \in matrix : src'[j] = src[j]
ActsWith(k, s0, s1, a) ==
    /\ s0.td = st.td /\ s0.active = st.active /\ s0.out = <<>> /\ s0.weak = {}
    /\ s0.oneshot = st.oneshot
    /\ \A e \in Dance : s0.calls[e] = <<>>
    /\ \E b \in Action : b.kind # "td" /\ Before(s0, s1, HeldCodes, HeldMods, b)
    /\ a = At(s1, k) /\ a = Keymap[src'[k]][k] /\ a.kind # "td"
    /\ st' = process_action(s1, a, TRUE)
    /\ Untouched(s1, st') /\ Lives(st')
    /\ Owned(st', HeldCodes \cup Codes(a), HeldMods \cup Mods(a))
    /\ src' \in [Key -> Layer] /\ \A j \in matrix : src'[j] = src[j]

LEMMA PressTaps ==
    ASSUME NoResets, OneKeyPerDance, IInv, NEW k \in Key, Press(k), NEW d \in Dance, DanceKey(k, d)
    PROVE  \E s0, s1 \in State : TapsWith(k, d, s0, s1)
<1>. DEFINE s0 == clear_weak_mods(Fresh)
            s1 == preprocess_tap_dance(s0, At(s0, k))
            s2 == process_tap_dance(s1, At(s1, k), TRUE)
<1>1. /\ k \notin matrix /\ matrix' = matrix \cup {k}
      /\ At(st, k).kind = "td" => st.td[At(st, k).dance].count < MaxTaps
      /\ st' = process_action(s2, At(s2, k), TRUE)
      /\ src' = [src EXCEPT ![k] = TopLayer(s2, k)] /\ elapsed' = 0
    BY PressIs
<1>2. /\ st \in State /\ Lives(st) /\ Owned(st, HeldCodes, HeldMods) /\ src \in [Key -> Layer]
      /\ \A e \in Dance : st.td[e].pressed <=> \E j \in matrix : DanceKey(j, e)
    BY DEF IInv
<1>3. /\ Fresh \in State /\ Lives(Fresh) /\ Owned(Fresh, HeldCodes, HeldMods)
      /\ Fresh.td = st.td /\ Fresh.active = st.active /\ Fresh.out = <<>>
      /\ \A e \in Dance : Fresh.calls[e] = <<>>
    BY <1>2, Freshly
<1>4. /\ s0 \in State /\ Lives(s0) /\ Owned(s0, HeldCodes, HeldMods) /\ s0.weak = {}
      /\ s0.td = st.td /\ s0.active = st.active /\ s0.out = <<>>
      /\ \A e \in Dance : s0.calls[e] = <<>>
    BY <1>3, Clears
<1>5. At(s0, k) = TD(d) /\ TD(d) \in Action /\ At(st, k) = TD(d)
    BY <1>2, <1>4, LooksDance DEF Action, TD
<1>. HIDE DEF s0
<1>6. Before(s0, s1, HeldCodes, HeldMods, TD(d))
    BY <1>4, <1>5, Preprocessed DEF Before
<1>. HIDE DEF s1
<1>7. s1 \in State /\ Lives(s1) /\ Owned(s1, HeldCodes, HeldMods) /\ s1.active \in {NoDance, d}
  <2>1. CASE s1 = s0 /\ (s0.active = NoDance \/ TD(d) = TD(s0.active))
      BY <1>4, <2>1, SameDance
  <2>2. CASE s1.active = NoDance /\ Others(s0, s1, s0.active) /\ Lives(s1) /\ Owned(s1, HeldCodes, HeldMods)
      BY <2>2 DEF Others
  <2>. QED BY <1>6, <2>1, <2>2 DEF Before
<1>8. s1.td[d] = st.td[d]
    BY <1>4, <1>6 DEF Before, Others
<1>9. ~s1.td[d].pressed /\ s1.td[d].count < MaxTaps
  <2>1. st.td[d].count < MaxTaps
      BY <1>1, <1>5 DEF TD
  <2>2. ~st.td[d].pressed
    <3>1. \A j \in matrix : ~DanceKey(j, d)
        BY <1>1 DEF OneKeyPerDance, IInv
    <3>. QED BY <1>2, <3>1
  <2>. QED BY <1>8, <2>1, <2>2
<1>10. At(s1, k) = TD(d)
    BY <1>7, LooksDance
<1>11. /\ Others(s1, s2, d) /\ Tapped(s1, s2, d) /\ SendsSecond(s1, s2, d)
       /\ Lives(s2) /\ Owned(s2, HeldCodes, HeldMods) /\ s2 \in State
  <2>1. s2 = process_tap_dance(s1, TD(d), TRUE)
      BY <1>10
  <2>. HIDE DEF s2
  <2>. QED BY <1>7, <1>9, <2>1, Taps DEF Tapped, Others
<1>. HIDE DEF s2
<1>12. At(s2, k) = TD(d) /\ TopLayer(s2, k) \in Layer
    BY <1>11, LooksDance, Looks
<1>13. st' = s2
    BY <1>1, <1>12 DEF process_action, TD
<1>14. src' \in [Key -> Layer] /\ Keymap[src'[k]][k] = TD(d) /\ \A j \in matrix : src'[j] = src[j]
  <2>1. matrix \subseteq Key
      BY DEF IInv
  <2>. QED BY <1>1, <1>2, <1>12, <2>1 DEF At
<1>. QED BY <1>4, <1>6, <1>7, <1>11, <1>13, <1>14 DEF TapsWith

LEMMA PressActs ==
    ASSUME NoResets, OneKeyPerDance, IInv, NEW k \in Key, Press(k),
           \A l \in Layer : Keymap[l][k].kind # "td"
    PROVE  \E s0, s1 \in State, a \in Action : ActsWith(k, s0, s1, a)
<1>. DEFINE s0 == clear_weak_mods(Fresh)
            b == At(s0, k)
            s1 == preprocess_tap_dance(s0, b)
            a == At(s1, k)
            s2 == process_tap_dance(s1, a, TRUE)
<1>1. /\ k \notin matrix /\ matrix' = matrix \cup {k}
      /\ st' = process_action(s2, At(s2, k), TRUE)
      /\ src' = [src EXCEPT ![k] = TopLayer(s2, k)]
    BY PressIs
<1>2. /\ st \in State /\ Lives(st) /\ Owned(st, HeldCodes, HeldMods) /\ src \in [Key -> Layer]
      /\ matrix \subseteq Key
    BY DEF IInv
<1>3. /\ Fresh \in State /\ Lives(Fresh) /\ Owned(Fresh, HeldCodes, HeldMods)
      /\ Fresh.td = st.td /\ Fresh.active = st.active /\ Fresh.out = <<>>
      /\ Fresh.oneshot = st.oneshot
      /\ \A e \in Dance : Fresh.calls[e] = <<>>
    BY <1>2, Freshly
<1>4. /\ s0 \in State /\ Lives(s0) /\ Owned(s0, HeldCodes, HeldMods) /\ s0.weak = {}
      /\ s0.td = st.td /\ s0.active = st.active /\ s0.out = <<>> /\ s0.oneshot = st.oneshot
      /\ \A e \in Dance : s0.calls[e] = <<>>
    BY <1>3, Clears
<1>. HIDE DEF s0
<1>5. b \in Action /\ b.kind # "td"
    BY <1>4, Looks DEF At
<1>. HIDE DEF b
<1>6. Before(s0, s1, HeldCodes, HeldMods, b)
    BY <1>4, <1>5, Preprocessed DEF Before
<1>. HIDE DEF s1
<1>7. s1 \in State /\ Lives(s1) /\ Owned(s1, HeldCodes, HeldMods)
    BY <1>4, <1>6 DEF Before, Others
<1>8. a \in Action /\ a.kind # "td" /\ TopLayer(s1, k) \in Layer
    BY <1>7, Looks DEF At
<1>9. s2 = s1
    BY <1>8 DEF process_tap_dance
<1>10. st' = process_action(s1, a, TRUE)
    BY <1>1, <1>9
<1>11. src' \in [Key -> Layer] /\ a = Keymap[src'[k]][k] /\ \A j \in matrix : src'[j] = src[j]
    BY <1>1, <1>2, <1>8, <1>9 DEF At
<1>. HIDE DEF s2
<1>12. /\ Untouched(s1, st') /\ Lives(st')
       /\ Owned(st', HeldCodes \cup Codes(a), HeldMods \cup Mods(a))
    BY <1>7, <1>8, <1>10, Pressing
<1>. QED BY <1>4, <1>5, <1>6, <1>7, <1>8, <1>10, <1>11, <1>12 DEF ActsWith

LEMMA BeforeLife ==
    ASSUME NEW s0 \in State, NEW s1, NEW C, NEW M, NEW a, Before(s0, s1, C, M, a), NEW e \in Dance
    PROVE  /\ Left(s0, s1, e) \/ (Waits(s0, e) /\ Over(s0, s1, e))
           /\ s1.td[e].pressed <=> s0.td[e].pressed
           /\ a = TD(e) => Left(s0, s1, e)
<1>1. CASE s1 = s0
    BY <1>1 DEF Left
<1>2. CASE e # s0.active /\ Others(s0, s1, s0.active)
    BY <1>2 DEF Left, Others
<1>3. CASE e = s0.active /\ a # TD(e) /\ Waits(s0, e) /\ Over(s0, s1, e)
  <2>1. Zero.pressed = FALSE
      BY DEF Zero
  <2>. QED BY <1>3, <2>1 DEF Over
<1>. QED BY <1>1, <1>2, <1>3 DEF Before

(* A step of the whole, seen from one dance.                                  *)
StepsOf(e) ==
    \E s \in State :
        s.td = st.td /\ s.active = st.active /\ s.calls[e] = <<>> /\ LifeStep(s, st', e)

LEMMA PressStep ==
    ASSUME NoResets, OneKeyPerDance, IInv, NEW k \in Key, Press(k)
    PROVE  IInv' /\ \A e \in Dance : StepsOf(e)
<1>1. /\ k \notin matrix /\ matrix' = matrix \cup {k} /\ elapsed' = 0
    BY PressIs
<1>2. /\ matrix \subseteq Key
      /\ \A j \in matrix, e \in Dance : DanceKey(j, e) => Keymap[src[j]][j] = TD(e)
      /\ \A e \in Dance : st.td[e].pressed <=> \E j \in matrix : DanceKey(j, e)
    BY DEF IInv
<1>3. ASSUME NEW C, NEW M, Lives(st'), Owned(st', C, M), st' \in State, src' \in [Key -> Layer],
             HeldCodes' = C, HeldMods' = M, \A j \in matrix : src'[j] = src[j],
             \A e \in Dance : DanceKey(k, e) => Keymap[src'[k]][k] = TD(e),
             \A e \in Dance : st'.td[e].pressed <=> (st.td[e].pressed \/ DanceKey(k, e))
      PROVE  IInv'
  <2>1. elapsed' \in 0..(TAPPING_TERM + 1)
      BY <1>1, DanceTypes
  <2>2. matrix' \subseteq Key
      BY <1>1, <1>2
  <2>3. \A j \in matrix', e \in Dance : DanceKey(j, e) => Keymap[src'[j]][j] = TD(e)
      BY <1>1, <1>2, <1>3
  <2>4. \A e \in Dance : st'.td[e].pressed <=> \E j \in matrix' : DanceKey(j, e)
      BY <1>1, <1>2, <1>3
  <2>. QED BY <1>3, <2>1, <2>2, <2>3, <2>4 DEF IInv
<1>4. ASSUME \A j \in matrix : src'[j] = src[j]
      PROVE  /\ HeldCodes' = HeldCodes \cup Codes(Keymap[src'[k]][k])
             /\ HeldMods' = HeldMods \cup Mods(Keymap[src'[k]][k])
  <2>1. HeldCodes' = UNION {Codes(Keymap[src'[j]][j]) : j \in matrix \cup {k}}
      BY <1>1 DEF HeldCodes
  <2>2. HeldMods' = UNION {Mods(Keymap[src'[j]][j]) : j \in matrix \cup {k}}
      BY <1>1 DEF HeldMods
  <2>. QED BY <1>4, <2>1, <2>2 DEF HeldCodes, HeldMods
<1>5. ASSUME NEW d \in Dance, DanceKey(k, d)
      PROVE  IInv' /\ \A e \in Dance : StepsOf(e)
  <2>0. PICK s0 \in State, s1 \in State : TapsWith(k, d, s0, s1)
      BY <1>5, PressTaps
  <2>1. /\ s0.td = st.td /\ s0.active = st.active /\ s0.out = <<>> /\ s0.weak = {}
        /\ \A e \in Dance : s0.calls[e] = <<>>
        /\ Before(s0, s1, HeldCodes, HeldMods, TD(d))
        /\ Others(s1, st', d) /\ Tapped(s1, st', d) /\ SendsSecond(s1, st', d)
        /\ Lives(st') /\ Owned(st', HeldCodes, HeldMods)
        /\ src' \in [Key -> Layer] /\ Keymap[src'[k]][k] = TD(d)
        /\ \A j \in matrix : src'[j] = src[j]
      BY <2>0 DEF TapsWith
  <2>2. Codes(TD(d)) = {} /\ Mods(TD(d)) = {}
      BY DEF Codes, Mods, TD
  <2>3. HeldCodes' = HeldCodes /\ HeldMods' = HeldMods
      BY <1>4, <2>1, <2>2
  <2>4. \A e \in Dance : DanceKey(k, e) => e = d
      BY <1>5, SameDance DEF DanceKey
  <2>5. Left(s0, s1, d)
      BY <2>1, BeforeLife
  <2>6. LifeStep(s0, st', d)
      BY <2>1, <2>5 DEF LifeStep, Left, Tapped
  <2>7. ASSUME NEW e \in Dance, e # d
        PROVE  LifeStep(s0, st', e) /\ (st'.td[e].pressed <=> st.td[e].pressed)
    <3>1. st'.td[e] = s1.td[e] /\ st'.calls[e] = s1.calls[e]
        BY <2>1, <2>7 DEF Others
    <3>2. /\ Left(s0, s1, e) \/ (Waits(s0, e) /\ Over(s0, s1, e))
          /\ s1.td[e].pressed <=> s0.td[e].pressed
        BY <2>1, BeforeLife
    <3>3. CASE Left(s0, s1, e)
        BY <2>1, <3>1, <3>3 DEF LifeStep, Left
    <3>4. CASE Waits(s0, e) /\ Over(s0, s1, e)
        BY <2>1, <3>1, <3>2, <3>4 DEF LifeStep, Over
    <3>. QED BY <3>2, <3>3, <3>4
  <2>8. \A e \in Dance : st'.td[e].pressed <=> (st.td[e].pressed \/ DanceKey(k, e))
      BY <1>5, <2>1, <2>4, <2>7 DEF Tapped
  <2>9. \A e \in Dance : StepsOf(e)
      BY <2>1, <2>6, <2>7 DEF StepsOf
  <2>10. st' \in State /\ \A e \in Dance : DanceKey(k, e) => Keymap[src'[k]][k] = TD(e)
      BY <2>1, <2>4 DEF Others
  <2>. QED BY <1>3, <2>1, <2>3, <2>8, <2>9, <2>10
<1>6. CASE \A l \in Layer : Keymap[l][k].kind # "td"
  <2>0. PICK s0 \in State, s1 \in State, a \in Action : ActsWith(k, s0, s1, a)
      BY <1>6, PressActs
  <2>1. /\ s0.td = st.td /\ s0.active = st.active /\ s0.out = <<>> /\ s0.weak = {}
        /\ s0.oneshot = st.oneshot
        /\ \A e \in Dance : s0.calls[e] = <<>>
        /\ \E b \in Action : b.kind # "td" /\ Before(s0, s1, HeldCodes, HeldMods, b)
        /\ a = At(s1, k) /\ a = Keymap[src'[k]][k] /\ a.kind # "td"
        /\ st' = process_action(s1, a, TRUE)
        /\ Untouched(s1, st') /\ Lives(st')
        /\ Owned(st', HeldCodes \cup Codes(a), HeldMods \cup Mods(a))
        /\ src' \in [Key -> Layer] /\ \A j \in matrix : src'[j] = src[j]
      BY <2>0 DEF ActsWith
  <2>2. PICK b \in Action : Before(s0, s1, HeldCodes, HeldMods, b)
      BY <2>1
  <2>3. \A e \in Dance : ~DanceKey(k, e)
      BY <1>6, DanceTypes DEF DanceKey, TD
  <2>4. ASSUME NEW e \in Dance
        PROVE  LifeStep(s0, st', e) /\ (st'.td[e].pressed <=> st.td[e].pressed)
    <3>1. st'.td[e] = s1.td[e] /\ st'.calls[e] = s1.calls[e]
        BY <2>1 DEF Untouched
    <3>2. /\ Left(s0, s1, e) \/ (Waits(s0, e) /\ Over(s0, s1, e))
          /\ s1.td[e].pressed <=> s0.td[e].pressed
        BY <2>2, BeforeLife
    <3>3. CASE Left(s0, s1, e)
        BY <2>1, <3>1, <3>3 DEF LifeStep, Left
    <3>4. CASE Waits(s0, e) /\ Over(s0, s1, e)
        BY <2>1, <3>1, <3>2, <3>4 DEF LifeStep, Over
    <3>. QED BY <3>2, <3>3, <3>4
  <2>5. \A e \in Dance : StepsOf(e)
      BY <2>1, <2>4 DEF StepsOf
  <2>6. HeldCodes' = HeldCodes \cup Codes(a) /\ HeldMods' = HeldMods \cup Mods(a)
      BY <1>4, <2>1
  <2>7. st' \in State
      BY <2>1 DEF Untouched
  <2>. QED BY <1>3, <2>1, <2>3, <2>4, <2>5, <2>6, <2>7
<1>. QED BY <1>5, <1>6 DEF OneKeyPerDance

LEMMA AnyStep ==
    ASSUME NoResets, OneKeyPerDance, IInv, Next
    PROVE  IInv' /\ \A e \in Dance : StepsOf(e)
<1>1. st \in State /\ Lives(st) /\ Owned(st, HeldCodes, HeldMods)
    BY DEF IInv
<1>2. Fresh \in State /\ Fresh.td = st.td /\ Fresh.active = st.active /\ \A e \in Dance : Fresh.calls[e] = <<>>
    BY <1>1, Freshly
<1>3. ASSUME IInv', \A e \in Dance : LifeStep(Fresh, st', e)
      PROVE  IInv' /\ \A e \in Dance : StepsOf(e)
    BY <1>2, <1>3 DEF StepsOf
<1>4. CASE Tick
    BY <1>3, <1>4, Ticks
<1>5. CASE tap_dance_task
    BY <1>3, <1>5, Tasks
<1>6. ASSUME NEW k \in Key, Press(k) PROVE IInv' /\ \A e \in Dance : StepsOf(e)
    BY <1>6, PressStep
<1>7. ASSUME NEW k \in Key, Release(k) PROVE IInv' /\ \A e \in Dance : StepsOf(e)
    BY <1>3, <1>7, ReleaseStep DEF LifeStep
<1>. QED BY <1>4, <1>5, <1>6, <1>7 DEF Next

LEMMA Stutters == IInv /\ UNCHANGED vars => IInv'
<1>. SUFFICES ASSUME IInv, UNCHANGED vars PROVE IInv'
    OBVIOUS
<1>1. matrix' = matrix /\ src' = src /\ st' = st /\ elapsed' = elapsed
    BY DEF vars
<1>2. HeldCodes' = HeldCodes /\ HeldMods' = HeldMods
    BY <1>1 DEF HeldCodes, HeldMods
<1>. QED BY <1>1, <1>2 DEF IInv

LEMMA Inductive ==
    ASSUME NoResets, OneKeyPerDance PROVE Spec => []IInv
<1>1. Init => IInv
    BY Invariant
<1>2. IInv /\ [Next]_vars => IInv'
    BY AnyStep, Stutters
<1>. QED BY <1>1, <1>2, PTL DEF Spec

-----------------------------------------------------------------------------
(* The dances, modifiers and codes have their types, and active_td is a dance *)
(* that has been tapped and is not finished (process_tap_dance.c:25).         *)
THEOREM TypeCorrectness ==
    ASSUME NoResets, OneKeyPerDance PROVE Spec => []TypeOK
<1>1. IInv => TypeOK
  <2>. SUFFICES ASSUME IInv PROVE TypeOK
      OBVIOUS
  <2>1. st \in State /\ Lives(st)
      BY DEF IInv
  <2>2. st.active # NoDance =>
           st.active \in Dance /\ st.td[st.active].count > 0 /\ ~st.td[st.active].finished
      BY <2>1 DEF State, Lives, Idle, Waits, Spent, Unfinished
  <2>3. /\ st.td \in [Dance -> DanceState] /\ st.mods \cup st.weak \cup st.oneshot \subseteq Mod
        /\ st.layers \subseteq Layer /\ st.keys \subseteq Code
      BY <2>1 DEF State
  <2>. QED BY <2>2, <2>3 DEF IInv, TypeOK
<1>. QED BY <1>1, Inductive, PTL

(* Whatever was tapped, held and released in whatever order, with all keys up *)
(* and no dance waited for, no code and no modifier stays down: what a dance  *)
(* has put down is taken back by its reset (process_tap_dance.c:106-111), and *)
(* what another key has put down by its release.                              *)
THEOREM NothingStaysDown ==
    ASSUME NoResets, OneKeyPerDance PROVE Spec => []NothingSticks
<1>1. IInv => NothingSticks
  <2>. SUFFICES ASSUME IInv, matrix = {}, st.active = NoDance
                PROVE  /\ st.keys = {} /\ st.mods = {} /\ st.weak = {}
                       /\ st.td = [d \in Dance |-> Zero]
      BY DEF NothingSticks
  <2>1. /\ st \in State /\ Lives(st) /\ Owned(st, HeldCodes, HeldMods)
        /\ \A d \in Dance : st.td[d].pressed <=> \E k \in matrix : DanceKey(k, d)
      BY DEF IInv
  <2>2. \A d \in Dance : st.td[d] = Zero
      BY <2>1, DanceTypes DEF Lives, Idle, Waits, Spent
  <2>3. HeldCodes = {} /\ HeldMods = {}
      BY DEF HeldCodes, HeldMods
  <2>4. Ended(st) = {}
      BY <2>2 DEF Ended, Zero
  <2>5. DanceCodes(st) = {} /\ DanceMods(st) = {} /\ DanceWeak(st) = {} /\ CodeMods({}) = {}
      BY <2>4 DEF DanceCodes, DanceMods, DanceWeak, CodeMods
  <2>6. st.td = [d \in Dance |-> Zero]
    <3>1. st.td \in [Dance -> DanceState]
        BY <2>1 DEF State
    <3>. QED BY <2>2, <3>1
  <2>7. st.keys = {} /\ st.mods = {} /\ st.weak = {}
      BY <2>1, <2>3, <2>5 DEF Owned
  <2>. QED BY <2>6, <2>7
<1>. QED BY <1>1, Inductive, PTL

-----------------------------------------------------------------------------
LEMMA Twice == \A x, y \in Fn : Append(Append(<<>>, x), y) = <<x, y>> /\ Append(<<>>, x) = <<x>>
<1>. TAKE x \in Fn, y \in Fn
<1>1. <<>> \in Seq(Fn) /\ <<x>> \in Seq(Fn)
    OBVIOUS
<1>2. Append(<<>>, x) = <<x>>
    BY <1>1
<1>3. Append(<<x>>, y) = <<x, y>>
  <2>. DEFINE a == Append(<<x>>, y)
              b == <<x, y>>
  <2>1. a \in Seq(Fn) /\ Len(a) = 2 /\ a[1] = x /\ a[2] = y
      BY <1>1
  <2>2. b \in Seq(Fn) /\ Len(b) = 2 /\ b[1] = x /\ b[2] = y
      OBVIOUS
  <2>. HIDE DEF a, b
  <2>3. a = b
      BY <2>1, <2>2
  <2>. QED BY <2>3 DEF a, b
<1>. QED BY <1>2, <1>3

(* Every step is one of the dance's life, or leaves it alone.                 *)
LEMMA LivesOn ==
    ASSUME IInv, IInv', NEW d \in Dance, StepsOf(d) PROVE Life(d)!Next
<1>1. PICK s \in State :
         s.td = st.td /\ s.active = st.active /\ s.calls[d] = <<>> /\ LifeStep(s, st', d)
    BY DEF StepsOf
<1>2. st.td[d] \in DanceState /\ st'.td[d] \in DanceState
    BY DEF IInv, State
<1>3. Fn = {"tap", "release", "finished", "reset"} /\ Zero.count = 0
      /\ Zero.finished = FALSE /\ Zero.pressed = FALSE
    BY DEF Fn, Zero
<1>4. CASE Left(s, st', d)
    BY <1>1, <1>4 DEF Left, Life!Next, Life!Quiet
<1>5. CASE Tapped(s, st', d)
  <2>1. st'.calls[d] = <<"tap">>
      BY <1>1, <1>3, <1>5, Twice DEF Tapped
  <2>2. /\ ~st.td[d].pressed /\ ~st.td[d].finished
        /\ st'.td[d].count = st.td[d].count + 1 /\ st'.td[d].pressed /\ st'.td[d].finished \in BOOLEAN
      BY <1>1, <1>5 DEF Tapped
  <2>3. st'.td[d].pressed = TRUE
      BY <1>2, <2>2 DEF DanceState
  <2>4. Life(d)!Tap
      BY <2>1, <2>2, <2>3 DEF Life!Tap
  <2>. QED BY <2>4 DEF Life!Next
<1>6. CASE s.td[d].pressed /\ Releases(s, st', d)
  <2>1. CASE st.td[d].finished
    <3>1. st'.td[d] = Zero
        BY <1>1, <1>6, <2>1 DEF Releases
    <3>2. st'.calls[d] = <<"release", "reset">>
        BY <1>1, <1>3, <1>6, <2>1, Twice DEF Releases
    <3>3. Life(d)!Release
        BY <1>1, <1>3, <1>6, <2>1, <3>1, <3>2 DEF Life!Release, Life!Over
    <3>. QED BY <3>3 DEF Life!Next
  <2>2. CASE ~st.td[d].finished
    <3>1. /\ st'.td[d].count = st.td[d].count /\ st'.td[d].finished = st.td[d].finished
          /\ st'.td[d].pressed = FALSE
        BY <1>1, <1>2, <1>6, <2>2 DEF Releases, DanceState
    <3>2. st'.calls[d] = <<"release">>
        BY <1>1, <1>3, <1>6, <2>2, Twice DEF Releases
    <3>3. Life(d)!Release
        BY <1>1, <1>6, <2>2, <3>1, <3>2 DEF Life!Release
    <3>. QED BY <3>3 DEF Life!Next
  <2>. QED BY <2>1, <2>2
<1>7. CASE Waits(s, d) /\ Over(s, st', d)
  <2>1. st.td[d].count > 0 /\ ~st.td[d].finished
      BY <1>1, <1>7 DEF Waits, Unfinished
  <2>2. CASE st.td[d].pressed
    <3>1. /\ st'.td[d].finished = TRUE /\ st'.td[d].pressed = TRUE
          /\ st'.td[d].count = st.td[d].count /\ st'.calls[d] = <<"finished">>
        BY <1>1, <1>3, <1>7, <2>2, Twice DEF Over
    <3>2. st.td[d].pressed = TRUE
        BY <1>2, <2>2 DEF DanceState
    <3>3. Life(d)!Finish
        BY <2>1, <2>2, <3>1, <3>2 DEF Life!Finish
    <3>. QED BY <3>3 DEF Life!Next
  <2>3. CASE ~st.td[d].pressed
    <3>1. st'.td[d] = Zero /\ st'.calls[d] = <<"finished", "reset">>
        BY <1>1, <1>3, <1>7, <2>3, Twice DEF Over
    <3>2. st.td[d].pressed = FALSE
        BY <1>2, <2>3 DEF DanceState
    <3>3. Life(d)!Finish
        BY <1>3, <2>1, <2>3, <3>1, <3>2 DEF Life!Finish, Life!Over
    <3>. QED BY <3>3 DEF Life!Next
  <2>. QED BY <2>2, <2>3
<1>. QED BY <1>1, <1>4, <1>5, <1>6, <1>7 DEF LifeStep

(* The functions of every dance are called as docs/feature_tap_dance.md       *)
(* promises: finished at most once in a dance and after its last tap, reset   *)
(* once after it and not before the key is up, whichever key or timer ends    *)
(* the dance.                                                                 *)
THEOREM LivesAsPromised ==
    ASSUME NoResets, OneKeyPerDance PROVE Spec => ImplementsLife
<1>1. Init => \A d \in Dance : Life(d)!Init
  <2>. SUFFICES ASSUME Init, NEW d \in Dance PROVE Life(d)!Init
      OBVIOUS
  <2>1. st.td[d] = Zero /\ st.calls[d] = <<>>
      BY DEF Init, Called
  <2>. QED BY <2>1 DEF Life!Init, Zero
<1>2. IInv /\ IInv' /\ [Next]_vars => \A d \in Dance : [Life(d)!Next]_(Life(d)!vars)
  <2>. SUFFICES ASSUME IInv, IInv', [Next]_vars, NEW d \in Dance
                PROVE  [Life(d)!Next]_(Life(d)!vars)
      OBVIOUS
  <2>1. CASE Next
      BY <2>1, AnyStep, LivesOn
  <2>2. CASE UNCHANGED vars
      BY <2>2 DEF vars, Life!vars
  <2>. QED BY <2>1, <2>2
<1>3. Spec => []IInv
    BY Inductive
<1>. QED BY <1>1, <1>2, <1>3, PTL DEF Spec, ImplementsLife

-----------------------------------------------------------------------------
LEMMA SentLast ==
    ASSUME NEW c \in Code, NEW ms \in SUBSET Mod, NEW o \in Seq(Report)
    PROVE  LET p == Append(o, [code |-> c, mods |-> ms]) IN
           /\ p # <<>> /\ Last(p).code = c /\ Last(p).mods = ms /\ Len(p) = Len(o) + 1
           /\ DOMAIN p = 1..(Len(o) + 1) /\ p[Len(o) + 1].code = c /\ p[Len(o) + 1].mods = ms
           /\ \A i \in 1..Len(o) : p[i] = o[i]
<1>. DEFINE r == [code |-> c, mods |-> ms]
            p == Append(o, r)
<1>1. r \in Report /\ r.code = c /\ r.mods = ms
    BY DEF Report
<1>. HIDE DEF r
<1>2. /\ p # <<>> /\ Len(p) = Len(o) + 1 /\ p[Len(o) + 1] = r
      /\ DOMAIN p = 1..(Len(o) + 1) /\ \A i \in 1..Len(o) : p[i] = o[i]
    BY <1>1
<1>. HIDE DEF p
<1>. QED BY <1>1, <1>2 DEF Last, p, r

(* The real modifiers that belong to keys and to dances.                      *)
LEMMA HeldAndLent ==
    ASSUME IInv, NEW s \in State, Lives(s)
    PROVE  HeldMods \cap Mod \subseteq Held /\ DanceMods(s) = Lent(s)
<1>1. ASSUME NEW m \in HeldMods, m \in Mod PROVE m \in Held
  <2>1. PICK k \in matrix : m \in Mods(Keymap[src[k]][k])
      BY <1>1 DEF HeldMods
  <2>2. Keymap[src[k]][k] \in Action
      BY <2>1, DanceAssumption DEF IInv
  <2>3. Keymap[src[k]][k].kind = "mod" /\ Keymap[src[k]][k].mod = m
      BY <2>1 DEF Mods
  <2>4. Keymap[src[k]][k] = [kind |-> "mod", mod |-> m]
      BY <2>2, <2>3 DEF Action
  <2>. QED BY <1>1, <2>1, <2>4 DEF Held
<1>2. \A d \in Dance : s.td[d].finished => s.td[d].pressed
    BY DEF Lives, Idle, Waits, Spent, Unfinished, Zero
<1>3. Ended(s) = {e \in Dance : s.td[e].finished /\ s.td[e].pressed}
    BY <1>2 DEF Ended
<1>. QED BY <1>1, <1>3 DEF DanceMods, Lent

(* A key that interrupts a dance goes out after the dance's outcome, with its *)
(* own modifiers and those of keys and one-shot modifiers still in effect.    *)
LEMMA LastOut ==
    ASSUME NoResets, OneKeyPerDance, IInv, IInv', NEW k \in Key, Press(k),
           st.active # NoDance, At(st', k).kind = "key"
    PROVE  LET a   == At(st', k)
               own == ModsOf[a.code] \cup Held \cup (IF Len(st'.out) = 1 THEN st.oneshot ELSE {})
           IN  /\ st'.out # <<>> /\ Last(st'.out).code = a.code
               /\ Last(st'.out).mods \subseteq own \cup Lent(st')
<1>1. st' \in State
    BY DEF IInv
<1>2. \A d \in Dance : ~DanceKey(k, d)
  <2>1. \A d : TD(d).kind = "td"
      BY DEF TD
  <2>. QED BY <1>1, <2>1, LooksDance
<1>3. \A l \in Layer : Keymap[l][k].kind # "td"
    BY <1>2 DEF OneKeyPerDance
<1>0. PICK s0 \in State, s1 \in State, a \in Action : ActsWith(k, s0, s1, a)
    BY <1>3, PressActs
<1>4. /\ s0.td = st.td /\ s0.active = st.active /\ s0.out = <<>> /\ s0.weak = {}
      /\ s0.oneshot = st.oneshot
      /\ \E b \in Action : b.kind # "td" /\ Before(s0, s1, HeldCodes, HeldMods, b)
      /\ a = At(s1, k) /\ st' = process_action(s1, a, TRUE) /\ Untouched(s1, st')
    BY <1>0 DEF ActsWith
<1>5. At(st', k) = a
    BY <1>4 DEF Untouched, At, TopLayer
<1>6. PICK b \in Action : b.kind # "td" /\ Before(s0, s1, HeldCodes, HeldMods, b)
    BY <1>4
<1>7. s1.oneshot \subseteq st.oneshot /\ s1.weak = {} /\ Decides(s0, s1, st.active)
  <2>1. b # TD(s0.active)
      BY <1>6 DEF TD
  <2>. QED BY <1>4, <1>6, <2>1 DEF Before
<1>8. a.kind = "key" /\ a.code \in Code
    BY <1>4, <1>5 DEF Action
<1>9. st' = register_code16(s1, a.code)
    BY <1>4, <1>8 DEF process_action
<1>10. Frame(s1, st') /\ Sent(s1, st', a.code)
  <2>. DEFINE t == register_code16(s1, a.code)
  <2>1. Frame(s1, t) /\ Sent(s1, t, a.code)
      BY <1>8, Registers16
  <2>. QED BY <1>9, <2>1
<1>11. PICK ms \in SUBSET Mod :
         /\ st'.out = Append(s1.out, [code |-> a.code, mods |-> ms])
         /\ ms \subseteq s1.mods \cup ModsOf[a.code] \cup s1.oneshot
    BY <1>7, <1>10 DEF Sent
<1>12. s1.out \in Seq(Report)
    BY DEF State
<1>13. /\ st'.out # <<>> /\ Last(st'.out).code = a.code /\ Last(st'.out).mods = ms
       /\ Len(st'.out) = Len(s1.out) + 1
    BY <1>8, <1>11, <1>12, SentLast
<1>14. s1.oneshot \subseteq (IF Len(st'.out) = 1 THEN st.oneshot ELSE {})
  <2>1. CASE s1.out = s0.out
    <3>1. Len(s1.out) = 0
        BY <1>4, <2>1
    <3>. QED BY <1>7, <1>13, <3>1
  <2>2. CASE s1.oneshot = {}
      BY <2>2
  <2>. QED BY <1>7, <2>1, <2>2 DEF Decides
<1>15. s1.mods \subseteq Held \cup Lent(st')
  <2>0. b # TD(s0.active)
      BY <1>6 DEF TD
  <2>1. Lives(s1) /\ Owned(s1, HeldCodes, HeldMods)
      BY <1>4, <1>6, <2>0 DEF Before
  <2>2. DanceMods(s1) = Lent(s1) /\ HeldMods \cap Mod \subseteq Held
      BY <2>1, HeldAndLent
  <2>3. s1.mods \subseteq HeldMods \cup Lent(s1) /\ s1.mods \subseteq Mod
      BY <2>1, <2>2 DEF Owned, State
  <2>4. Lent(st') = Lent(s1)
    <3>1. st'.td = s1.td
        BY <1>4 DEF Untouched
    <3>. QED BY <3>1, Zenon DEF Lent
  <2>. QED BY <2>2, <2>3, <2>4
<1>. QED BY <1>5, <1>11, <1>13, <1>14, <1>15

(* Whichever key interrupts a dance, and whatever layer the dance leaves      *)
(* behind, the key is sent last, and with the modifiers of a dance only if    *)
(* they are in effect otherwise: they are its own, a modifier key's that is   *)
(* down, a one-shot modifier that is not used up, or one that a dance has     *)
(* used whose key is still down (process_tap_dance.c:117, 141-149).           *)
THEOREM InterruptingKeyIsLast ==
    ASSUME NoResets, OneKeyPerDance PROVE Spec => InterruptsLast
<1>. DEFINE Step == \A k \in matrix' \ matrix :
        LET a   == At(st', k)
            own == ModsOf[a.code] \cup Held \cup (IF Len(st.out') = 1 THEN st.oneshot ELSE {})
        IN  st.active # NoDance /\ a.kind = "key" =>
                /\ st.out' # <<>> /\ Last(st.out').code = a.code
                /\ Last(st.out').mods \subseteq own \cup Lent(st')
<1>1. IInv /\ IInv' /\ [Next]_vars => [Step]_vars
  <2>. SUFFICES ASSUME IInv, IInv', Next, NEW k \in matrix' \ matrix,
                       st.active # NoDance, At(st', k).kind = "key"
                PROVE  LET a   == At(st', k)
                           own == ModsOf[a.code] \cup Held
                                  \cup (IF Len(st.out') = 1 THEN st.oneshot ELSE {})
                       IN  /\ st.out' # <<>> /\ Last(st.out').code = a.code
                           /\ Last(st.out').mods \subseteq own \cup Lent(st')
      OBVIOUS
  <2>1. k \in Key /\ Press(k)
    <3>1. CASE Tick
        BY <3>1 DEF Tick
    <3>2. CASE tap_dance_task
        BY <3>2 DEF tap_dance_task
    <3>3. ASSUME NEW j \in Key, Release(j) PROVE FALSE
        BY <3>3 DEF Release
    <3>4. ASSUME NEW j \in Key, Press(j) PROVE j = k
      <4>1. matrix' = matrix \cup {j}
          BY <3>4, PressIs
      <4>. QED BY <4>1
    <3>. QED BY <3>1, <3>2, <3>3, <3>4 DEF Next
  <2>. QED BY <2>1, LastOut
<1>2. Spec => []IInv
    BY Inductive
<1>. HIDE DEF Step
<1>3. Spec => [][Step]_vars
    BY <1>1, <1>2, PTL DEF Spec
<1>. QED BY <1>3 DEF Step, InterruptsLast

-----------------------------------------------------------------------------
(* What is sent under a dance's first code is sent with its modifiers.        *)
WithMods(out, d, ms) == \A i \in DOMAIN out : out[i].code = First[d] => ms \subseteq out[i].mods

LEMMA DecidedWith ==
    ASSUME NEW s \in State, NEW t \in State, NEW d \in Dance, s.out = <<>>, Decides(s, t, d)
    PROVE  WithMods(t.out, d, s.td[d].weak_mods \cup s.td[d].oneshot_mods)
<1>. DEFINE ws == s.td[d].weak_mods \cup s.td[d].oneshot_mods
<1>1. CASE t.out = s.out
    BY <1>1 DEF WithMods
<1>2. ASSUME NEW ms \in SUBSET Mod, ws \subseteq ms,
             t.out = Append(s.out, [code |-> First[d], mods |-> ms])
      PROVE  WithMods(t.out, d, ws)
  <2>. HIDE DEF ws
  <2>1. <<>> \in Seq(Report) /\ Len(<<>>) = 0
      OBVIOUS
  <2>2. DOMAIN t.out = 1..(0 + 1) /\ t.out[0 + 1].mods = ms
      BY <1>2, <2>1, DanceTypes, SentLast
  <2>. QED BY <1>2, <2>2 DEF WithMods
<1>. QED BY <1>1, <1>2 DEF Decides

LEMMA OneMoreSent ==
    ASSUME NEW d \in Dance, NEW W, NEW o \in Seq(Report), WithMods(o, d, W),
           NEW c \in Code, c # First[d], NEW ms \in SUBSET Mod
    PROVE  WithMods(Append(o, [code |-> c, mods |-> ms]), d, W)
<1>. DEFINE p == Append(o, [code |-> c, mods |-> ms])
<1>1. /\ DOMAIN p = 1..(Len(o) + 1) /\ p[Len(o) + 1].code = c
      /\ \A i \in 1..Len(o) : p[i] = o[i]
    BY SentLast
<1>2. DOMAIN o = 1..Len(o) /\ Len(o) \in Nat
    OBVIOUS
<1>. HIDE DEF p
<1>3. WithMods(p, d, W)
    BY <1>1, <1>2 DEF WithMods
<1>. QED BY <1>3 DEF p

LEMMA NotFinished ==
    ASSUME NEW s \in State, NEW d \in Dance, s.calls[d] = <<>>,
           \/ Left(s, st', d) \/ Tapped(s, st', d) \/ Releases(s, st', d)
    PROVE  "finished" \notin Range(st'.calls[d])
<1>1. Fn = {"tap", "release", "finished", "reset"}
    BY DEF Fn
<1>2. st'.calls[d] \in {<<>>, <<"tap">>, <<"release">>, <<"release", "reset">>}
  <2>1. CASE Left(s, st', d)
      BY <2>1 DEF Left
  <2>2. CASE Tapped(s, st', d)
      BY <1>1, <2>2, Twice DEF Tapped
  <2>3. CASE Releases(s, st', d)
      BY <1>1, <2>3, Twice DEF Releases
  <2>. QED BY <2>1, <2>2, <2>3
<1>3. /\ Range(<<>>) = {} /\ Range(<<"tap">>) = {"tap"} /\ Range(<<"release">>) = {"release"}
      /\ Range(<<"release", "reset">>) = {"release", "reset"}
    BY DEF Range
<1>. QED BY <1>2, <1>3

LEMMA TapsOut ==
    ASSUME NoResets, OneKeyPerDance, OwnOutcomes, IInv, IInv', NEW k \in Key, Press(k),
           NEW d \in Dance, "finished" \in Range(st'.calls[d])
    PROVE  WithMods(st'.out, d, st.td[d].weak_mods \cup st.td[d].oneshot_mods)
<1>. DEFINE W == st.td[d].weak_mods \cup st.td[d].oneshot_mods
<1>1. ASSUME NEW s0 \in State, NEW s1 \in State, NEW a, NEW C, NEW M, Before(s0, s1, C, M, a),
             s0.td = st.td, s0.out = <<>>, s0.calls[d] = <<>>, st'.calls[d] = s1.calls[d]
      PROVE  WithMods(s1.out, d, W)
  <2>1. s1 # s0
    <3>1. CASE s1 = s0
      <4>1. "finished" \notin Range(<<>>)
          BY DEF Range
      <4>. QED BY <1>1, <3>1, <4>1
    <3>. QED BY <3>1
  <2>2. d = s0.active
    <3>1. CASE d # s0.active
      <4>1. s1.calls[d] = <<>>
          BY <1>1, <2>1, <3>1 DEF Before, Others
      <4>2. "finished" \notin Range(<<>>)
          BY DEF Range
      <4>. QED BY <1>1, <4>1, <4>2
    <3>. QED BY <3>1
  <2>3. Decides(s0, s1, d)
      BY <1>1, <2>1, <2>2 DEF Before
  <2>. QED BY <1>1, <2>3, DecidedWith
<1>2. ASSUME NEW e \in Dance, DanceKey(k, e) PROVE WithMods(st'.out, d, W)
  <2>0. PICK s0 \in State, s1 \in State : TapsWith(k, e, s0, s1)
      BY <1>2, PressTaps
  <2>1. /\ s0.td = st.td /\ s0.active = st.active /\ s0.out = <<>>
        /\ \A x \in Dance : s0.calls[x] = <<>>
        /\ Before(s0, s1, HeldCodes, HeldMods, TD(e))
        /\ Others(s1, st', e) /\ Tapped(s1, st', e) /\ SendsSecond(s1, st', e)
      BY <2>0 DEF TapsWith
  <2>2. d # e
    <3>1. Left(s0, s1, e)
        BY <2>1, BeforeLife
    <3>2. Tapped(s1, st', e) /\ s1.calls[e] = <<>>
        BY <2>1, <3>1 DEF Left
    <3>3. "finished" \notin Range(st'.calls[e])
        BY <3>2, NotFinished
    <3>. QED BY <3>3
  <2>3. st'.calls[d] = s1.calls[d]
      BY <2>1, <2>2 DEF Others
  <2>4. WithMods(s1.out, d, W)
      BY <1>1, <2>1, <2>3
  <2>5. CASE st'.out = s1.out
      BY <2>4, <2>5
  <2>6. ASSUME Kind[e] = "pair", NEW ms \in SUBSET Mod,
               st'.out = Append(s1.out, [code |-> Second[e], mods |-> ms])
        PROVE  WithMods(st'.out, d, W)
    <3>1. Second[e] \in Code /\ Second[e] # First[d]
        BY <2>6, DanceTypes DEF OwnOutcomes
    <3>2. s1.out \in Seq(Report)
        BY DEF State
    <3>. HIDE DEF W
    <3>. QED BY <2>4, <2>6, <3>1, <3>2, OneMoreSent
  <2>. QED BY <2>1, <2>5, <2>6 DEF SendsSecond
<1>3. CASE \A l \in Layer : Keymap[l][k].kind # "td"
  <2>0. PICK s0 \in State, s1 \in State, a \in Action : ActsWith(k, s0, s1, a)
      BY <1>3, PressActs
  <2>1. /\ s0.td = st.td /\ s0.active = st.active /\ s0.out = <<>>
        /\ \A x \in Dance : s0.calls[x] = <<>>
        /\ \E b \in Action : b.kind # "td" /\ Before(s0, s1, HeldCodes, HeldMods, b)
        /\ a = Keymap[src'[k]][k]
        /\ st' = process_action(s1, a, TRUE) /\ Untouched(s1, st')
        /\ src' \in [Key -> Layer]
      BY <2>0 DEF ActsWith
  <2>2. WithMods(s1.out, d, W)
      BY <1>1, <2>1 DEF Untouched
  <2>3. CASE a.kind = "key"
    <3>1. a.code \in Code /\ a.code # First[d]
      <4>1. src'[k] \in Layer
          BY <2>1
      <4>. QED BY <2>1, <2>3, <4>1 DEF Action, OwnOutcomes
    <3>2. Sent(s1, st', a.code)
      <4>. DEFINE t == register_code16(s1, a.code)
      <4>1. Sent(s1, t, a.code)
          BY <3>1, Registers16
      <4>2. st' = t
          BY <2>1, <2>3 DEF process_action
      <4>. HIDE DEF t
      <4>. QED BY <4>1, <4>2
    <3>3. PICK ms \in SUBSET Mod : st'.out = Append(s1.out, [code |-> a.code, mods |-> ms])
        BY <3>2 DEF Sent
    <3>4. s1.out \in Seq(Report)
        BY DEF State
    <3>. HIDE DEF W
    <3>. DEFINE c == a.code
                o == s1.out
    <3>5. c \in Code /\ c # First[d] /\ o \in Seq(Report) /\ WithMods(o, d, W)
        BY <2>2, <3>1, <3>4
    <3>. HIDE DEF c, o
    <3>6. WithMods(Append(o, [code |-> c, mods |-> ms]), d, W)
        BY <3>5, OneMoreSent
    <3>. QED BY <3>3, <3>6 DEF c, o, W
  <2>4. CASE a.kind = "mod"
    <3>. DEFINE u == [s1 EXCEPT !.mods = @ \cup {a.mod}]
    <3>1. a.mod \in Mod
        BY <2>4 DEF Action
    <3>2. u \in State /\ u.out = s1.out
        BY <3>1 DEF State
    <3>3. st' = send_keyboard_report(u)
        BY <2>1, <2>4 DEF process_action
    <3>. HIDE DEF u
    <3>4. st'.out = s1.out
        BY <3>2, <3>3, Sends
    <3>. QED BY <2>2, <3>4
  <2>5. CASE a.kind \notin {"key", "mod"}
    <3>1. st'.out = s1.out
        BY <2>1, <2>5 DEF process_action, State
    <3>. QED BY <2>2, <3>1
  <2>. QED BY <2>3, <2>4, <2>5
<1>. QED BY <1>2, <1>3 DEF OneKeyPerDance

(* The outcome of a dance goes out with the modifiers and one-shot modifiers  *)
(* that were up at its last tap, whether the term or another key decides it   *)
(* (add_weak_mods at process_tap_dance.c:115).                                *)
THEOREM OutcomeHasModsOfTap ==
    ASSUME NoResets, OneKeyPerDance, OwnOutcomes PROVE Spec => ModsOfTap
<1>. DEFINE Step == \A d \in Dance : "finished" \in Range(st.calls'[d]) =>
        \A i \in Outcome(d) :
            st.td[d].weak_mods \cup st.td[d].oneshot_mods \subseteq st.out'[i].mods
<1>1. IInv /\ IInv' /\ [Next]_vars => [Step]_vars
  <2>. SUFFICES ASSUME IInv, IInv', Next, NEW d \in Dance, "finished" \in Range(st'.calls[d])
                PROVE  WithMods(st'.out, d, st.td[d].weak_mods \cup st.td[d].oneshot_mods)
      BY DEF WithMods, Outcome
  <2>1. st \in State /\ st' \in State /\ Lives(st) /\ Owned(st, HeldCodes, HeldMods)
      BY DEF IInv
  <2>2. /\ Fresh \in State /\ Lives(Fresh) /\ Owned(Fresh, HeldCodes, HeldMods)
        /\ Fresh.td = st.td /\ Fresh.active = st.active
        /\ Fresh.out = <<>> /\ \A e \in Dance : Fresh.calls[e] = <<>>
      BY <2>1, Freshly
  <2>3. ~Left(Fresh, st', d) /\ ~Releases(Fresh, st', d)
      BY <2>2, NotFinished
  <2>4. CASE Tick
      BY <2>3, <2>4 DEF Tick, Left
  <2>5. CASE tap_dance_task
    <3>1. st' = Finished(Fresh, Fresh.active) /\ Fresh.active # NoDance
        BY <2>2, <2>5 DEF tap_dance_task, Due
    <3>2. Fresh.active \in Dance
        BY <2>2, <3>1 DEF State
    <3>. DEFINE t == Finished(Fresh, Fresh.active)
    <3>3. Others(Fresh, t, Fresh.active) /\ Decides(Fresh, t, Fresh.active)
        BY <2>2, <3>2, Ends
    <3>4. d = Fresh.active
        BY <2>3, <3>1, <3>3 DEF Others, Left
    <3>5. Decides(Fresh, st', d)
        BY <3>1, <3>3, <3>4
    <3>6. WithMods(st'.out, d, Fresh.td[d].weak_mods \cup Fresh.td[d].oneshot_mods)
        BY <2>1, <2>2, <3>5, DecidedWith
    <3>. QED BY <2>2, <3>6
  <2>6. ASSUME NEW k \in Key, Release(k) PROVE FALSE
      BY <2>3, <2>6, ReleaseStep
  <2>7. ASSUME NEW k \in Key, Press(k)
        PROVE  WithMods(st'.out, d, st.td[d].weak_mods \cup st.td[d].oneshot_mods)
      BY <2>7, TapsOut
  <2>. QED BY <2>4, <2>5, <2>6, <2>7 DEF Next
<1>2. Spec => []IInv
    BY Inductive
<1>. HIDE DEF Step
<1>3. Spec => [][Step]_vars
    BY <1>1, <1>2, PTL DEF Spec
<1>. QED BY <1>3 DEF Step, ModsOfTap
=============================================================================
