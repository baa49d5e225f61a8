------------------------------- MODULE Combo -------------------------------
(* Combos (quantum/process_keycode/process_combo.c): the keys of a chord are  *)
(* held back until it is complete, interrupted or out of time, and are then   *)
(* handed on to the tap/hold machine, the last of them as the combo.          *)
EXTENDS Integers, Sequences, FiniteSets, SequencesExt

CONSTANTS
    Key,                \* keys with one keycode each
    COMBOS,             \* COMBO_LEN
    Keys,               \* of every combo, in order
    COMBO_TERM,         \* of every combo
    COMBO_HOLD_TERM,
    MUST_HOLD, MUST_TAP, IN_ORDER,   \* combos with these options
    RELEASE_EARLY,      \* combos whose process_combo_key_release() says true
    STRICT_TIMER,       \* COMBO_STRICT_TIMER is defined
    TOGGLE,             \* keys with the keycode QK_COMBO_TOGGLE
    KEY_BUFFER_LENGTH, BUFFER_LENGTH,
    ZeroTime            \* timer_read() may return 0 when a key is pressed

Combo  == 1..COMBOS
KeysOf(c) == Range(Keys[c])

ASSUME ComboAssumption ==
    /\ COMBOS \in Nat \ {0} /\ Keys \in [Combo -> Seq(Key)] /\ COMBO_TERM \in [Combo -> Nat]
    /\ COMBO_HOLD_TERM \in Nat /\ MUST_HOLD \cup MUST_TAP \cup IN_ORDER \cup RELEASE_EARLY \subseteq Combo
    /\ TOGGLE \subseteq Key /\ STRICT_TIMER \in BOOLEAN /\ ZeroTime \in BOOLEAN
    /\ KEY_BUFFER_LENGTH \in Nat \ {0} /\ BUFFER_LENGTH \in Nat \ {0}

(* Hypotheses of a theorem: a combo has two keys, the ring is longer than     *)
(* there are combos, no combo has to be pressed in order.                     *)
TwoKeys   == \A c \in Combo : \E i, j \in DOMAIN Keys[c] : Keys[c][i] # Keys[c][j]
RingHolds == COMBOS < BUFFER_LENGTH
AnyOrder  == IN_ORDER = {}

NoTimer == -1
MaxTerm == Max(Range(COMBO_TERM) \cup {COMBO_HOLD_TERM})
Age == 0..(MaxTerm + 1)        \* bound: ms since `timer', up to when all is over

VARIABLES
    matrix,   \* keys that are down
    st,       \* combos, key_buffer, combo_buffer, longest_term, b_combo_enable
    timer,    \* ms since `timer' was set, or NoTimer when it is 0
    out       \* what the last step handed to action_tapping_process()

vars == <<matrix, st, timer, out>>

(* Keys and combos whose press was handed on, and not yet their release.      *)
reported == st.reported

(* A record is of a key, or of a combo that took the place of its last key,   *)
(* or is to be skipped.                                                       *)
NoCombo == 0
TICK_EVENT == -1
Record(k, c, pressed) == [key |-> k, combo |-> c, pressed |-> pressed]
What(e) == IF e.combo = NoCombo THEN [key |-> e.key] ELSE [combo |-> e.combo]
Reportable == [key : Key] \cup [combo : Combo]

Fresh == [state |-> {}, active |-> FALSE, disabled |-> FALSE]
Init ==
    /\ matrix = {} /\ timer = NoTimer /\ out = <<>>
    /\ st = [combo |-> [c \in Combo |-> Fresh], key_buffer |-> <<>>, combo_buffer |-> <<>>,
             longest_term |-> 0, enabled |-> TRUE, out |-> <<>>, reported |-> {}]

-----------------------------------------------------------------------------
(* From one state of the file's variables to the next; combo_buffer is what   *)
(* the ring holds from its read to its write index.                           *)
Send(s, e) ==
    [s EXCEPT !.out = Append(@, e), !.reported = IF e.pressed THEN @ \cup {What(e)} ELSE @ \ {What(e)}]

release_combo(s, c, k) == [Send(s, Record(k, c, FALSE)) EXCEPT !.combo[c].active = FALSE]

must_wait(c) == c \in MUST_HOLD \cup MUST_TAP

clear_combos(s) ==
    [s EXCEPT !.longest_term = 0,
              !.combo = [c \in Combo |-> IF @[c].active THEN @[c] ELSE Fresh]]

IsEvent(e) == e.combo # TICK_EVENT
dump_key_buffer(s) ==
    [s EXCEPT !.key_buffer = <<>>, !.out = @ \o s.key_buffer,
              !.reported = @ \cup {What(e) : e \in {x \in Range(s.key_buffer) : IsEvent(x)}}]

drop_combo_from_buffer(s, c) ==
    IF c \notin Range(s.combo_buffer) THEN s
    ELSE [s EXCEPT !.combo[c].disabled = TRUE,
                   !.combo_buffer = IF Head(@) = c THEN Tail(@) ELSE @]

(* The last of the buffered keys that complete c becomes the combo, those     *)
(* before it become ticks.                                                    *)
Chord(s, c)   == {i \in DOMAIN s.key_buffer : s.key_buffer[i].key \in KeysOf(c)}
Completes(s, c, n) == KeysOf(c) = {s.key_buffer[i].key : i \in {j \in Chord(s, c) : j <= n}}
Completing(s, c, n) ==
    n \in Chord(s, c) /\ Completes(s, c, n) /\ \A i \in 1..(n - 1) : ~Completes(s, c, i)

apply_combo(s, c) ==
    IF s.combo[c].disabled THEN s
    ELSE drop_combo_from_buffer(
           [s EXCEPT
             !.key_buffer = [i \in DOMAIN @ |->
                 IF i \notin Chord(s, c) \/ \E n \in 1..(i - 1) : Completing(s, c, n) THEN @[i]
                 ELSE [@[i] EXCEPT !.combo = IF Completing(s, c, i) THEN c ELSE TICK_EVENT]],
             !.combo[c].active = @ \/ \E n \in DOMAIN s.key_buffer : Completing(s, c, n)], c)

apply_buffered(s, c) == IF c \in MUST_TAP THEN drop_combo_from_buffer(s, c) ELSE apply_combo(s, c)

apply_combos(s) ==
    LET after[i \in 0..Len(s.combo_buffer)] ==
            IF i = 0 THEN s ELSE apply_buffered(after[i - 1], s.combo_buffer[i])
    IN clear_combos(dump_key_buffer(after[Len(s.combo_buffer)]))

-----------------------------------------------------------------------------
(* A key that completes c makes it ready, and disables the combos that are    *)
(* ready already and share a key, or c itself when one of them is longer.     *)
Overlaps(b, c) == KeysOf(b) \cap KeysOf(c) # {}
(* mutant: the longer one is dropped *)
Longer(b, c) == IF Len(Keys[c]) < Len(Keys[b]) THEN b ELSE c
Dropped(b, c)  == IF Len(Keys[c]) < Len(Keys[b]) THEN c ELSE b

(* More hypotheses: the buffer has room for the keys of all combos; a combo   *)
(* that overtakes another overtakes all that may be ready beside it; and one  *)
(* that must be held, so that it may be dropped, has no other beside it.      *)
BufferHolds  == Cardinality(UNION {KeysOf(c) : c \in Combo}) <= KEY_BUFFER_LENGTH
OvertakesAll ==
    \A b, c, d \in Combo :
        b # c /\ Overlaps(b, c) /\ Len(Keys[b]) >= Len(Keys[c]) /\ ~Overlaps(c, d)
            => Overlaps(b, d) /\ Len(Keys[b]) >= Len(Keys[d])
HoldMeetsAll == \A c \in MUST_HOLD \ MUST_TAP, d \in Combo : Overlaps(c, d)

(* And a combo that overtakes another overlaps what that one has overtaken.   *)
MeetsOvertaken ==
    \A a, b, c \in Combo :
        a # b /\ Overlaps(a, b) /\ Len(Keys[a]) <= Len(Keys[b])
            /\ b < c /\ Overlaps(b, c) /\ Len(Keys[b]) <= Len(Keys[c])
            => Overlaps(a, c)

(* mutant: the shorter one is not disabled *)
OnlyRead(s, b, c) ==
    IF s.combo[c].disabled \/ ~Overlaps(b, c) THEN s
    ELSE [s EXCEPT !.combo_buffer = IF Dropped(b, c) # c /\ Head(@) = b THEN Tail(@) ELSE @]
DropOne(s, b, c) ==
    IF s.combo[c].disabled \/ ~Overlaps(b, c) THEN s
    ELSE [s EXCEPT !.combo[Dropped(b, c)].disabled = TRUE,
                   !.combo_buffer = IF Dropped(b, c) # c /\ Head(@) = b THEN Tail(@) ELSE @]

DropOverlapping(s, c) ==
    LET after[i \in 0..Len(s.combo_buffer)] ==
            IF i = 0 THEN s ELSE DropOne(after[i - 1], s.combo_buffer[i], c)
    IN after[Len(s.combo_buffer)]

(* The ring keeps no count: the entry that makes it full makes it empty.      *)
Enqueued(q, c) == IF Len(q) + 1 = BUFFER_LENGTH THEN <<>> ELSE Append(q, c)

(* mutant: the hold term is added *)
AddedTerm(s, c) == IF must_wait(c) THEN s.longest_term + COMBO_HOLD_TERM ELSE s.longest_term
wait_time(s, c) ==
    IF must_wait(c) /\ s.longest_term < COMBO_HOLD_TERM THEN COMBO_HOLD_TERM ELSE s.longest_term

BecomesReady(s, c) ==
    LET r == DropOverlapping(s, c)
    IN IF r.combo[c].disabled THEN r
       ELSE [r EXCEPT !.combo_buffer = Enqueued(@, c), !.longest_term = wait_time(r, c)]

TooLate(c) == timer # NoTimer /\ timer > COMBO_TERM[c]

PressInCombo(s, c, k) ==
    LET r == IF s.combo[c].active THEN s
             ELSE [s EXCEPT !.combo[c].state = @ \cup {k},
                            !.longest_term = IF @ < COMBO_TERM[c] THEN COMBO_TERM[c] ELSE @]
    IN IF r.combo[c].state # KeysOf(c) THEN r
       ELSE IF TooLate(c) THEN [r EXCEPT !.combo[c].disabled = TRUE] ELSE BecomesReady(r, c)

keys_pressed_in_order(s, c, k) ==
    c \in IN_ORDER => \E i \in DOMAIN Keys[c] :
                         Keys[c][i] = k /\ s.combo[c].state = {Keys[c][j] : j \in 1..(i - 1)}

(* key_is_part_of_combo, where it is computed and as the releases leave it    *)
IsPart(s, c, k) == ~s.combo[c].disabled /\ s.enabled /\ keys_pressed_in_order(s, c, k)

Full(s, c)   == ~s.combo[c].active /\ s.combo[c].state = KeysOf(c)
(* mutant: only the last key to be released is kept back *)
HeldLast(s, c, k) == s.combo[c].active /\ s.combo[c].state = {k}
Held(s, c, k) == s.combo[c].active /\ k \in s.combo[c].state

(* mutant: the release of a combo's key is always kept *)
KeepReleases(s, c, k) == k \in s.combo[c].state
Swallowed(s, c, k) ==
    \/ Full(s, c) /\ ~s.combo[c].disabled /\ c \notin MUST_HOLD /\ IsPart(s, c, k)
    \/ Held(s, c, k)

Tapped(s, c)      == Full(s, c) /\ ~s.combo[c].disabled /\ c \in MUST_TAP \ MUST_HOLD
LastHeld(s, c, k) == Held(s, c, k) /\ s.combo[c].state = {k}
ReleasesEarly(s, c, k) == c \in RELEASE_EARLY /\ (Held(s, c, k) \/ Tapped(s, c))

ReleaseInCombo(s, c, k) ==
    LET dropped == IF Full(s, c) /\ (s.combo[c].disabled \/ c \in MUST_HOLD)
                   THEN drop_combo_from_buffer(s, c) ELSE s
        tapped  == IF Tapped(s, c) THEN apply_combos(apply_combo(s, c)) ELSE dropped
        after   == IF LastHeld(s, c, k) \/ ReleasesEarly(s, c, k)
                   THEN release_combo(tapped, c, k) ELSE tapped
    IN [after EXCEPT !.combo[c].state = @ \ {k}]

(* process_single_combo() for every combo in turn.                            *)
process_single_combo(r, c, k, pressed) ==
    IF k \notin KeysOf(c) THEN r
    ELSE IF pressed /\ IsPart(r.st, c, k)
         THEN [st |-> PressInCombo(r.st, c, k), is_combo_key |-> TRUE]
         ELSE [st |-> ReleaseInCombo(r.st, c, k),
               is_combo_key |-> r.is_combo_key \/ Swallowed(r.st, c, k)]

AllCombos(s, k, pressed) ==
    LET after[c \in 0..COMBOS] ==
            IF c = 0 THEN [st |-> s, is_combo_key |-> FALSE]
            ELSE process_single_combo(after[c - 1], c, k, pressed)
    IN after[COMBOS]

-----------------------------------------------------------------------------
(* What a step hands on; ticks are passed over.                               *)
Events(q) ==
    LET upto[i \in 0..Len(q)] ==
            IF i = 0 THEN <<>> ELSE IF IsEvent(q[i]) THEN Append(upto[i - 1], q[i]) ELSE upto[i - 1]
    IN upto[Len(q)]
Done(next) == \E s \in {next} : st' = [s EXCEPT !.out = <<>>] /\ out' = Events(s.out)

Buffered(s, k) ==
    IF Len(s.key_buffer) < KEY_BUFFER_LENGTH
    THEN [s EXCEPT !.key_buffer = Append(@, Record(k, NoCombo, TRUE))] ELSE s

Settled(s) == IF s.combo_buffer # <<>> THEN apply_combos(s) ELSE clear_combos(dump_key_buffer(s))

(* mutant: a timer that runs is set again, and no other *)
OnlyReset == timer' = IF timer = NoTimer THEN NoTimer ELSE 0
TimerSet ==
    timer' \in IF STRICT_TIMER /\ timer # NoTimer THEN {timer}
               ELSE IF ZeroTime THEN {0, NoTimer} ELSE {0}

(* A key of a combo is kept back when it goes down.                           *)
HoldBack(k) ==
    LET r == AllCombos(st, k, TRUE)
    IN /\ r.is_combo_key /\ Done(Buffered(r.st, k)) /\ TimerSet

(* Any other change of a key settles what is kept back, and is then handed on *)
(* unless it is the release of a key of a combo.                              *)
HandOn(k, pressed) ==
    LET r == AllCombos(st, k, pressed)
        s == Settled(r.st)
    IN /\ ~(pressed /\ r.is_combo_key)
       /\ Done(IF r.is_combo_key THEN s ELSE Send(s, Record(k, NoCombo, pressed)))
       /\ timer' = IF r.st.combo_buffer = <<>> THEN NoTimer ELSE timer

combo_enable(s)  == [s EXCEPT !.enabled = TRUE]
combo_disable(s) == dump_key_buffer(clear_combos([s EXCEPT !.enabled = FALSE, !.combo_buffer = <<>>]))

combo_toggle(k) ==
    /\ Done(Send(IF st.enabled THEN combo_disable(st) ELSE combo_enable(st),
                 Record(k, NoCombo, TRUE)))
    /\ timer' = IF st.enabled THEN NoTimer ELSE timer

Press(k) ==
    /\ k \notin matrix /\ matrix' = matrix \cup {k}
    /\ IF k \in TOGGLE THEN combo_toggle(k) ELSE HoldBack(k) \/ HandOn(k, TRUE)

Release(k) ==
    /\ k \in matrix /\ matrix' = matrix \ {k} /\ HandOn(k, FALSE)

combo_task ==
    /\ st.enabled /\ timer # NoTimer /\ timer > st.longest_term
    /\ Done([Settled(st) EXCEPT !.longest_term = 0])
    /\ timer' = NoTimer /\ UNCHANGED matrix

Tick ==
    /\ timer # NoTimer /\ timer + 1 \in Age /\ timer' = timer + 1
    /\ out' = <<>> /\ UNCHANGED <<matrix, st>>

Next == (\E k \in Key : Press(k) \/ Release(k)) \/ combo_task \/ Tick

(* Time passes and the main loop comes round.                                 *)
Spec == Init /\ [][Next]_vars /\ WF_vars(Tick) /\ WF_vars(combo_task)

-----------------------------------------------------------------------------
(* Every variable has its type.                                               *)
TypeOK ==
    /\ matrix \subseteq Key /\ timer \in Age \cup {NoTimer} /\ reported \subseteq Reportable
    /\ st.combo \in [Combo -> [state : SUBSET Key, active : BOOLEAN, disabled : BOOLEAN]]
    /\ Len(st.key_buffer) <= KEY_BUFFER_LENGTH /\ Len(st.combo_buffer) < BUFFER_LENGTH
    /\ Range(st.key_buffer) \subseteq [key : Key, combo : Combo \cup {NoCombo}, pressed : {TRUE}]
    /\ Range(st.combo_buffer) \subseteq Combo
    /\ st.longest_term \in Age /\ st.enabled \in BOOLEAN /\ st.out = <<>>

(* Nothing sticks: what was reported as pressed is still held down, a combo   *)
(* by at least one of its keys.                                               *)
NothingSticks ==
    /\ \A k \in Key : [key |-> k] \in reported => k \in matrix
    /\ \A c \in Combo : [combo |-> c] \in reported => KeysOf(c) \cap matrix # {}

(* Every press that is kept back is reported once in the end, by itself or by *)
(* one combo it belongs to: "only the three key combo will activate"          *)
(* (feature_combo.md:28) when combos overlap, and never the keys as well.     *)
Reports(e, k) ==
    e.pressed /\ (What(e) = [key |-> k] \/ (e.combo \in Combo /\ k \in KeysOf(e.combo)))
ReportedOnce(k) == Cardinality({i \in DOMAIN out : Reports(out[i], k)}) = 1
Kept == {st.key_buffer[i].key : i \in DOMAIN st.key_buffer}
EveryPressOnce ==
    [][ \A k \in Kept \cup (matrix' \ matrix) : k \in Kept' \/ ReportedOnce(k)' ]_vars

(* Nothing is released that is not pressed: keys that were kept back go ahead *)
(* of their releases, and a key that went into a combo has no release.        *)
PressedBefore(i) ==
    \/ What(out'[i]) \in reported
    \/ \E j \in 1..(i - 1) : out'[j].pressed /\ What(out'[j]) = What(out'[i])
PressThenRelease == [][ \A i \in DOMAIN out' : ~out'[i].pressed => PressedBefore(i) ]_vars

(* Keys are kept back for a limited time.                                     *)
KeysArrive == Kept # {} ~> Kept = {}

(* A combo that is ready is reported, unless a longer one that overlaps takes *)
(* its place, it had to be held or tapped and was not, or combos are switched *)
(* off: no other ready combo, nor a full ring, makes it be forgotten.         *)
Ready(c) == c \in Range(st.combo_buffer) /\ ~st.combo[c].disabled
ReadyFires ==
    [][ \A c \in Combo : Ready(c) /\ ~Ready(c)' =>
            \/ [combo |-> c] \in reported'
            \/ \E b \in Range(st.combo_buffer') : Overlaps(b, c) /\ Len(Keys[b]) >= Len(Keys[c])
            \/ c \in MUST_HOLD \cup MUST_TAP
            \/ ~st.enabled' ]_vars
=============================================================================
