--------------------------- MODULE ActionTapping ---------------------------
(* The tap/hold state machine of quantum/action_tapping.c, driven by the     *)
(* matrix scans of quantum/keyboard.c.  One key, tapping_key, is being       *)
(* decided; the events behind it wait in waiting_buffer.                     *)
(*                                                                           *)
(* A step is one call of process_tapping(): for the incoming event           *)
(* (pc = "event") or for the head of the buffer (pc = "drain").  The loop of *)
(* action_tapping_process() has no other step, so a scan can only happen     *)
(* again once the loop has ended (pc = "scan").                              *)
EXTENDS KeyAction, FiniteSets

CONSTANTS
    TAPPING_TERM, QUICK_TAP_TERM,   \* [Key -> Nat]: get_tapping_term() and
                                    \* get_quick_tap_term() of each key
    WAITING_BUFFER_SIZE,            \* slots of the ring; one is never used
    PERMISSIVE_HOLD, HOLD_ON_OTHER_KEY_PRESS,  \* the tap keys in these modes:
                  \* get_permissive_hold(), get_hold_on_other_key_press()
    MaxDelay,     \* bound: the longest time between two matrix scans
    MaxChanges,   \* bound: keys that change in one scan
    BackToBack    \* FALSE: a tick event separates any two scans with changes;
                  \* TRUE: only two changes of the same key (debouncing)

ASSUME TappingAssumption ==
    /\ TAPPING_TERM \in [Key -> Time] /\ QUICK_TAP_TERM \in [Key -> Time]
    /\ \A k \in Key : QUICK_TAP_TERM[k] <= TAPPING_TERM[k]
    /\ WAITING_BUFFER_SIZE \in Nat \ {0, 1}
    /\ PERMISSIVE_HOLD \subseteq Key /\ HOLD_ON_OTHER_KEY_PRESS \subseteq Key
    /\ MaxDelay \in Nat /\ MaxChanges \in Nat /\ BackToBack \in BOOLEAN

VARIABLES
    pc,           \* "scan", "event" or "drain"
    now,          \* timer_read()
    last_tick,    \* generate_tick_event()'s
    matrix,       \* matrix_previous: the keys that are down
    todo,         \* changed keys this scan still has to hand on
    recent,       \* environment: the keys that changed since the last tick
    event,        \* the record action_exec() was called with
    tapping_key, waiting_buffer,
    hid           \* the downstream state of KeyAction

vars == <<pc, now, last_tick, matrix, todo, recent, event,
          tapping_key, waiting_buffer, hid>>
scanVars == <<now, last_tick, matrix, todo, recent>>

KeyEvent(k, p, t) == [key |-> k, pressed |-> p, time |-> t, count |-> 0,
                      interrupted |-> FALSE]
Tick(t) == KeyEvent(NoKey, FALSE, t)
NoRecord == Tick(0)

TIMER_DIFF(a, b) == (a + TIMER_MOD - b) % TIMER_MOD
(* mutant: ticks never see a term expire *)
WithinOnTicks(r, tk, term) == ~IsEvent(r) \/ TIMER_DIFF(r.time, tk.time) < term[tk.key]
Within(r, tk, term) == TIMER_DIFF(r.time, tk.time) < term[tk.key]
WITHIN_TAPPING_TERM(r) == Within(r, tapping_key, TAPPING_TERM)
WITHIN_QUICK_TAP_TERM(r) == Within(r, tapping_key, QUICK_TAP_TERM)
IS_TAPPING_RECORD(r) == r.key = tapping_key.key

Init ==
    /\ pc = "scan" /\ now = 0 /\ last_tick = 0
    /\ matrix = {} /\ todo = {} /\ recent = {} /\ event = NoRecord
    /\ tapping_key = NoRecord /\ waiting_buffer = <<>>
    /\ hid = InitDownstream

-----------------------------------------------------------------------------
(* matrix_task().  A scan with changes hands the changed keys on in          *)
(* row-major order; one without generates a tick, at most one per time unit. *)

IdleScan(dt) ==
    LET t == (now + dt) % TIMER_MOD IN
    /\ pc = "scan" /\ todo = {}
    /\ t # last_tick
    /\ now' = t /\ last_tick' = t /\ recent' = {}
    /\ event' = Tick(t) /\ pc' = "event"
    /\ UNCHANGED <<matrix, todo, tapping_key, waiting_buffer, hid>>

ChangedScan(dt, changed) ==
    /\ pc = "scan" /\ todo = {}
    /\ IF BackToBack THEN changed \cap recent = {} ELSE recent = {}
    /\ now' = (now + dt) % TIMER_MOD
    /\ todo' = changed /\ recent' = recent \cup changed
    /\ UNCHANGED <<pc, last_tick, matrix, event, tapping_key, waiting_buffer, hid>>

(* action_exec() of the next changed key: a press drops the weak mods that   *)
(* earlier keys left behind before anything else happens.                    *)
HandOn(k) ==
    /\ pc = "scan" /\ k \in todo /\ \A j \in todo : k <= j
    /\ event' = KeyEvent(k, k \notin matrix, now)
    /\ matrix' = IF k \in matrix THEN matrix \ {k} ELSE matrix \cup {k}
    /\ todo' = todo \ {k}
    /\ hid' = IF k \notin matrix THEN clear_weak_mods(hid) ELSE hid
    /\ pc' = "event"
    /\ UNCHANGED <<now, last_tick, recent, tapping_key, waiting_buffer>>

-----------------------------------------------------------------------------
(* action_tapping_process(): what follows from process_tapping()'s result.   *)
(* tk, buf and d are the tapping key, buffer and downstream state it leaves. *)

Current == IF pc = "event" THEN event ELSE Head(waiting_buffer)

Processed(tk, buf, d) ==
    /\ tapping_key' = tk /\ hid' = d
    /\ pc' = "drain"
    /\ waiting_buffer' = IF pc = "event" THEN buf ELSE Tail(buf)
    /\ event' = NoRecord /\ UNCHANGED scanVars

(* mutant: one slot of the ring too many is left unused *)
FullEarly == Len(waiting_buffer) >= WAITING_BUFFER_SIZE - 2
Full == Len(waiting_buffer) = WAITING_BUFFER_SIZE - 1

Enqueued(r, tk, d) ==
    /\ pc = "event" /\ (~IsEvent(r) \/ ~Full)
    /\ waiting_buffer' = IF IsEvent(r) THEN Append(waiting_buffer, r) ELSE waiting_buffer
    /\ tapping_key' = tk /\ hid' = d
    /\ pc' = "drain"
    /\ event' = NoRecord /\ UNCHANGED scanVars

Overflow(r, d) ==
    /\ pc = "event" /\ IsEvent(r) /\ Full
    /\ waiting_buffer' = <<>> /\ tapping_key' = NoRecord
    /\ hid' = clear_keyboard(d)
    /\ pc' = "drain"
    /\ event' = NoRecord /\ UNCHANGED scanVars

StopDraining(r, tk, d) ==
    /\ pc = "drain"
    /\ waiting_buffer' = [waiting_buffer EXCEPT ![1] = r]
    /\ tapping_key' = tk /\ hid' = d
    /\ pc' = "scan"
    /\ event' = NoRecord /\ UNCHANGED scanVars

NotProcessed(r, tk, d) ==
    Enqueued(r, tk, d) \/ Overflow(r, d) \/ StopDraining(r, tk, d)

(* mutant: the loop over the buffer is left after any entry *)
DrainedEarly ==
    /\ pc = "drain" /\ pc' = "scan"
    /\ UNCHANGED scanVars /\ UNCHANGED <<event, tapping_key, waiting_buffer, hid>>

Drained ==
    /\ pc = "drain" /\ waiting_buffer = <<>>
    /\ pc' = "scan"
    /\ UNCHANGED scanVars /\ UNCHANGED <<event, tapping_key, waiting_buffer, hid>>

(* mutant: an event never finds its counterpart in the buffer *)
NeverTyped(r) == FALSE

waiting_buffer_typed(r) ==
    \E i \in DOMAIN waiting_buffer :
        waiting_buffer[i].key = r.key /\ waiting_buffer[i].pressed # r.pressed

(* waiting_buffer_scan_tap(): the new tapping key r is settled as a tap at   *)
(* once when its release already waits in the buffer.                        *)
TapReleases(r) ==
    {i \in DOMAIN waiting_buffer :
        LET c == waiting_buffer[i]
        IN  IsEvent(c) /\ c.key = r.key /\ ~c.pressed /\ Within(c, r, TAPPING_TERM)}

StartTapping(r, d) ==
    LET found == TapReleases(r)
        tap   == [r EXCEPT !.count = 1]
    IN  IF found = {} \/ r.count > 0
        THEN Processed(r, waiting_buffer, d)
        ELSE \E i \in found :
                /\ \A j \in found : i <= j
                /\ Processed(tap, [waiting_buffer EXCEPT ![i].count = 1],
                             process_record(d, tap))

-----------------------------------------------------------------------------
(* process_tapping(), one action per branch.                                 *)

Running == pc = "event" \/ (pc = "drain" /\ waiting_buffer # <<>>)
Reset   == Running /\ ~IsEvent(tapping_key)
Pressed == Running /\ IsEvent(tapping_key) /\ tapping_key.pressed
Undecided == Pressed /\ tapping_key.count = 0
Tapped    == Pressed /\ tapping_key.count > 0
Released  == Running /\ IsEvent(tapping_key) /\ ~tapping_key.pressed

ResetTick(r) == Reset /\ ~IsEvent(r) /\ Processed(tapping_key, waiting_buffer, hid)

ResetPressTapKey(r) ==
    Reset /\ r.pressed /\ is_tap_record(hid, r) /\ StartTapping(r, hid)

ResetOther(r) ==
    /\ Reset /\ IsEvent(r) /\ ~(r.pressed /\ is_tap_record(hid, r))
    /\ Processed(tapping_key, waiting_buffer, process_record(hid, r))

UndecidedTick(r) ==
    /\ Undecided /\ WITHIN_TAPPING_TERM(r) /\ ~IsEvent(r)
    /\ Processed(tapping_key, waiting_buffer, hid)

(* mutant: the press is processed before the tap is counted *)
FirstTapCountedLate(r) ==
    LET tap == [tapping_key EXCEPT !.count = 1] IN
    /\ Undecided /\ WITHIN_TAPPING_TERM(r) /\ IS_TAPPING_RECORD(r) /\ ~r.pressed
    /\ NotProcessed([r EXCEPT !.count = 1, !.interrupted = tap.interrupted],
                    tap, process_record(hid, tapping_key))

FirstTap(r) ==
    LET tap == [tapping_key EXCEPT !.count = 1] IN
    /\ Undecided /\ WITHIN_TAPPING_TERM(r) /\ IS_TAPPING_RECORD(r) /\ ~r.pressed
    /\ NotProcessed([r EXCEPT !.count = 1, !.interrupted = tap.interrupted],
                    tap, process_record(hid, tap))

SettleAsHold(r) == NotProcessed(r, NoRecord, process_record(hid, tapping_key))

OtherKey(r) ==
    /\ Undecided /\ WITHIN_TAPPING_TERM(r) /\ IsEvent(r)
    /\ ~(IS_TAPPING_RECORD(r) /\ ~r.pressed)

(* mutant: nested taps settle the hold in every mode *)
NestedTapInEveryMode(r) ==
    OtherKey(r) /\ ~r.pressed /\ waiting_buffer_typed(r) /\ SettleAsHold(r)

NestedTap(r) ==
    /\ OtherKey(r) /\ ~r.pressed /\ waiting_buffer_typed(r)
    /\ tapping_key.key \in PERMISSIVE_HOLD
    /\ SettleAsHold(r)

(* A key that was down before the tapping key: its release is processed now, *)
(* unless it is a modifier or a layer key, which outlive the decision.       *)
Retained(r) ==
    LET a == layer_switch_get_action(hid, r.key)
    IN  \/ a.kind \in {"mod", "lt", "mo"}
        \/ a.kind = "mt" /\ a.mods # {} /\ r.count = 0

EarlierKey(r) == OtherKey(r) /\ ~r.pressed /\ ~waiting_buffer_typed(r)

RetainEarlierRelease(r) ==
    EarlierKey(r) /\ Retained(r) /\ NotProcessed(r, tapping_key, hid)

ProcessEarlierRelease(r) ==
    /\ EarlierKey(r) /\ ~Retained(r)
    /\ Processed(tapping_key, waiting_buffer, process_record(hid, r))

NestedRelease(r) ==
    /\ OtherKey(r) /\ ~r.pressed /\ waiting_buffer_typed(r)
    /\ tapping_key.key \notin PERMISSIVE_HOLD
    /\ NotProcessed(r, tapping_key, hid)

(* mutant: the press of another key is only noted *)
InterruptOnlyNoted(r) ==
    /\ OtherKey(r) /\ r.pressed
    /\ NotProcessed(r, [tapping_key EXCEPT !.interrupted = TRUE], hid)

Interrupt(r) ==
    /\ OtherKey(r) /\ r.pressed
    /\ LET tk == [tapping_key EXCEPT !.interrupted = TRUE]
       IN  IF tapping_key.key \in HOLD_ON_OTHER_KEY_PRESS
           THEN NotProcessed(r, NoRecord, process_record(hid, tk))
           ELSE NotProcessed(r, tk, hid)

HoldTimeout(r) == Undecided /\ ~WITHIN_TAPPING_TERM(r) /\ SettleAsHold(r)

TappedTick(r) ==
    Tapped /\ ~IsEvent(r) /\ Processed(tapping_key, waiting_buffer, hid)

TapRelease(r) ==
    LET rel == [r EXCEPT !.count = tapping_key.count,
                         !.interrupted = tapping_key.interrupted]
    IN  /\ Tapped /\ IS_TAPPING_RECORD(r) /\ ~r.pressed
        /\ Processed(IF WITHIN_TAPPING_TERM(r) THEN rel ELSE NoRecord,
                     waiting_buffer, process_record(hid, rel))

(* The key of a repeated tap may still be down: its release is made up.      *)
NewTapWhileTapped(r) ==
    LET rel == [tapping_key EXCEPT !.pressed = FALSE, !.time = r.time] IN
    /\ Tapped /\ r.pressed /\ is_tap_record(hid, r)
    /\ \/ tapping_key.count > 1 /\ StartTapping(r, process_record(hid, rel))
       \/ tapping_key.count = 1 /\ StartTapping(r, hid)

OtherWhileTapped(r) ==
    /\ Tapped /\ IsEvent(r) /\ ~(IS_TAPPING_RECORD(r) /\ ~r.pressed)
    /\ ~(r.pressed /\ is_tap_record(hid, r))
    /\ Processed(tapping_key, waiting_buffer, process_record(hid, r))

ReleasedWithin(r) == Released /\ WITHIN_TAPPING_TERM(r) /\ IsEvent(r)

ReleasedTick(r) ==
    /\ Released /\ WITHIN_TAPPING_TERM(r) /\ ~IsEvent(r)
    /\ Processed(tapping_key, waiting_buffer, hid)

Sequential(r) ==
    /\ WITHIN_QUICK_TAP_TERM(r) /\ ~tapping_key.interrupted /\ tapping_key.count > 0

SequentialTap(r) ==
    LET n   == IF tapping_key.count < MaxCount THEN tapping_key.count + 1 ELSE MaxCount
        tap == [r EXCEPT !.count = n, !.interrupted = tapping_key.interrupted]
    IN  /\ ReleasedWithin(r) /\ r.pressed /\ IS_TAPPING_RECORD(r) /\ Sequential(r)
        /\ Processed(tap, waiting_buffer, process_record(hid, tap))

(* The same key again, too late or interrupted: a new tapping key, without   *)
(* looking for its release in the buffer.                                    *)
RestartTapping(r) ==
    /\ ReleasedWithin(r) /\ r.pressed /\ IS_TAPPING_RECORD(r) /\ ~Sequential(r)
    /\ Processed(r, waiting_buffer, hid)

OtherTapKeyAfterTap(r) ==
    /\ ReleasedWithin(r) /\ r.pressed /\ ~IS_TAPPING_RECORD(r)
    /\ is_tap_record(hid, r) /\ StartTapping(r, hid)

OtherKeyAfterTap(r) ==
    /\ ReleasedWithin(r) /\ r.pressed /\ ~IS_TAPPING_RECORD(r) /\ ~is_tap_record(hid, r)
    /\ Processed([tapping_key EXCEPT !.interrupted = TRUE], waiting_buffer,
                 process_record(hid, r))

ReleaseAfterTap(r) ==
    /\ ReleasedWithin(r) /\ ~r.pressed
    /\ Processed(tapping_key, waiting_buffer, process_record(hid, r))

ReleasedTimeout(r) ==
    Released /\ ~WITHIN_TAPPING_TERM(r) /\ NotProcessed(r, NoRecord, hid)

process_tapping ==
    LET r == Current IN
    \/ ResetTick(r) \/ ResetPressTapKey(r) \/ ResetOther(r)
    \/ UndecidedTick(r) \/ FirstTap(r) \/ NestedTap(r)
    \/ RetainEarlierRelease(r) \/ ProcessEarlierRelease(r)
    \/ NestedRelease(r) \/ Interrupt(r) \/ HoldTimeout(r)
    \/ TappedTick(r) \/ TapRelease(r) \/ NewTapWhileTapped(r) \/ OtherWhileTapped(r)
    \/ ReleasedTick(r) \/ SequentialTap(r) \/ RestartTapping(r)
    \/ OtherTapKeyAfterTap(r) \/ OtherKeyAfterTap(r) \/ ReleaseAfterTap(r)
    \/ ReleasedTimeout(r)

Scan ==
    \E dt \in 0..MaxDelay :
        \/ IdleScan(dt)
        \/ \E changed \in SUBSET Key :
              changed # {} /\ Cardinality(changed) <= MaxChanges /\ ChangedScan(dt, changed)

Next == Scan \/ (\E k \in Key : HandOn(k)) \/ process_tapping \/ Drained

Spec == Init /\ [][Next]_vars

(* generate_tick_event() is reached from every pass of the main loop and the *)
(* timer never stops, so ticks keep coming however busy the matrix is; the   *)
(* firmware never stops inside one pass.                                     *)
Fairness ==
    /\ SF_vars(\E dt \in 0..MaxDelay : IdleScan(dt))
    /\ WF_vars(\E k \in Key : HandOn(k))
    /\ WF_vars(process_tapping \/ Drained)

FairSpec == Spec /\ Fairness

-----------------------------------------------------------------------------
(* Every variable has its type; the buffer holds key events only and never   *)
(* uses the last slot of the ring.                                           *)
TypeOK ==
    /\ pc \in {"scan", "event", "drain"}
    /\ now \in Time /\ last_tick \in Time
    /\ matrix \in SUBSET Key /\ todo \in SUBSET Key /\ recent \in SUBSET Key
    /\ event \in Record /\ tapping_key \in Record
    /\ waiting_buffer \in Seq(Record)
    /\ Len(waiting_buffer) < WAITING_BUFFER_SIZE
    /\ \A i \in DOMAIN waiting_buffer : IsEvent(waiting_buffer[i])
    /\ hid \in Downstream

TappingKeyReleased  == IsEvent(tapping_key) /\ ~tapping_key.pressed
TappingKeyUndecided == IsEvent(tapping_key) /\ tapping_key.pressed /\ tapping_key.count = 0

(* "invalid state: tapping_key released && tap.count == 0" is what           *)
(* waiting_buffer_scan_tap() guards against (action_tapping.c:504); it is    *)
(* never reached.                                                            *)
ReleasedMeansTapped == TappingKeyReleased => tapping_key.count > 0

(* "should none in buffer" (action_tapping.c:419): an event that arrives     *)
(* while the last tapping key is up finds nothing waiting before it, so the  *)
(* branches that process it at once cannot reorder anything.                 *)
NothingWaitsAfterTap ==
    pc \in {"scan", "event"} /\ TappingKeyReleased => waiting_buffer = <<>>

(* With every key up, the scan handed on and nothing left to decide or to    *)
(* drain, no keycode and no modifier stays in the report ...                 *)
AtRest ==
    /\ pc = "scan" /\ todo = {} /\ matrix = {}
    /\ waiting_buffer = <<>> /\ ~(IsEvent(tapping_key) /\ tapping_key.pressed)

ReportNeverStuck == AtRest => hid.keys = {} /\ hid.mods = {}

(* ... and, unless the buffer overflowed, no momentary layer stays on.       *)
NothingStuck == ReportNeverStuck /\ (AtRest => hid.layers = {})

(* A press is never handed to the host ahead of an event that is waiting.    *)
PressesInOrder ==
    [][pc = "event" /\ event.pressed /\ event.key \in hid'.sent \ hid.sent
          => waiting_buffer = <<>>]_vars

(* Default mode "selects the hold action only if the dual-role key is held   *)
(* down longer than the tapping term" (docs/tap_hold.md:121).                *)
SettlesAsHold ==
    TappingKeyUndecided /\ tapping_key'.count = 0 /\ tapping_key.key \in hid'.sent \ hid.sent

HoldOnlyAfterTerm ==
    [][SettlesAsHold /\ tapping_key.key \notin PERMISSIVE_HOLD \cup HOLD_ON_OTHER_KEY_PRESS =>
          TIMER_DIFF(now, tapping_key.time) >= TAPPING_TERM[tapping_key.key]]_vars

(* Hold-on-other-key-press settles a key as held when another key is         *)
(* pressed (docs/tap_hold.md:125): no press waits behind an undecided key.   *)
NoPressWaits ==
    pc = "scan" /\ TappingKeyUndecided /\ tapping_key.key \in HOLD_ON_OTHER_KEY_PRESS =>
        \A i \in DOMAIN waiting_buffer : ~waiting_buffer[i].pressed

(* Every tapping key is decided ...                                          *)
EventuallyDecided == TappingKeyUndecided ~> ~TappingKeyUndecided

(* ... and once every key is up for good, all that waits is let through and  *)
(* the state machine returns to its reset state.                             *)
EventuallyReset ==
    <>[](matrix = {}) => <>[](waiting_buffer = <<>> /\ ~IsEvent(tapping_key))

-----------------------------------------------------------------------------
(* What the tapping machine promises about each key alone: its events reach  *)
(* the host in order, and none is lost unless more wait than there is room   *)
(* for, the key that is being decided and the used slots of the ring         *)
(* (WAITING_BUFFER_SIZE together, as one slot of the ring is never used).    *)
Flags(s) == [i \in DOMAIN s |-> [key |-> s[i].key, pressed |-> s[i].pressed]]
Waiting  ==
    (IF TappingKeyUndecided THEN <<tapping_key>> ELSE <<>>)
    \o waiting_buffer \o (IF IsEvent(event) THEN <<event>> ELSE <<>>)

Stream == INSTANCE KeyStream WITH
    pending <- Flags(Waiting), sent <- hid.sent, Capacity <- WAITING_BUFFER_SIZE

EveryKeyInOrder == Stream!Spec
=============================================================================
