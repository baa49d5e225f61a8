------------------------- MODULE ActionTappingProofs -------------------------
(* For every keymap, every choice of terms and modes and every size of the   *)
(* waiting buffer: the tapping machine keeps its types and bounds, and the   *)
(* two states its comments call impossible are never reached.                *)
(*                                                                           *)
(* When every tap key is in hold-on-other-key-press mode, or there is one    *)
(* tap key and it is in the default mode: no press overtakes another event,  *)
(* the machine implements KeyStream, and nothing sticks, no keycode, no      *)
(* modifier and, without an overflow, no layer.                              *)
EXTENDS ActionTapping, FiniteSetTheorems, WellFoundedInduction, TLAPS

USE DEF Key, Layer, NoKey

(* Every nonempty set of naturals has a least element.                       *)
LEMMA LeastElement ==
    ASSUME NEW S \in SUBSET Nat, S # {}
    PROVE  \E x \in S : \A y \in S : x <= y
  <1>1. PICK x \in S : \A y \in S : ~(<<y, x>> \in OpToRel(<, Nat))
    BY NatLessThanWellFounded, WFMin, Zenon
  <1>2. ASSUME NEW y \in S PROVE x <= y
    <2>. DEFINE R == OpToRel(<, Nat)
    <2>1. <<y, x>> \notin R
      BY <1>1, Zenon
    <2>2. R = {p \in Nat \X Nat : p[1] < p[2]}
      BY Zenon DEF OpToRel
    <2>. HIDE DEF R
    <2>. QED BY <2>1, <2>2
  <1>. QED BY <1>2

-----------------------------------------------------------------------------
(* The downstream operators return downstream states.                        *)

LEMMA LayerType ==
    ASSUME NEW d \in Downstream, NEW k \in Key
    PROVE  layer_switch_get_layer(d, k) \in Layer
  <1>. DEFINE opaque(l) == l \in d.layers \cup {0} /\ Keymap[l][k].kind # "trns"
              top(l)    == opaque(l) /\ \A m \in Layer : m > l => ~opaque(m)
  <1>1. 0 \in Layer
    BY KeymapAssumption
  <1>2. (\E l \in Layer : top(l)) => (CHOOSE l \in Layer : top(l)) \in Layer
    <2>. HIDE DEF top
    <2>. QED BY Zenon
  <1>. QED BY <1>1, <1>2 DEF layer_switch_get_layer

LEMMA ActionType ==
    ASSUME NEW l \in Layer, NEW k \in Key
    PROVE  Keymap[l][k] \in Action
  BY KeymapAssumption

LEMMA InitDownstreamType == InitDownstream \in Downstream
  BY KeymapAssumption DEF InitDownstream, Downstream

LEMMA PressType ==
    ASSUME NEW d \in Downstream, NEW r \in Record, NEW a \in Action
    PROVE  Press(d, r, a) \in Downstream
  <1>1. register_code(d, a.code) \in Downstream
    BY DEF register_code, Downstream, Action
  <1>2. register_mods(d, a.mods) \in Downstream
    BY DEF register_mods, Downstream, Action
  <1>3. layer_on(d, a.layer) \in Downstream
    BY DEF layer_on, Downstream, Action
  <1>4. layer_invert(d, a.layer) \in Downstream
    BY DEF layer_invert, layer_on, layer_off, Downstream, Action
  <1>5. [register_code(d, a.code) EXCEPT !.weak = @ \cup a.mods] \in Downstream
    BY <1>1 DEF Downstream, Action
  <1>. QED BY <1>1, <1>2, <1>3, <1>4, <1>5 DEF Press

LEMMA ReleaseType ==
    ASSUME NEW d \in Downstream, NEW r \in Record, NEW a \in Action
    PROVE  Release(d, r, a) \in Downstream
  <1>1. unregister_code(d, a.code) \in Downstream
    BY DEF unregister_code, Downstream, Action
  <1>2. unregister_mods(d, a.mods) \in Downstream
    BY DEF unregister_mods, Downstream, Action
  <1>3. layer_off(d, a.layer) \in Downstream
    BY DEF layer_off, Downstream, Action
  <1>4. layer_invert(d, a.layer) \in Downstream
    BY DEF layer_invert, layer_on, layer_off, Downstream, Action
  <1>5. [unregister_code(d, a.code) EXCEPT !.weak = @ \ a.mods] \in Downstream
    BY <1>1 DEF Downstream, Action
  <1>. QED BY <1>1, <1>2, <1>3, <1>4, <1>5 DEF Release

LEMMA ProcessRecordType ==
    ASSUME NEW d \in Downstream, NEW r \in Record, IsEvent(r)
    PROVE  process_record(d, r) \in Downstream
  <1>. DEFINE l == store_or_get_layer(d, r)
              e == [d EXCEPT !.src[r.key] = l,
                             !.sent = IF r.pressed THEN @ \cup {r.key} ELSE @ \ {r.key}]
              a == Keymap[l][r.key]
  <1>1. r.key \in Key
    BY DEF IsEvent, Record
  <1>2. l \in Layer
    BY <1>1, LayerType DEF store_or_get_layer, Downstream
  <1>3. e \in Downstream
    BY <1>1, <1>2 DEF Downstream
  <1>4. a \in Action
    BY <1>1, <1>2, ActionType
  <1>5. process_action(e, r, a) \in Downstream
    BY <1>3, <1>4, PressType, ReleaseType DEF process_action
  <1>. QED BY <1>5 DEF process_record

LEMMA ClearKeyboardType ==
    ASSUME NEW d \in Downstream
    PROVE  clear_keyboard(d) \in Downstream /\ clear_weak_mods(d) \in Downstream
  BY DEF clear_keyboard, clear_weak_mods, Downstream

-----------------------------------------------------------------------------
(* The inductive invariant: what a released tapping key and a non-empty      *)
(* buffer exclude only follows step by step from the types of both.          *)
IInv == TypeOK /\ ReleasedMeansTapped /\ NothingWaitsAfterTap

IsReleased(tk) == IsEvent(tk) /\ ~tk.pressed

LEMMA NoRecordType == NoRecord \in Record /\ ~IsEvent(NoRecord) /\ ~NoRecord.pressed
  BY KeymapAssumption DEF NoRecord, Tick, KeyEvent, Record, Time, IsEvent

(* A record with another tap count, or another interrupted flag, is a record *)
(* of the same event.                                                        *)
LEMMA CountedType ==
    ASSUME NEW q \in Record, NEW n \in 0..MaxCount
    PROVE  /\ [q EXCEPT !.count = n] \in Record
           /\ [q EXCEPT !.count = n].key = q.key
           /\ [q EXCEPT !.count = n].pressed = q.pressed
           /\ [q EXCEPT !.count = n].interrupted \in BOOLEAN
  <1>1. [q EXCEPT !.count = n] \in Record
    BY DEF Record
  <1>2. /\ [q EXCEPT !.count = n].key = q.key
        /\ [q EXCEPT !.count = n].pressed = q.pressed
        /\ [q EXCEPT !.count = n].interrupted = q.interrupted
    BY DEF Record
  <1>3. q.interrupted \in BOOLEAN
    BY DEF Record
  <1>. QED BY <1>1, <1>2, <1>3

LEMMA MarkedType ==
    ASSUME NEW q \in Record, NEW n \in 0..MaxCount, NEW b \in BOOLEAN
    PROVE  /\ [q EXCEPT !.count = n, !.interrupted = b] \in Record
           /\ [q EXCEPT !.count = n, !.interrupted = b].key = q.key
  BY DEF Record

LEMMA CurrentType ==
    ASSUME TypeOK, Running
    PROVE  Current \in Record /\ (pc = "drain" => IsEvent(Current))
  BY DEF TypeOK, Running, Current

LEMMA ProcessedInv ==
    ASSUME IInv, Running,
           NEW tk \in Record, IsReleased(tk) => tk.count > 0,
           NEW buf \in Seq(Record), Len(buf) = Len(waiting_buffer),
           \A i \in DOMAIN buf : IsEvent(buf[i]),
           NEW d \in Downstream,
           Processed(tk, buf, d)
    PROVE  IInv'
  <1>. USE DEF IInv, Processed, scanVars
  <1>1. /\ waiting_buffer' \in Seq(Record)
        /\ Len(waiting_buffer') < WAITING_BUFFER_SIZE
        /\ \A i \in DOMAIN waiting_buffer' : IsEvent(waiting_buffer'[i])
    <2>1. CASE pc = "event"
      BY <2>1 DEF TypeOK
    <2>2. CASE pc = "drain"
      <3>1. waiting_buffer' = Tail(buf) /\ buf # <<>>
        BY <2>2 DEF Running, TypeOK
      <3>2. Len(Tail(buf)) = Len(buf) - 1 /\ Tail(buf) \in Seq(Record)
        BY <3>1
      <3>3. \A i \in 1..Len(Tail(buf)) : Tail(buf)[i] = buf[i + 1] /\ i + 1 \in DOMAIN buf
        BY <3>1, <3>2
      <3>. QED BY <3>1, <3>2, <3>3, TappingAssumption DEF TypeOK
    <2>. QED BY <2>1, <2>2 DEF Running
  <1>2. TypeOK'
    BY <1>1, NoRecordType DEF TypeOK
  <1>3. ReleasedMeansTapped'
    BY DEF ReleasedMeansTapped, TappingKeyReleased, IsReleased
  <1>4. NothingWaitsAfterTap'
    BY DEF NothingWaitsAfterTap
  <1>. QED BY <1>2, <1>3, <1>4

LEMMA NotProcessedInv ==
    ASSUME IInv, Running,
           NEW r \in Record, pc = "drain" => IsEvent(r),
           NEW tk \in Record, ~IsReleased(tk),
           NEW d \in Downstream,
           NotProcessed(r, tk, d)
    PROVE  IInv'
  <1>. USE DEF IInv, scanVars
  <1>1. CASE Enqueued(r, tk, d)
    <2>1. /\ waiting_buffer' \in Seq(Record)
          /\ Len(waiting_buffer') < WAITING_BUFFER_SIZE
          /\ \A i \in DOMAIN waiting_buffer' : IsEvent(waiting_buffer'[i])
      <3>1. CASE ~IsEvent(r)
        BY <1>1, <3>1 DEF Enqueued, TypeOK
      <3>2. CASE IsEvent(r)
        <4>1. waiting_buffer' = Append(waiting_buffer, r)
              /\ Len(waiting_buffer) # WAITING_BUFFER_SIZE - 1
          BY <1>1, <3>2 DEF Enqueued, Full
        <4>. QED BY <4>1, <3>2, TappingAssumption DEF TypeOK
      <3>. QED BY <3>1, <3>2
    <2>2. TypeOK'
      BY <1>1, <2>1, NoRecordType DEF Enqueued, TypeOK
    <2>. QED
      BY <1>1, <2>2 DEF Enqueued, ReleasedMeansTapped, TappingKeyReleased,
                        NothingWaitsAfterTap, IsReleased
  <1>2. CASE Overflow(r, d)
    <2>1. TypeOK'
      BY <1>2, NoRecordType, ClearKeyboardType, TappingAssumption DEF Overflow, TypeOK
    <2>. QED
      BY <1>2, <2>1, NoRecordType DEF Overflow, ReleasedMeansTapped, TappingKeyReleased,
                                      NothingWaitsAfterTap
  <1>3. CASE StopDraining(r, tk, d)
    <2>1. /\ waiting_buffer' \in Seq(Record)
          /\ Len(waiting_buffer') < WAITING_BUFFER_SIZE
          /\ \A i \in DOMAIN waiting_buffer' : IsEvent(waiting_buffer'[i])
      BY <1>3 DEF StopDraining, TypeOK, Running
    <2>2. TypeOK'
      BY <1>3, <2>1, NoRecordType DEF StopDraining, TypeOK
    <2>. QED
      BY <1>3, <2>2 DEF StopDraining, ReleasedMeansTapped, TappingKeyReleased,
                        NothingWaitsAfterTap, IsReleased
  <1>. QED BY <1>1, <1>2, <1>3 DEF NotProcessed

LEMMA StartTappingInv ==
    ASSUME IInv, Running, NEW r \in Record, IsEvent(r), r.pressed,
           NEW d \in Downstream, StartTapping(r, d)
    PROVE  IInv'
  <1>. DEFINE found == TapReleases(r)
              tap   == [r EXCEPT !.count = 1]
  <1>1. CASE Processed(r, waiting_buffer, d)
    <2>1. /\ waiting_buffer \in Seq(Record)
          /\ \A i \in DOMAIN waiting_buffer : IsEvent(waiting_buffer[i])
          /\ ~IsReleased(r)
      BY DEF IInv, TypeOK, IsReleased
    <2>. QED BY <1>1, <2>1, ProcessedInv
  <1>2. ASSUME NEW i \in found,
               Processed(tap, [waiting_buffer EXCEPT ![i].count = 1], process_record(d, tap))
        PROVE  IInv'
    <2>. DEFINE buf == [waiting_buffer EXCEPT ![i].count = 1]
    <2>1. tap \in Record /\ IsEvent(tap) /\ tap.pressed
      BY KeymapAssumption DEF Record, IsEvent
    <2>2. i \in DOMAIN waiting_buffer
      BY <1>2 DEF TapReleases
    <2>3. /\ waiting_buffer \in Seq(Record)
          /\ \A j \in DOMAIN waiting_buffer : IsEvent(waiting_buffer[j])
      BY DEF IInv, TypeOK
    <2>4. [waiting_buffer[i] EXCEPT !.count = 1] \in Record
          /\ IsEvent([waiting_buffer[i] EXCEPT !.count = 1])
      <3>1. waiting_buffer[i] \in Record /\ IsEvent(waiting_buffer[i])
        BY <2>2, <2>3
      <3>2. 1 \in 0..MaxCount
        BY KeymapAssumption
      <3>. QED BY <3>1, <3>2, CountedType DEF IsEvent
    <2>5. /\ buf \in Seq(Record) /\ Len(buf) = Len(waiting_buffer)
          /\ \A j \in DOMAIN buf : IsEvent(buf[j])
      BY <2>2, <2>3, <2>4
    <2>6. process_record(d, tap) \in Downstream
      BY <2>1, ProcessRecordType
    <2>7. Processed(tap, buf, process_record(d, tap)) /\ ~IsReleased(tap)
      BY <1>2, <2>1 DEF IsReleased
    <2>. HIDE DEF tap, buf
    <2>. QED BY <2>1, <2>5, <2>6, <2>7, ProcessedInv
  <1>. QED BY <1>1, <1>2 DEF StartTapping

-----------------------------------------------------------------------------
(* The scans, and every branch of process_tapping().                         *)

LEMMA ScanInv ==
    ASSUME IInv, Scan
    PROVE  IInv'
  <1>1. ASSUME NEW dt \in 0..MaxDelay
        PROVE  (now + dt) % TIMER_MOD \in Time
    BY <1>1, KeymapAssumption, TappingAssumption DEF IInv, TypeOK, Time
  <1>2. ASSUME NEW dt \in 0..MaxDelay, IdleScan(dt)
        PROVE  IInv'
    <2>1. Tick((now + dt) % TIMER_MOD) \in Record
      BY <1>1, KeymapAssumption DEF Tick, KeyEvent, Record
    <2>2. TypeOK'
      BY <1>1, <1>2, <2>1 DEF IdleScan, IInv, TypeOK
    <2>. QED BY <1>2, <2>2 DEF IdleScan, IInv, ReleasedMeansTapped, TappingKeyReleased,
                               NothingWaitsAfterTap
  <1>3. ASSUME NEW dt \in 0..MaxDelay, NEW changed \in SUBSET Key, ChangedScan(dt, changed)
        PROVE  IInv'
    <2>1. TypeOK'
      BY <1>1, <1>3 DEF ChangedScan, IInv, TypeOK
    <2>. QED BY <1>3, <2>1 DEF ChangedScan, IInv, ReleasedMeansTapped,
                               TappingKeyReleased, NothingWaitsAfterTap
  <1>. QED BY <1>2, <1>3 DEF Scan

LEMMA KeyEventType ==
    ASSUME NEW k \in Key, NEW p \in BOOLEAN, NEW t \in Time
    PROVE  KeyEvent(k, p, t) \in Record
  <1>1. CASE p
    BY <1>1, KeymapAssumption DEF KeyEvent, Record
  <1>2. CASE ~p
    BY <1>2, KeymapAssumption DEF KeyEvent, Record
  <1>. QED BY <1>1, <1>2

LEMMA HandOnInv ==
    ASSUME IInv, NEW k \in Key, HandOn(k)
    PROVE  IInv'
  <1>1. KeyEvent(k, k \notin matrix, now) \in Record
    <2>1. (k \notin matrix) \in BOOLEAN
      OBVIOUS
    <2>2. now \in Time
      BY DEF IInv, TypeOK
    <2>. QED BY <2>1, <2>2, KeyEventType, Zenon
  <1>2. TypeOK'
    BY <1>1, ClearKeyboardType DEF HandOn, IInv, TypeOK
  <1>. QED BY <1>2 DEF HandOn, IInv, ReleasedMeansTapped, TappingKeyReleased,
                       NothingWaitsAfterTap

LEMMA DrainedInv ==
    ASSUME IInv, Drained
    PROVE  IInv'
  BY DEF Drained, scanVars, IInv, TypeOK, ReleasedMeansTapped, TappingKeyReleased,
         NothingWaitsAfterTap

(* The facts every branch starts from.                                       *)
LEMMA BranchFacts ==
    ASSUME IInv
    PROVE  /\ tapping_key \in Record
           /\ waiting_buffer \in Seq(Record)
           /\ \A i \in DOMAIN waiting_buffer : IsEvent(waiting_buffer[i])
           /\ hid \in Downstream
           /\ IsReleased(tapping_key) => tapping_key.count > 0
  BY DEF IInv, TypeOK, ReleasedMeansTapped, TappingKeyReleased, IsReleased

LEMMA ProcessTappingInv ==
    ASSUME IInv, process_tapping
    PROVE  IInv'
  <1>. DEFINE r == Current
  <1>0. Running
    BY DEF process_tapping, ResetTick, ResetPressTapKey, ResetOther, UndecidedTick,
           FirstTap, NestedTap, RetainEarlierRelease, ProcessEarlierRelease,
           NestedRelease, Interrupt, HoldTimeout, TappedTick, TapRelease,
           NewTapWhileTapped, OtherWhileTapped, ReleasedTick, SequentialTap,
           RestartTapping, OtherTapKeyAfterTap, OtherKeyAfterTap, ReleaseAfterTap,
           ReleasedTimeout, EarlierKey, OtherKey, ReleasedWithin, Reset, Undecided,
           Tapped, Released, Pressed
  <1>1. r \in Record /\ (pc = "drain" => IsEvent(r))
    BY <1>0, CurrentType DEF IInv
  <1>2. /\ tapping_key \in Record /\ waiting_buffer \in Seq(Record)
        /\ \A i \in DOMAIN waiting_buffer : IsEvent(waiting_buffer[i])
        /\ hid \in Downstream
        /\ IsReleased(tapping_key) => tapping_key.count > 0
    BY BranchFacts
  <1>3. IsEvent(r) => process_record(hid, r) \in Downstream
    BY <1>1, <1>2, ProcessRecordType
  <1>4. IsEvent(tapping_key) => process_record(hid, tapping_key) \in Downstream
    BY <1>2, ProcessRecordType
  <1>. HIDE DEF r
  <1>5. ASSUME NEW d \in Downstream, Processed(tapping_key, waiting_buffer, d)
        PROVE  IInv'
    BY <1>0, <1>2, <1>5, ProcessedInv
  <1>6. CASE ResetTick(r)
    BY <1>2, <1>5, <1>6 DEF ResetTick
  <1>7. CASE ResetPressTapKey(r)
    BY <1>0, <1>1, <1>2, <1>7, StartTappingInv DEF ResetPressTapKey, is_tap_record
  <1>8. CASE ResetOther(r)
    BY <1>3, <1>5, <1>8 DEF ResetOther
  <1>9. CASE UndecidedTick(r)
    BY <1>2, <1>5, <1>9 DEF UndecidedTick
  <1>10. CASE FirstTap(r)
    <2>. DEFINE tap == [tapping_key EXCEPT !.count = 1]
                rel == [r EXCEPT !.count = 1, !.interrupted = tap.interrupted]
    <2>0. IsEvent(tapping_key) /\ tapping_key.pressed
      BY <1>10 DEF FirstTap, Undecided, Pressed
    <2>5. 1 \in 0..MaxCount
      BY KeymapAssumption
    <2>6. /\ tap \in Record /\ tap.key = tapping_key.key
          /\ tap.pressed = tapping_key.pressed /\ tap.interrupted \in BOOLEAN
      BY <1>2, <2>5, CountedType
    <2>1. /\ tap \in Record /\ IsEvent(tap) /\ ~IsReleased(tap)
      BY <2>0, <2>6 DEF IsEvent, IsReleased
    <2>7. rel \in Record /\ rel.key = r.key
      <3>. HIDE DEF tap
      <3>. QED BY <1>1, <2>5, <2>6, MarkedType
    <2>4. rel \in Record /\ (IsEvent(r) => IsEvent(rel))
      BY <2>7 DEF IsEvent
    <2>2. process_record(hid, tap) \in Downstream
      BY <1>2, <2>1, ProcessRecordType
    <2>3. NotProcessed(rel, tap, process_record(hid, tap))
      BY <1>10 DEF FirstTap
    <2>. HIDE DEF tap, rel
    <2>. QED BY <1>0, <1>1, <1>10, <2>1, <2>2, <2>3, <2>4, NotProcessedInv
  <1>11. ASSUME IsEvent(tapping_key), SettleAsHold(r)
         PROVE  IInv'
    BY <1>0, <1>1, <1>4, <1>11, NoRecordType, NotProcessedInv DEF SettleAsHold, IsReleased
  <1>12. CASE NestedTap(r)
    BY <1>11, <1>12 DEF NestedTap, OtherKey, Undecided, Pressed
  <1>13. CASE RetainEarlierRelease(r)
    BY <1>0, <1>1, <1>2, <1>13, NotProcessedInv
       DEF RetainEarlierRelease, EarlierKey, OtherKey, Undecided, Pressed, IsReleased
  <1>14. CASE ProcessEarlierRelease(r)
    BY <1>3, <1>5, <1>14 DEF ProcessEarlierRelease, EarlierKey, OtherKey
  <1>15. CASE NestedRelease(r)
    BY <1>0, <1>1, <1>2, <1>15, NotProcessedInv
       DEF NestedRelease, OtherKey, Undecided, Pressed, IsReleased
  <1>16. CASE Interrupt(r)
    <2>. DEFINE tk == [tapping_key EXCEPT !.interrupted = TRUE]
    <2>1. tk \in Record /\ IsEvent(tk) /\ ~IsReleased(tk)
      BY <1>2, <1>16
         DEF Interrupt, OtherKey, Undecided, Pressed, Record, IsEvent, IsReleased
    <2>2. process_record(hid, tk) \in Downstream
      BY <1>2, <2>1, ProcessRecordType
    <2>3. NotProcessed(r, NoRecord, process_record(hid, tk)) \/ NotProcessed(r, tk, hid)
      BY <1>16 DEF Interrupt
    <2>. HIDE DEF tk
    <2>. QED BY <1>0, <1>1, <1>2, <2>1, <2>2, <2>3, NoRecordType, NotProcessedInv
             DEF IsReleased
  <1>17. CASE HoldTimeout(r)
    BY <1>11, <1>17 DEF HoldTimeout, Undecided, Pressed
  <1>18. CASE TappedTick(r)
    BY <1>2, <1>5, <1>18 DEF TappedTick
  <1>19. CASE TapRelease(r)
    <2>. DEFINE rel == [r EXCEPT !.count = tapping_key.count,
                                 !.interrupted = tapping_key.interrupted]
    <2>1. rel \in Record /\ IsEvent(rel) /\ rel.count > 0
      BY <1>1, <1>2, <1>19
         DEF TapRelease, Tapped, Pressed, IS_TAPPING_RECORD, Record, IsEvent
    <2>2. process_record(hid, rel) \in Downstream
      BY <1>2, <2>1, ProcessRecordType
    <2>3. \/ Processed(rel, waiting_buffer, process_record(hid, rel))
          \/ Processed(NoRecord, waiting_buffer, process_record(hid, rel))
      BY <1>19 DEF TapRelease
    <2>. HIDE DEF rel
    <2>. QED BY <1>0, <1>2, <2>1, <2>2, <2>3, NoRecordType, ProcessedInv DEF IsReleased
  <1>20. CASE NewTapWhileTapped(r)
    <2>. DEFINE rel == [tapping_key EXCEPT !.pressed = FALSE, !.time = r.time]
    <2>1. rel \in Record /\ IsEvent(rel)
      BY <1>1, <1>2, <1>20 DEF NewTapWhileTapped, Tapped, Pressed, Record, IsEvent
    <2>2. process_record(hid, rel) \in Downstream
      BY <1>2, <2>1, ProcessRecordType
    <2>3. StartTapping(r, process_record(hid, rel)) \/ StartTapping(r, hid)
      BY <1>20 DEF NewTapWhileTapped
    <2>. HIDE DEF rel
    <2>. QED BY <1>0, <1>1, <1>2, <1>20, <2>2, <2>3, StartTappingInv
             DEF NewTapWhileTapped, is_tap_record
  <1>21. CASE OtherWhileTapped(r)
    BY <1>3, <1>5, <1>21 DEF OtherWhileTapped
  <1>22. CASE ReleasedTick(r)
    BY <1>2, <1>5, <1>22 DEF ReleasedTick
  <1>23. CASE SequentialTap(r)
    <2>. DEFINE n   == IF tapping_key.count < MaxCount THEN tapping_key.count + 1
                                                       ELSE MaxCount
                tap == [r EXCEPT !.count = n, !.interrupted = tapping_key.interrupted]
    <2>0. n \in 0..MaxCount
      BY <1>2, KeymapAssumption DEF Record
    <2>1. tap \in Record /\ IsEvent(tap) /\ ~IsReleased(tap)
      BY <1>1, <1>2, <1>23, <2>0
         DEF SequentialTap, ReleasedWithin, Record, IsEvent, IsReleased
    <2>2. process_record(hid, tap) \in Downstream
      BY <1>2, <2>1, ProcessRecordType
    <2>3. Processed(tap, waiting_buffer, process_record(hid, tap))
      BY <1>23 DEF SequentialTap
    <2>. HIDE DEF tap
    <2>. QED BY <1>0, <1>2, <2>1, <2>2, <2>3, ProcessedInv
  <1>24. CASE RestartTapping(r)
    BY <1>0, <1>1, <1>2, <1>24, ProcessedInv DEF RestartTapping, IsReleased
  <1>25. CASE OtherTapKeyAfterTap(r)
    BY <1>0, <1>1, <1>2, <1>25, StartTappingInv
       DEF OtherTapKeyAfterTap, ReleasedWithin
  <1>26. CASE OtherKeyAfterTap(r)
    <2>. DEFINE tk == [tapping_key EXCEPT !.interrupted = TRUE]
    <2>1. tk \in Record /\ (IsReleased(tk) => tk.count > 0)
      BY <1>2 DEF Record, IsReleased, IsEvent
    <2>2. Processed(tk, waiting_buffer, process_record(hid, r)) /\ IsEvent(r)
      BY <1>26 DEF OtherKeyAfterTap, ReleasedWithin
    <2>. HIDE DEF tk
    <2>. QED BY <1>0, <1>2, <1>3, <2>1, <2>2, ProcessedInv
  <1>27. CASE ReleaseAfterTap(r)
    BY <1>3, <1>5, <1>27 DEF ReleaseAfterTap, ReleasedWithin
  <1>28. CASE ReleasedTimeout(r)
    BY <1>0, <1>1, <1>2, <1>28, NoRecordType, NotProcessedInv
       DEF ReleasedTimeout, IsReleased
  <1>. QED
    BY <1>6, <1>7, <1>8, <1>9, <1>10, <1>12, <1>13, <1>14, <1>15, <1>16, <1>17, <1>18,
       <1>19, <1>20, <1>21, <1>22, <1>23, <1>24, <1>25, <1>26, <1>27, <1>28
    DEF process_tapping, r

-----------------------------------------------------------------------------
(* The inductive invariant holds in every reachable state.                   *)
THEOREM Invariance == Spec => []IInv
  <1>1. Init => IInv
    <2>1. ASSUME Init PROVE TypeOK
      <3>1. 0 \in Time
        BY KeymapAssumption DEF Time
      <3>. QED BY <2>1, <3>1, NoRecordType, InitDownstreamType, TappingAssumption
               DEF Init, TypeOK
    <2>. QED BY <2>1, NoRecordType DEF Init, IInv, ReleasedMeansTapped,
                                       TappingKeyReleased, NothingWaitsAfterTap
  <1>2. IInv /\ [Next]_vars => IInv'
    <2>1. ASSUME IInv, UNCHANGED vars PROVE IInv'
      BY <2>1 DEF vars, IInv, TypeOK, ReleasedMeansTapped, TappingKeyReleased,
                  NothingWaitsAfterTap
    <2>. QED BY <2>1, ScanInv, HandOnInv, ProcessTappingInv, DrainedInv DEF Next
  <1>. QED BY <1>1, <1>2, PTL DEF Spec

(* Every variable keeps its type, and the ring never uses its last slot.     *)
THEOREM TypeCorrectness == Spec => []TypeOK
  BY Invariance, PTL DEF IInv

(* A tapping key that is up has been tapped: the "invalid state" that        *)
(* waiting_buffer_scan_tap() guards against is unreachable.                  *)
THEOREM NoInvalidState == Spec => []ReleasedMeansTapped
  BY Invariance, PTL DEF IInv

(* An event that arrives while the last tapping key is up finds the waiting  *)
(* buffer empty, as process_tapping() supposes when it handles it at once.   *)
THEOREM NoneInBuffer == Spec => []NothingWaitsAfterTap
  BY Invariance, PTL DEF IInv

-----------------------------------------------------------------------------
(* The keys with a tap action on some layer.                                 *)
TapKey(k) == \E l \in Layer : is_tap_action(Keymap[l][k])

(* Hold on other key press.  When every tap key is in the mode of            *)
(* docs/tap_hold.md:125, a press always settles the key that is undecided:   *)
(* process_tapping() at action_tapping.c:290.  A firmware built with         *)
(* HOLD_ON_OTHER_KEY_PRESS and without the per-key function is such a        *)
(* configuration.                                                            *)
TapKeysHold == \A k \in Key : TapKey(k) => k \in HOLD_ON_OTHER_KEY_PRESS

(* The default mode of docs/tap_hold.md:121 for a keymap with one tap key.   *)
OneTapKey ==
    \E k \in Key :
        /\ k \notin PERMISSIVE_HOLD \cup HOLD_ON_OTHER_KEY_PRESS
        /\ \A j \in Key : TapKey(j) => j = k

(* In both, no press of a tap key ever waits behind an undecided key.        *)
DecidedAlone == TapKeysHold \/ OneTapKey

(* The tapping key is one of the tap keys.                                   *)
OfTapKey == IsEvent(tapping_key) => TapKey(tapping_key.key)

(* The press of a tap key waits only while the buffer is drained, with no    *)
(* key to decide, and nothing came after it.                                 *)
PressIsLast ==
    \A i \in DOMAIN waiting_buffer :
        waiting_buffer[i].pressed /\ TapKey(waiting_buffer[i].key) =>
            /\ pc = "drain" /\ i = Len(waiting_buffer) /\ ~IsEvent(tapping_key)
            /\ waiting_buffer[i].key \in matrix

(* No press at all waits behind a key that a press settles.                  *)
NoPressBehindHold ==
    TappingKeyUndecided /\ tapping_key.key \in HOLD_ON_OTHER_KEY_PRESS =>
        \A i \in DOMAIN waiting_buffer : ~waiting_buffer[i].pressed

(* Between two calls of action_tapping_process(), events wait only for a     *)
(* decision.                                                                 *)
OnlyUndecidedWaits ==
    pc \in {"scan", "event"} /\ waiting_buffer # <<>> => TappingKeyUndecided

(* What waits is about another key, and came within the term.                *)
BehindUndecided ==
    TappingKeyUndecided => \A i \in DOMAIN waiting_buffer :
        /\ waiting_buffer[i].key # tapping_key.key
        /\ Within(waiting_buffer[i], tapping_key, TAPPING_TERM)

(* Once the key is tapped, its release is the last event to be drained.      *)
BehindTapped ==
    pc = "drain" /\ IsEvent(tapping_key) /\ tapping_key.pressed /\ tapping_key.count > 0 =>
        \A i \in DOMAIN waiting_buffer :
            waiting_buffer[i].key = tapping_key.key <=> i = Len(waiting_buffer)

(* A press that is handed on is of a key that is down, and so is the         *)
(* undecided key unless its release is the event that has just arrived.      *)
StillDown ==
    /\ pc = "event" /\ event.pressed => event.key \in matrix
    /\ TappingKeyUndecided =>
          IF pc = "event" /\ event.key = tapping_key.key THEN ~event.pressed
                                                         ELSE tapping_key.key \in matrix

(* Nothing is left to drain when the tapping key has been released.          *)
NoneAfterTap == pc = "drain" /\ TappingKeyReleased => waiting_buffer = <<>>

(* An event is handed on at the time of its scan.                            *)
EventIsNow == pc = "event" => event.time = now

(* The invariant of these modes.  It is inductive together with IInv.        *)
ModeInv ==
    /\ OfTapKey /\ PressIsLast /\ NoPressBehindHold /\ OnlyUndecidedWaits
    /\ BehindUndecided /\ BehindTapped /\ StillDown /\ NoneAfterTap /\ EventIsNow

(* The record tk would be an undecided tapping key.                          *)
UndecidedKey(tk) == IsEvent(tk) /\ tk.pressed /\ tk.count = 0

(* A tap record is of a tap key.                                             *)
LEMMA RecordOfTapKey ==
    ASSUME NEW d \in Downstream, NEW r \in Record, is_tap_record(d, r)
    PROVE  TapKey(r.key) /\ IsEvent(r)
  <1>1. IsEvent(r) /\ r.key \in Key
    BY DEF is_tap_record, IsEvent, Record
  <1>2. layer_switch_get_layer(d, r.key) \in Layer
    BY <1>1, LayerType
  <1>. QED BY <1>1, <1>2 DEF is_tap_record, layer_switch_get_action, TapKey

(* A key that a press of another key does not settle is the only tap key,    *)
(* and a nested tap does not settle it either.                               *)
LEMMA OnlyTapKey ==
    ASSUME DecidedAlone, NEW k \in Key, TapKey(k), k \notin HOLD_ON_OTHER_KEY_PRESS
    PROVE  k \notin PERMISSIVE_HOLD /\ \A j \in Key : TapKey(j) => j = k
  BY DEF DecidedAlone, TapKeysHold, OneTapKey

(* What is left of the buffer when its head is gone.                         *)
LEMMA TailIs ==
    ASSUME NEW s \in Seq(Record), s # <<>>
    PROVE  /\ Len(s) \in Nat /\ Len(s) >= 1 /\ DOMAIN s = 1..Len(s) /\ Head(s) = s[1]
           /\ Len(Tail(s)) = Len(s) - 1 /\ DOMAIN Tail(s) = 1..(Len(s) - 1)
           /\ \A i \in 1..(Len(s) - 1) : Tail(s)[i] = s[i + 1] /\ i + 1 \in 1..Len(s)
           /\ Len(s) = 1 => Tail(s) = <<>>
  <1>1. Len(s) \in Nat /\ Len(s) >= 1 /\ DOMAIN s = 1..Len(s)
    OBVIOUS
  <1>2. Len(Tail(s)) = Len(s) - 1 /\ DOMAIN Tail(s) = 1..(Len(s) - 1) /\ Tail(s) \in Seq(Record)
    BY <1>1
  <1>3. \A i \in 1..(Len(s) - 1) : Tail(s)[i] = s[i + 1] /\ i + 1 \in 1..Len(s)
    BY <1>1
  <1>4. Len(s) = 1 => Tail(s) = <<>>
    BY <1>2
  <1>. QED BY <1>1, <1>2, <1>3, <1>4

(* The event is done with and what waits is empty.                           *)
LEMMA NothingLeft ==
    ASSUME ModeInv, NEW tk \in Record, NEW d, Processed(tk, waiting_buffer, d),
           waiting_buffer' = <<>>,
           IsEvent(tk) => TapKey(tk.key),
           UndecidedKey(tk) => tk.key \in matrix
    PROVE  ModeInv'
  <1>1. /\ tapping_key' = tk /\ pc' = "drain" /\ event' = NoRecord /\ matrix' = matrix
        /\ DOMAIN waiting_buffer' = {}
    BY DEF Processed, scanVars
  <1>2. /\ OfTapKey' /\ PressIsLast' /\ NoPressBehindHold' /\ OnlyUndecidedWaits'
        /\ NoneAfterTap' /\ EventIsNow'
    BY <1>1 DEF OfTapKey, PressIsLast, NoPressBehindHold, OnlyUndecidedWaits, NoneAfterTap,
                EventIsNow
  <1>3. BehindUndecided' /\ BehindTapped'
    BY <1>1 DEF BehindUndecided, BehindTapped
  <1>4. StillDown'
    BY <1>1 DEF StillDown, TappingKeyUndecided, UndecidedKey
  <1>. QED BY <1>2, <1>3, <1>4 DEF ModeInv

(* The event is done with and the tapping key, if any, stays as it is.       *)
LEMMA TappingKeyStays ==
    ASSUME IInv, ModeInv, Running, NEW tk \in Record, NEW d, Processed(tk, waiting_buffer, d),
           tk.key = tapping_key.key, tk.pressed = tapping_key.pressed,
           tk.count = tapping_key.count, tk.time = tapping_key.time,
           UndecidedKey(tk) => Current.key # tk.key
    PROVE  ModeInv'
  <1>1. /\ tapping_key' = tk /\ pc' = "drain" /\ event' = NoRecord /\ matrix' = matrix
        /\ waiting_buffer' = IF pc = "event" THEN waiting_buffer ELSE Tail(waiting_buffer)
        /\ waiting_buffer \in Seq(Record)
        /\ IsEvent(tk) <=> IsEvent(tapping_key)
    BY DEF Processed, scanVars, IInv, TypeOK, IsEvent
  <1>. DEFINE n == Len(waiting_buffer)
  <1>2. n \in Nat /\ DOMAIN waiting_buffer = 1..n
    BY <1>1
  <1>3. ASSUME NEW i \in DOMAIN waiting_buffer'
        PROVE  \E j \in DOMAIN waiting_buffer :
                  /\ waiting_buffer'[i] = waiting_buffer[j]
                  /\ i = Len(waiting_buffer') <=> j = n
    <2>1. CASE pc = "event"
      BY <1>1, <2>1
    <2>2. CASE pc # "event"
      <3>1. waiting_buffer # <<>> /\ waiting_buffer' = Tail(waiting_buffer)
        BY <1>1, <2>2 DEF Running
      <3>2. /\ i \in 1..(n - 1) /\ Len(waiting_buffer') = n - 1
            /\ waiting_buffer'[i] = waiting_buffer[i + 1] /\ i + 1 \in DOMAIN waiting_buffer
        BY <1>1, <1>2, <1>3, <3>1, TailIs
      <3>3. i = n - 1 <=> i + 1 = n
        BY <1>2, <3>2
      <3>. HIDE DEF n
      <3>. QED BY <3>2, <3>3
    <2>. QED BY <2>1, <2>2
  <1>. HIDE DEF n
  <1>4. pc = "event" /\ waiting_buffer # <<>> => TappingKeyUndecided
    BY DEF ModeInv, OnlyUndecidedWaits
  <1>5. OfTapKey' /\ EventIsNow'
    BY <1>1 DEF ModeInv, OfTapKey, EventIsNow
  <1>6. PressIsLast'
    <2>1. ASSUME NEW i \in DOMAIN waiting_buffer', waiting_buffer'[i].pressed,
                 TapKey(waiting_buffer'[i].key)
          PROVE  /\ pc = "drain" /\ i = Len(waiting_buffer') /\ ~IsEvent(tapping_key)
                 /\ waiting_buffer'[i].key \in matrix
      BY <1>3, <2>1 DEF ModeInv, PressIsLast, n
    <2>. QED BY <1>1, <2>1 DEF PressIsLast
  <1>7. OnlyUndecidedWaits'
    BY <1>1 DEF OnlyUndecidedWaits
  <1>8. TappingKeyUndecided' => TappingKeyUndecided
    BY <1>1 DEF TappingKeyUndecided
  <1>9. BehindUndecided' /\ NoPressBehindHold'
    <2>1. ASSUME NEW i \in DOMAIN waiting_buffer', TappingKeyUndecided
          PROVE  /\ waiting_buffer'[i].key # tapping_key.key
                 /\ Within(waiting_buffer'[i], tapping_key, TAPPING_TERM)
                 /\ tapping_key.key \in HOLD_ON_OTHER_KEY_PRESS => ~waiting_buffer'[i].pressed
      BY <1>3, <2>1 DEF ModeInv, BehindUndecided, NoPressBehindHold
    <2>. QED BY <1>1, <1>8, <2>1 DEF BehindUndecided, NoPressBehindHold, Within
  <1>10. BehindTapped'
    <2>1. SUFFICES ASSUME IsEvent(tapping_key), tapping_key.pressed, tapping_key.count > 0,
                          NEW i \in DOMAIN waiting_buffer'
                   PROVE  waiting_buffer'[i].key = tapping_key.key <=> i = Len(waiting_buffer')
      BY <1>1 DEF BehindTapped
    <2>2. ~TappingKeyUndecided
      BY <2>1 DEF TappingKeyUndecided
    <2>3. pc = "event" => waiting_buffer' = <<>>
      BY <1>1, <1>4, <2>2
    <2>4. pc = "drain"
      BY <2>1, <2>3 DEF Running
    <2>. QED BY <1>3, <2>1, <2>4 DEF ModeInv, BehindTapped, n
  <1>11. StillDown'
    <2>1. TappingKeyUndecided => tapping_key.key \in matrix
      <3>. SUFFICES ASSUME TappingKeyUndecided PROVE tapping_key.key \in matrix
        OBVIOUS
      <3>1. Current.key # tapping_key.key
        BY DEF TappingKeyUndecided, UndecidedKey, IsEvent
      <3>. QED BY <3>1 DEF ModeInv, StillDown, Current
    <2>. QED BY <1>1, <1>8, <2>1 DEF StillDown
  <1>12. NoneAfterTap'
    <2>1. SUFFICES ASSUME TappingKeyReleased PROVE waiting_buffer' = <<>>
      BY <1>1 DEF NoneAfterTap, TappingKeyReleased
    <2>2. ~TappingKeyUndecided
      BY <2>1 DEF TappingKeyUndecided, TappingKeyReleased
    <2>3. pc = "event"
      BY <2>1 DEF ModeInv, NoneAfterTap, Running
    <2>. QED BY <1>1, <1>4, <2>2, <2>3
  <1>. QED BY <1>5, <1>6, <1>7, <1>9, <1>10, <1>11, <1>12 DEF ModeInv

(* The press of a tap key that is looked at finds nothing behind it, unless  *)
(* a key is undecided.                                                       *)
LEMMA PressAlone ==
    ASSUME IInv, ModeInv, Running, ~TappingKeyUndecided,
           \/ Current.pressed /\ TapKey(Current.key)
           \/ IsEvent(tapping_key) /\ Current.key = tapping_key.key
    PROVE  /\ pc = "event" => waiting_buffer = <<>>
           /\ pc = "drain" => waiting_buffer # <<>> /\ Tail(waiting_buffer) = <<>>
           /\ Current.pressed => Current.key \in matrix
  <1>1. waiting_buffer \in Seq(Record)
    BY DEF IInv, TypeOK
  <1>2. CASE pc = "event"
    BY <1>2 DEF ModeInv, OnlyUndecidedWaits, StillDown, Current
  <1>3. CASE pc = "drain"
    <2>1. waiting_buffer # <<>> /\ Current = waiting_buffer[1] /\ 1 \in DOMAIN waiting_buffer
      BY <1>1, <1>3, TailIs DEF Running, Current
    <2>2. CASE Current.pressed /\ TapKey(Current.key)
      <3>1. 1 = Len(waiting_buffer) /\ Current.key \in matrix
        BY <2>1, <2>2 DEF ModeInv, PressIsLast
      <3>. QED BY <1>1, <1>3, <2>1, <3>1, TailIs
    <2>3. CASE ~(Current.pressed /\ TapKey(Current.key))
      <3>1. IsEvent(tapping_key) /\ Current.key = tapping_key.key /\ ~Current.pressed
        BY <2>3 DEF ModeInv, OfTapKey
      <3>2. tapping_key.pressed
        BY <1>3, <2>1, <3>1 DEF ModeInv, NoneAfterTap, TappingKeyReleased
      <3>3. tapping_key.count > 0
        BY <3>1, <3>2 DEF TappingKeyUndecided, IInv, TypeOK, Record
      <3>4. 1 = Len(waiting_buffer)
        BY <1>3, <2>1, <3>1, <3>2, <3>3 DEF ModeInv, BehindTapped
      <3>. QED BY <1>1, <1>3, <2>1, <3>1, <3>4, TailIs
    <2>. QED BY <2>2, <2>3
  <1>. QED BY <1>2, <1>3 DEF Running

(* A new tapping key never finds its own release in the buffer: in this mode *)
(* waiting_buffer_scan_tap() has nothing to settle.                          *)
LEMMA StartsAlone ==
    ASSUME IInv, ModeInv, Running, ~TappingKeyUndecided, Current.pressed,
           TapKey(Current.key), NEW d, StartTapping(Current, d)
    PROVE  Processed(Current, waiting_buffer, d)
  <1>1. TapReleases(Current) = {}
    <2>1. SUFFICES ASSUME NEW i \in TapReleases(Current) PROVE FALSE
      OBVIOUS
    <2>2. i \in DOMAIN waiting_buffer /\ ~waiting_buffer[i].pressed
      BY DEF TapReleases
    <2>3. waiting_buffer \in Seq(Record)
      BY DEF IInv, TypeOK
    <2>4. pc = "drain" /\ waiting_buffer # <<>>
      BY <2>2, PressAlone DEF Running
    <2>5. Current = waiting_buffer[1] /\ DOMAIN waiting_buffer = 1..Len(waiting_buffer)
          /\ 1 \in DOMAIN waiting_buffer
      BY <2>3, <2>4, TailIs DEF Current
    <2>6. 1 = Len(waiting_buffer)
      BY <2>5 DEF ModeInv, PressIsLast
    <2>7. i = 1
      <3>1. DOMAIN waiting_buffer = 1..1
        BY <2>5, <2>6
      <3>2. i \in 1..1
        BY <2>2, <3>1
      <3>. QED BY <3>2
    <2>. QED BY <2>2, <2>5, <2>7
  <1>. QED BY <1>1 DEF StartTapping

(* The record that is looked at becomes the tapping key.                     *)
LEMMA NewTappingKey ==
    ASSUME IInv, ModeInv, Running, ~TappingKeyUndecided, Current.pressed,
           NEW tk \in Record, tk.key = Current.key, NEW d, Processed(tk, waiting_buffer, d),
           TapKey(tk.key)
    PROVE  ModeInv'
  <1>1. waiting_buffer' = <<>> /\ tk.key \in matrix
    BY PressAlone DEF Processed, Running
  <1>. QED BY <1>1, NothingLeft

(* An event goes to the end of the buffer.                                   *)
LEMMA AppendIs ==
    ASSUME NEW s \in Seq(Record), NEW e \in Record
    PROVE  /\ Len(s) \in Nat /\ Len(Append(s, e)) = Len(s) + 1
           /\ DOMAIN s = 1..Len(s) /\ DOMAIN Append(s, e) = 1..(Len(s) + 1)
           /\ \A i \in DOMAIN s : Append(s, e)[i] = s[i] /\ i # Len(s) + 1
           /\ Append(s, e)[Len(s) + 1] = e
  OBVIOUS

(* The buffer has overflowed.                                                *)
LEMMA NothingLeftAtAll ==
    ASSUME ModeInv, NEW r, NEW d, Overflow(r, d)
    PROVE  ModeInv'
  <1>1. /\ tapping_key' = NoRecord /\ pc' = "drain" /\ event' = NoRecord /\ matrix' = matrix
        /\ waiting_buffer' = <<>> /\ ~IsEvent(NoRecord)
    BY NoRecordType DEF Overflow, scanVars
  <1>. QED BY <1>1 DEF ModeInv, OfTapKey, PressIsLast, NoPressBehindHold, OnlyUndecidedWaits,
                       BehindUndecided, BehindTapped, StillDown, NoneAfterTap, EventIsNow,
                       TappingKeyUndecided, TappingKeyReleased

(* The event waits and no key is undecided: the tapping key was settled as a *)
(* hold, or its term after the tap has passed.                               *)
LEMMA WaitsForNone ==
    ASSUME IInv, ModeInv, pc = "event", NEW d, NotProcessed(event, NoRecord, d)
    PROVE  ModeInv'
  <1>1. ASSUME Enqueued(event, NoRecord, d) PROVE ModeInv'
    <2>1. /\ tapping_key' = NoRecord /\ pc' = "drain" /\ event' = NoRecord /\ matrix' = matrix
          /\ ~IsEvent(NoRecord) /\ waiting_buffer \in Seq(Record) /\ event \in Record
          /\ waiting_buffer' = IF IsEvent(event) THEN Append(waiting_buffer, event)
                                                 ELSE waiting_buffer
      BY <1>1, NoRecordType DEF Enqueued, scanVars, IInv, TypeOK
    <2>2. PressIsLast'
      <3>1. SUFFICES ASSUME NEW i \in DOMAIN waiting_buffer', waiting_buffer'[i].pressed,
                            TapKey(waiting_buffer'[i].key)
                     PROVE  i = Len(waiting_buffer') /\ waiting_buffer'[i].key \in matrix
        BY <2>1 DEF PressIsLast
      <3>2. ASSUME i \in DOMAIN waiting_buffer, waiting_buffer'[i] = waiting_buffer[i] PROVE FALSE
        BY <3>1, <3>2 DEF ModeInv, PressIsLast
      <3>3. waiting_buffer' = Append(waiting_buffer, event) /\ i = Len(waiting_buffer) + 1
        BY <2>1, <3>1, <3>2, AppendIs
      <3>. QED BY <2>1, <3>1, <3>3, AppendIs DEF ModeInv, StillDown
    <2>. QED BY <2>1, <2>2 DEF ModeInv, OfTapKey, NoPressBehindHold, OnlyUndecidedWaits,
                               BehindUndecided, BehindTapped, StillDown, NoneAfterTap,
                               EventIsNow, TappingKeyUndecided, TappingKeyReleased
  <1>2. ~StopDraining(event, NoRecord, d)
    BY DEF StopDraining
  <1>. QED BY <1>1, <1>2, NothingLeftAtAll DEF NotProcessed

(* The release of the tapping key within its term.                           *)
LEMMA WaitsForTap ==
    ASSUME IInv, ModeInv, TappingKeyUndecided, pc = "event",
           NEW tk \in Record, tk.key = tapping_key.key, tk.pressed, tk.count > 0,
           NEW rel \in Record, rel.key = tk.key, ~rel.pressed,
           NEW d, NotProcessed(rel, tk, d)
    PROVE  ModeInv'
  <1>1. ASSUME Enqueued(rel, tk, d) PROVE ModeInv'
    <2>1. /\ tapping_key' = tk /\ pc' = "drain" /\ event' = NoRecord /\ matrix' = matrix
          /\ waiting_buffer \in Seq(Record) /\ IsEvent(tk) /\ tk.count # 0
          /\ waiting_buffer' = Append(waiting_buffer, rel)
      BY <1>1 DEF Enqueued, scanVars, IInv, TypeOK, IsEvent, TappingKeyUndecided, Record
    <2>2. PressIsLast' /\ BehindTapped'
      <3>1. ASSUME NEW i \in DOMAIN waiting_buffer'
            PROVE  /\ ~(waiting_buffer'[i].pressed /\ TapKey(waiting_buffer'[i].key))
                   /\ waiting_buffer'[i].key = tk.key <=> i = Len(waiting_buffer')
        <4>1. CASE i \in DOMAIN waiting_buffer
          <5>1. waiting_buffer'[i] = waiting_buffer[i] /\ i # Len(waiting_buffer')
            BY <2>1, <4>1, AppendIs
          <5>2. /\ ~(waiting_buffer[i].pressed /\ TapKey(waiting_buffer[i].key))
                /\ waiting_buffer[i].key # tk.key
            BY <4>1 DEF ModeInv, PressIsLast, BehindUndecided
          <5>. QED BY <5>1, <5>2
        <4>2. CASE i \notin DOMAIN waiting_buffer
          BY <2>1, <3>1, <4>2, AppendIs
        <4>. QED BY <4>1, <4>2
      <3>. QED BY <2>1, <3>1 DEF PressIsLast, BehindTapped
    <2>3. OfTapKey'
      BY <2>1 DEF ModeInv, OfTapKey, TappingKeyUndecided, IsEvent
    <2>. QED BY <2>1, <2>2, <2>3
             DEF ModeInv, NoPressBehindHold, OnlyUndecidedWaits, BehindUndecided, StillDown,
                 NoneAfterTap, EventIsNow, TappingKeyUndecided, TappingKeyReleased
  <1>2. ~StopDraining(rel, tk, d)
    BY DEF StopDraining
  <1>. QED BY <1>1, <1>2, NothingLeftAtAll DEF NotProcessed

(* The event of another key, which waits for the decision.                   *)
LEMMA WaitsForDecision ==
    ASSUME DecidedAlone, IInv, ModeInv, TappingKeyUndecided, Running, Current \in Record,
           IsEvent(Current), Current.key # tapping_key.key,
           Current.pressed => tapping_key.key \notin HOLD_ON_OTHER_KEY_PRESS,
           Within(Current, tapping_key, TAPPING_TERM),
           NEW left \in Record, left.key = tapping_key.key, left.time = tapping_key.time,
           left.pressed = tapping_key.pressed, left.count = tapping_key.count,
           NotProcessed(Current, left, hid)
    PROVE  ModeInv'
  <1>0. /\ waiting_buffer \in Seq(Record) /\ tapping_key.count = 0 /\ ~TappingKeyReleased
        /\ TapKey(tapping_key.key) /\ tapping_key.key \in Key /\ Current.key \in Key
        /\ IsEvent(left) <=> IsEvent(tapping_key)
    BY DEF ModeInv, OfTapKey, IInv, TypeOK, TappingKeyUndecided, TappingKeyReleased, IsEvent, Record
  <1>1. tapping_key.key \in matrix
    BY DEF ModeInv, StillDown, Current
  <1>2. Current.pressed => ~TapKey(Current.key)
    BY <1>0, OnlyTapKey
  <1>3. ASSUME NEW b \in Seq(Record), waiting_buffer' = b, tapping_key' = left,
               matrix' = matrix, event' = NoRecord, pc' = "drain" \/ pc' = "scan",
               \A i \in DOMAIN b :
                  b[i] = Current \/ \E j \in DOMAIN waiting_buffer : b[i] = waiting_buffer[j]
        PROVE  ModeInv'
    <2>1. ASSUME NEW i \in DOMAIN b
          PROVE  /\ ~(b[i].pressed /\ TapKey(b[i].key)) /\ b[i].key # tapping_key.key
                 /\ Within(b[i], tapping_key, TAPPING_TERM)
                 /\ tapping_key.key \in HOLD_ON_OTHER_KEY_PRESS => ~b[i].pressed
      BY <1>2, <1>3, <2>1
         DEF ModeInv, PressIsLast, BehindUndecided, NoPressBehindHold, TappingKeyUndecided
    <2>2. TappingKeyUndecided'
      BY <1>0, <1>3 DEF TappingKeyUndecided
    <2>3. OfTapKey' /\ PressIsLast' /\ NoPressBehindHold' /\ OnlyUndecidedWaits'
          /\ BehindUndecided'
      BY <1>0, <1>3, <2>1, <2>2 DEF OfTapKey, PressIsLast, OnlyUndecidedWaits,
                              NoPressBehindHold, BehindUndecided, Within
    <2>4. BehindTapped' /\ StillDown' /\ NoneAfterTap' /\ EventIsNow'
      BY <1>0, <1>1, <1>3, <2>2 DEF BehindTapped, StillDown, NoneAfterTap, TappingKeyReleased,
                                    TappingKeyUndecided, EventIsNow
    <2>. QED BY <2>3, <2>4 DEF ModeInv
  <1>4. CASE Enqueued(Current, left, hid)
    <2>1. /\ waiting_buffer' = Append(waiting_buffer, Current) /\ tapping_key' = left
          /\ matrix' = matrix /\ event' = NoRecord /\ pc' = "drain"
      BY <1>4 DEF Enqueued, scanVars
    <2>2. \A i \in DOMAIN Append(waiting_buffer, Current) :
             \/ Append(waiting_buffer, Current)[i] = Current
             \/ \E j \in DOMAIN waiting_buffer :
                   Append(waiting_buffer, Current)[i] = waiting_buffer[j]
      BY <1>0, AppendIs
    <2>3. Append(waiting_buffer, Current) \in Seq(Record)
      BY <1>0
    <2>. QED BY <1>3, <2>1, <2>2, <2>3
  <1>5. CASE StopDraining(Current, left, hid)
    <2>1. /\ waiting_buffer' = [waiting_buffer EXCEPT ![1] = Current] /\ tapping_key' = left
          /\ matrix' = matrix /\ event' = NoRecord /\ pc' = "scan" /\ pc = "drain"
      BY <1>5 DEF StopDraining, scanVars
    <2>2. waiting_buffer' = waiting_buffer
      <3>1. waiting_buffer # <<>> /\ Current = waiting_buffer[1]
        BY <1>0, <2>1, TailIs DEF Running, Current
      <3>. QED BY <1>0, <2>1, <3>1
    <2>. QED BY <1>0, <1>3, <2>1, <2>2
  <1>. QED BY <1>4, <1>5, NothingLeftAtAll DEF NotProcessed

-----------------------------------------------------------------------------
(* process_record() marks the key of the record as sent, or as not sent, and *)
(* no other key.                                                             *)
LEMMA SentIs ==
    ASSUME NEW d \in Downstream, NEW r \in Record, IsEvent(r)
    PROVE  process_record(d, r).sent =
             IF r.pressed THEN d.sent \cup {r.key} ELSE d.sent \ {r.key}
  <1>. DEFINE l == store_or_get_layer(d, r)
              e == [d EXCEPT !.src[r.key] = l,
                             !.sent = IF r.pressed THEN @ \cup {r.key} ELSE @ \ {r.key}]
              a == Keymap[l][r.key]
  <1>1. r.key \in Key
    BY DEF IsEvent, Record
  <1>2. l \in Layer
    BY <1>1, LayerType DEF store_or_get_layer, Downstream
  <1>3. e \in Downstream /\ e.sent = IF r.pressed THEN d.sent \cup {r.key} ELSE d.sent \ {r.key}
    BY <1>1, <1>2 DEF Downstream
  <1>4. a \in Action
    BY <1>1, <1>2, ActionType
  <1>5. ASSUME NEW f \in Downstream, NEW b \in Action
        PROVE  /\ register_code(f, b.code).sent = f.sent /\ register_mods(f, b.mods).sent = f.sent
               /\ layer_on(f, b.layer).sent = f.sent /\ layer_invert(f, b.layer).sent = f.sent
               /\ [register_code(f, b.code) EXCEPT !.weak = @ \cup b.mods].sent = f.sent
               /\ unregister_code(f, b.code).sent = f.sent
               /\ unregister_mods(f, b.mods).sent = f.sent
               /\ layer_off(f, b.layer).sent = f.sent
               /\ [unregister_code(f, b.code) EXCEPT !.weak = @ \ b.mods].sent = f.sent
    BY DEF register_code, register_mods, layer_on, layer_off, layer_invert, unregister_code,
           unregister_mods, Downstream
  <1>. HIDE DEF e, a
  <1>6. Press(e, r, a).sent = e.sent /\ Release(e, r, a).sent = e.sent
    BY <1>3, <1>4, <1>5 DEF Press, Release
  <1>7. process_record(d, r) = process_action(e, r, a)
    BY DEF process_record, e, a
  <1>. QED BY <1>3, <1>6, <1>7 DEF process_action

(* What a step of process_tapping() does with the record r it looks at, in   *)
(* these modes.  A tick changes nothing ...                                  *)
Ignored(r) == pc = "event" /\ ~IsEvent(r) /\ Processed(tapping_key, waiting_buffer, hid)

(* ... an event is processed when no key is undecided; it leaves the tapping *)
(* key as it was or is the last event of that key ...                        *)
SameKey(tk) ==
    /\ tk.key = tapping_key.key /\ tk.pressed = tapping_key.pressed
    /\ tk.count = tapping_key.count /\ tk.time = tapping_key.time

LastOfKey(r, tk) ==
    /\ r.key = tapping_key.key
    /\ IsEvent(tk) => tk.key = tapping_key.key

(* The key k is down as a tap of the tapping key tk.                         *)
TapOf(tk, k) == tk.key = k /\ tk.pressed /\ tk.count > 0
TapDown(k)   == TapOf(tapping_key, k)

(* What is processed is the record as it came, and not the press of a tap    *)
(* key or the release of one that is down as a tap ...                       *)
AsItCame(r, c) ==
    c = r /\ IF r.pressed THEN ~is_tap_record(hid, r) ELSE ~TapDown(r.key)

(* ... or it counts as a tap.                                                *)
AsTap(tk, c) ==
    /\ c.count > 0
    /\ IF c.pressed THEN TapOf(tk, c.key) /\ tk.count > 1 ELSE TapDown(c.key) /\ ~tk.pressed

Handled(r) ==
    /\ IsEvent(r) /\ ~TappingKeyUndecided
    /\ \E tk \in Record : \E c \in Record :
          /\ ~UndecidedKey(tk)
          /\ (SameKey(tk) /\ AsItCame(r, c)) \/ (LastOfKey(r, tk) /\ AsTap(tk, c))
          /\ c.key = r.key /\ c.pressed = r.pressed
          /\ Processed(tk, waiting_buffer, process_record(hid, c))

(* ... the release of a key that was down before the tapping key is          *)
(* processed ahead of what waits ...                                         *)
EarlierReleased(r) ==
    /\ TappingKeyUndecided /\ IsEvent(r) /\ ~r.pressed /\ r.key # tapping_key.key
    /\ ~waiting_buffer_typed(r)
    /\ Processed(tapping_key, waiting_buffer, process_record(hid, r))

(* ... the press of a tap key makes it the tapping key, and may release the  *)
(* one that was held by a repeated tap ...                                   *)
TappedTwice == IsEvent(tapping_key) /\ tapping_key.pressed /\ tapping_key.count > 1

MadeUp(d) ==
    /\ IsEvent(tapping_key) /\ TapDown(tapping_key.key)
    /\ \E rel \in Record :
          /\ rel.key = tapping_key.key /\ ~rel.pressed /\ rel.count > 0
          /\ d = process_record(hid, rel)

Started(r) ==
    /\ IsEvent(r) /\ ~TappingKeyUndecided
    /\ r.pressed /\ TapKey(r.key)
    /\ \E d \in Downstream :
          /\ MadeUp(d) \/ (d = hid /\ ~TappedTwice)
          /\ Processed(r, waiting_buffer, d)

(* ... the undecided key is settled as a hold, by its mode or its term, and  *)
(* the event is kept for the next round, or as a tap, and the event is its   *)
(* release ...                                                               *)
Settled(r) ==
    /\ pc = "event" /\ TappingKeyUndecided
    /\ \E tk \in Record : \E left \in Record : \E q \in Record :
          /\ tk.key = tapping_key.key /\ tk.pressed /\ tk.count = left.count
          /\ q.key = r.key /\ q.pressed = r.pressed
          /\ \/ /\ q = r /\ left = NoRecord
                /\ \/ tapping_key.key \in HOLD_ON_OTHER_KEY_PRESS
                   \/ ~Within(r, tapping_key, TAPPING_TERM)
             \/ /\ ~q.pressed /\ q.key = tapping_key.key
                /\ left.key = tapping_key.key /\ left.pressed /\ left.count > 0
          /\ NotProcessed(q, left, process_record(hid, tk))

(* ... the event of another key waits for the decision, a press only if it   *)
(* does not make it ...                                                      *)
Kept(r) ==
    /\ TappingKeyUndecided /\ IsEvent(r) /\ r.key # tapping_key.key
    /\ r.pressed => tapping_key.key \notin HOLD_ON_OTHER_KEY_PRESS
    /\ Within(r, tapping_key, TAPPING_TERM)
    /\ \E left \in Record : SameKey(left) /\ NotProcessed(r, left, hid)

(* ... or the tapping key is forgotten, when its term has passed since its   *)
(* release.                                                                  *)
TimedOut(r) ==
    /\ pc = "event" /\ ~tapping_key.pressed /\ waiting_buffer = <<>>
    /\ NotProcessed(r, NoRecord, hid)

LEMMA HandledBy ==
    ASSUME NEW r \in Record, IsEvent(r), ~TappingKeyUndecided, NEW tk \in Record,
           NEW c \in Record, ~UndecidedKey(tk), c.key = r.key, c.pressed = r.pressed,
           (SameKey(tk) /\ AsItCame(r, c)) \/ (LastOfKey(r, tk) /\ AsTap(tk, c)),
           Processed(tk, waiting_buffer, process_record(hid, c))
    PROVE  Handled(r)
  BY Zenon DEF Handled

(* Every branch of process_tapping() is one of these.                        *)
LEMMA Outcomes ==
    ASSUME DecidedAlone, IInv, ModeInv, process_tapping
    PROVE  /\ Running
           /\ \/ Ignored(Current) \/ Handled(Current) \/ EarlierReleased(Current)
              \/ Started(Current) \/ Settled(Current) \/ Kept(Current) \/ TimedOut(Current)
  <1>. DEFINE r == Current
              Goal == \/ Ignored(r) \/ Handled(r) \/ EarlierReleased(r)
                      \/ Started(r) \/ Settled(r) \/ Kept(r) \/ TimedOut(r)
  <1>0. Running
    BY DEF process_tapping, ResetTick, ResetPressTapKey, ResetOther, UndecidedTick,
           FirstTap, NestedTap, RetainEarlierRelease, ProcessEarlierRelease,
           NestedRelease, Interrupt, HoldTimeout, TappedTick, TapRelease,
           NewTapWhileTapped, OtherWhileTapped, ReleasedTick, SequentialTap,
           RestartTapping, OtherTapKeyAfterTap, OtherKeyAfterTap, ReleaseAfterTap,
           ReleasedTimeout, EarlierKey, OtherKey, ReleasedWithin, Reset, Undecided,
           Tapped, Released, Pressed
  <1>1. r \in Record /\ (~IsEvent(r) => pc = "event")
    BY <1>0, CurrentType DEF IInv, Running
  <1>2. /\ tapping_key \in Record /\ waiting_buffer \in Seq(Record) /\ hid \in Downstream
        /\ IsReleased(tapping_key) => tapping_key.count > 0
        /\ tapping_key.count \in Nat /\ tapping_key.pressed \in BOOLEAN
        /\ r.pressed \in BOOLEAN
    BY <1>1, BranchFacts DEF Record
  <1>3. /\ Reset \/ Tapped \/ Released => ~TappingKeyUndecided
        /\ Undecided => TappingKeyUndecided
        /\ Reset \/ Released => ~UndecidedKey(tapping_key)
        /\ Tapped => ~UndecidedKey(tapping_key)
    BY <1>2 DEF Reset, Tapped, Released, Undecided, Pressed, TappingKeyUndecided, UndecidedKey
  <1>4. TappingKeyUndecided =>
          /\ IsEvent(tapping_key) /\ tapping_key.pressed /\ tapping_key.count = 0
          /\ \/ /\ tapping_key.key \in HOLD_ON_OTHER_KEY_PRESS
                /\ \A i \in DOMAIN waiting_buffer : ~waiting_buffer[i].pressed
             \/ /\ tapping_key.key \notin HOLD_ON_OTHER_KEY_PRESS
                /\ tapping_key.key \notin PERMISSIVE_HOLD
    <2>1. SUFFICES ASSUME TappingKeyUndecided, tapping_key.key \notin HOLD_ON_OTHER_KEY_PRESS
                   PROVE  tapping_key.key \notin PERMISSIVE_HOLD
      BY DEF ModeInv, NoPressBehindHold, TappingKeyUndecided
    <2>2. tapping_key.key \in Key /\ TapKey(tapping_key.key)
      BY <1>2, <2>1 DEF TappingKeyUndecided, IsEvent, Record, ModeInv, OfTapKey
    <2>. QED BY <2>1, <2>2, OnlyTapKey
  <1>5. pc = "drain" => r = waiting_buffer[1] /\ 1 \in DOMAIN waiting_buffer /\ waiting_buffer # <<>>
    BY <1>0, <1>2, TailIs DEF Running, Current
  <1>6. TappingKeyUndecided /\ ~r.pressed /\ waiting_buffer_typed(r) =>
           /\ tapping_key.key \notin HOLD_ON_OTHER_KEY_PRESS
           /\ tapping_key.key \notin PERMISSIVE_HOLD
    <2>1. \A q \in Record : q.pressed \in BOOLEAN
      BY DEF Record
    <2>2. \A i \in DOMAIN waiting_buffer : waiting_buffer[i] \in Record
      BY <1>2
    <2>. QED BY <1>2, <1>4, <2>1, <2>2 DEF waiting_buffer_typed
  <1>. HIDE DEF r
  <1>7. ASSUME ~TappingKeyUndecided, r.pressed, TapKey(r.key), NEW d, StartTapping(r, d)
        PROVE  Processed(r, waiting_buffer, d)
    BY <1>0, <1>7, StartsAlone DEF r
  <1>. SUFFICES Goal
    BY <1>0 DEF r
  <1>8. CASE ResetTick(r) \/ UndecidedTick(r) \/ TappedTick(r) \/ ReleasedTick(r)
    BY <1>1, <1>8 DEF ResetTick, UndecidedTick, TappedTick, ReleasedTick, Ignored
  <1>9. CASE ResetPressTapKey(r) \/ OtherTapKeyAfterTap(r)
    <2>1. /\ IsEvent(r) /\ ~TappingKeyUndecided /\ r.pressed
          /\ TapKey(r.key) /\ ~TappedTwice
      BY <1>1, <1>2, <1>3, <1>9, RecordOfTapKey
         DEF ResetPressTapKey, OtherTapKeyAfterTap, ReleasedWithin, Reset, Released, TappedTwice
    <2>2. Processed(r, waiting_buffer, hid)
      BY <1>7, <1>9, <2>1 DEF ResetPressTapKey, OtherTapKeyAfterTap
    <2>. QED BY <1>2, <2>1, <2>2 DEF Started
  <1>10. CASE ResetOther(r) \/ OtherWhileTapped(r) \/ ReleaseAfterTap(r)
    <2>1. /\ IsEvent(r) /\ ~TappingKeyUndecided /\ ~UndecidedKey(tapping_key)
          /\ Processed(tapping_key, waiting_buffer, process_record(hid, r))
      BY <1>1, <1>2, <1>3, <1>10
         DEF ResetOther, OtherWhileTapped, ReleaseAfterTap, ReleasedWithin
    <2>2. AsItCame(r, r)
      BY <1>2, <1>10, <2>1
         DEF ResetOther, OtherWhileTapped, ReleaseAfterTap, ReleasedWithin, AsItCame, TapDown,
             TapOf, Reset, Released, IS_TAPPING_RECORD, IsEvent
    <2>3. SameKey(tapping_key)
      BY DEF SameKey
    <2>. QED
      <3>1. r \in Record /\ tapping_key \in Record
        BY <1>1, <1>2
      <3>2. Handled(r)
        BY <2>1, <2>2, <2>3, <3>1, HandledBy, Zenon
      <3>. QED BY <3>2
  <1>11. CASE FirstTap(r)
    <2>. DEFINE tap == [tapping_key EXCEPT !.count = 1]
                rel == [r EXCEPT !.count = 1, !.interrupted = tap.interrupted]
    <2>1. TappingKeyUndecided /\ r.key = tapping_key.key /\ ~r.pressed
      BY <1>3, <1>11 DEF FirstTap, IS_TAPPING_RECORD
    <2>2. pc = "event"
      BY <1>0, <1>5, <2>1 DEF ModeInv, BehindUndecided, Running
    <2>3. 1 \in 0..MaxCount
      BY KeymapAssumption
    <2>4. /\ tap \in Record /\ tap.key = tapping_key.key /\ tap.pressed /\ tap.count = 1
          /\ tap.interrupted \in BOOLEAN
      BY <1>2, <1>4, <2>1, <2>3, CountedType DEF Record
    <2>5. rel \in Record /\ rel.key = r.key /\ rel.pressed = r.pressed
      <3>. HIDE DEF tap
      <3>. QED BY <1>1, <2>1, <2>3, <2>4, MarkedType DEF Record
    <2>6. NotProcessed(rel, tap, process_record(hid, tap))
      BY <1>11 DEF FirstTap
    <2>. HIDE DEF tap, rel
    <2>7. tap.count > 0
      BY <2>4
    <2>. QED BY <2>1, <2>2, <2>4, <2>5, <2>6, <2>7 DEF Settled
  <1>12. ~NestedTap(r)
    BY <1>3, <1>6 DEF NestedTap, OtherKey
  <1>13. CASE RetainEarlierRelease(r) \/ NestedRelease(r)
    <2>1. SameKey(tapping_key)
      BY DEF SameKey
    <2>. QED BY <1>2, <1>3, <1>13, <2>1
             DEF RetainEarlierRelease, NestedRelease, EarlierKey, OtherKey, IS_TAPPING_RECORD,
                 WITHIN_TAPPING_TERM, Kept
  <1>14. CASE ProcessEarlierRelease(r)
    BY <1>3, <1>14
       DEF ProcessEarlierRelease, EarlierKey, OtherKey, IS_TAPPING_RECORD, EarlierReleased
  <1>15. CASE Interrupt(r)
    <2>. DEFINE tk == [tapping_key EXCEPT !.interrupted = TRUE]
    <2>1. /\ TappingKeyUndecided /\ r.pressed /\ IsEvent(r)
          /\ Within(r, tapping_key, TAPPING_TERM)
      BY <1>3, <1>15 DEF Interrupt, OtherKey, WITHIN_TAPPING_TERM
    <2>2. tk \in Record /\ tk.key = tapping_key.key /\ tk.pressed /\ tk.count = 0
          /\ tk.time = tapping_key.time
      BY <1>2, <1>4, <2>1 DEF Record
    <2>3. NoRecord \in Record /\ NoRecord.count = 0
      BY NoRecordType DEF NoRecord, Tick, KeyEvent
    <2>4. CASE tapping_key.key \in HOLD_ON_OTHER_KEY_PRESS
      <3>1. pc = "event"
        BY <1>0, <1>4, <1>5, <2>1, <2>4 DEF Running
      <3>2. NotProcessed(r, NoRecord, process_record(hid, tk))
        BY <1>15, <2>4 DEF Interrupt
      <3>. HIDE DEF tk
      <3>. QED BY <1>1, <2>1, <2>2, <2>3, <2>4, <3>1, <3>2 DEF Settled
    <2>5. CASE tapping_key.key \notin HOLD_ON_OTHER_KEY_PRESS
      <3>1. NotProcessed(r, tk, hid)
        BY <1>15, <2>5 DEF Interrupt
      <3>2. r.key # tapping_key.key
        BY <1>0, <1>5, <2>1 DEF r, Current, Running, ModeInv, StillDown, BehindUndecided
      <3>3. SameKey(tk)
        BY <1>4, <2>1, <2>2 DEF SameKey
      <3>. HIDE DEF tk
      <3>. QED BY <2>1, <2>2, <2>5, <3>1, <3>2, <3>3 DEF Kept
    <2>. QED BY <2>4, <2>5
  <1>16. CASE HoldTimeout(r)
    <2>1. TappingKeyUndecided /\ ~WITHIN_TAPPING_TERM(r)
      BY <1>3, <1>16 DEF HoldTimeout
    <2>2. pc = "event"
      BY <1>0, <1>5, <2>1 DEF Running, ModeInv, BehindUndecided, WITHIN_TAPPING_TERM
    <2>3. NoRecord \in Record /\ NoRecord.count = 0
      BY NoRecordType DEF NoRecord, Tick, KeyEvent
    <2>4. NotProcessed(r, NoRecord, process_record(hid, tapping_key))
      BY <1>16 DEF HoldTimeout, SettleAsHold
    <2>. QED BY <1>1, <1>2, <1>4, <2>1, <2>2, <2>3, <2>4 DEF Settled, WITHIN_TAPPING_TERM
  <1>17. CASE TapRelease(r)
    <2>. DEFINE rel == [r EXCEPT !.count = tapping_key.count,
                                 !.interrupted = tapping_key.interrupted]
    <2>1. /\ ~TappingKeyUndecided /\ IsEvent(r) /\ ~r.pressed /\ r.key = tapping_key.key
          /\ TapDown(r.key)
      BY <1>3, <1>17 DEF TapRelease, Tapped, Pressed, IS_TAPPING_RECORD, IsEvent,
                         TapDown, TapOf
    <2>2. rel \in Record /\ rel.key = r.key /\ rel.pressed = r.pressed /\ ~UndecidedKey(rel)
          /\ rel.count > 0
      BY <1>1, <1>2, <2>1 DEF Record, UndecidedKey, TapDown, TapOf
    <2>3. \/ Processed(rel, waiting_buffer, process_record(hid, rel))
          \/ Processed(NoRecord, waiting_buffer, process_record(hid, rel))
      BY <1>17 DEF TapRelease
    <2>4. /\ NoRecord \in Record /\ ~UndecidedKey(NoRecord) /\ ~IsEvent(NoRecord)
          /\ ~NoRecord.pressed
      BY NoRecordType DEF UndecidedKey
    <2>. HIDE DEF rel
    <2>. QED BY <2>1, <2>2, <2>3, <2>4 DEF Handled, LastOfKey, AsTap
  <1>18. CASE NewTapWhileTapped(r)
    <2>. DEFINE rel == [tapping_key EXCEPT !.pressed = FALSE, !.time = r.time]
    <2>1. /\ ~TappingKeyUndecided /\ IsEvent(tapping_key) /\ IsEvent(r) /\ r.pressed
          /\ TapKey(r.key) /\ TapDown(tapping_key.key)
          /\ \/ StartTapping(r, process_record(hid, rel))
             \/ StartTapping(r, hid) /\ ~TappedTwice
      BY <1>1, <1>2, <1>3, <1>18, RecordOfTapKey
         DEF NewTapWhileTapped, Tapped, Pressed, TapDown, TapOf, TappedTwice
    <2>2. rel \in Record /\ rel.key = tapping_key.key /\ ~rel.pressed /\ rel.count > 0
      BY <1>1, <1>2, <2>1 DEF Record, TapDown, TapOf
    <2>. HIDE DEF rel
    <2>3. /\ process_record(hid, rel) \in Downstream
          /\ MadeUp(process_record(hid, rel))
      BY <1>2, <2>1, <2>2, ProcessRecordType DEF MadeUp, IsEvent
    <2>. QED BY <1>2, <1>7, <2>1, <2>3 DEF Started
  <1>19. CASE SequentialTap(r)
    <2>. DEFINE n   == IF tapping_key.count < MaxCount THEN tapping_key.count + 1
                                                       ELSE MaxCount
                tap == [r EXCEPT !.count = n, !.interrupted = tapping_key.interrupted]
    <2>1. n \in 0..MaxCount /\ n > 1
      BY <1>2, <1>19, KeymapAssumption DEF Record, SequentialTap, Sequential
    <2>2. /\ tap \in Record /\ tap.key = r.key /\ tap.pressed = r.pressed /\ ~UndecidedKey(tap)
          /\ tap.count > 1 /\ tap.count > 0
      <3>. HIDE DEF n
      <3>1. tap \in Record /\ tap.key = r.key /\ tap.pressed = r.pressed /\ tap.count = n
        BY <1>1, <1>2, <2>1 DEF Record
      <3>. HIDE DEF tap
      <3>. QED BY <2>1, <3>1 DEF UndecidedKey
    <2>3. Processed(tap, waiting_buffer, process_record(hid, tap))
      BY <1>19 DEF SequentialTap
    <2>. HIDE DEF tap
    <2>4. ~TappingKeyUndecided /\ IsEvent(r) /\ r.key = tapping_key.key /\ r.pressed
      BY <1>3, <1>19 DEF SequentialTap, ReleasedWithin, IS_TAPPING_RECORD
    <2>. QED BY <1>1, <2>2, <2>3, <2>4, HandledBy DEF LastOfKey, AsTap, TapOf
  <1>20. CASE RestartTapping(r)
    <2>1. TapKey(r.key)
      BY <1>20 DEF RestartTapping, ReleasedWithin, IS_TAPPING_RECORD, IsEvent, ModeInv, OfTapKey
    <2>2. ~TappedTwice
      BY <1>20 DEF RestartTapping, ReleasedWithin, Released, TappedTwice
    <2>. QED BY <1>2, <1>3, <1>20, <2>1, <2>2 DEF RestartTapping, ReleasedWithin, Started
  <1>21. CASE OtherKeyAfterTap(r)
    <2>. DEFINE tk == [tapping_key EXCEPT !.interrupted = TRUE]
    <2>1. tk \in Record /\ tk.key = tapping_key.key /\ tk.pressed = tapping_key.pressed
          /\ tk.count = tapping_key.count /\ tk.time = tapping_key.time
      BY <1>2 DEF Record
    <2>2. Processed(tk, waiting_buffer, process_record(hid, r)) /\ IsEvent(r)
          /\ ~TappingKeyUndecided /\ ~UndecidedKey(tapping_key)
      BY <1>3, <1>21 DEF OtherKeyAfterTap, ReleasedWithin
    <2>3. ~UndecidedKey(tk)
      BY <2>1, <2>2 DEF UndecidedKey, IsEvent
    <2>4. AsItCame(r, r)
      BY <1>21 DEF OtherKeyAfterTap, ReleasedWithin, AsItCame
    <2>. HIDE DEF tk
    <2>5. SameKey(tk)
      BY <2>1 DEF SameKey
    <2>. QED
      <3>1. r \in Record /\ tk \in Record
        BY <1>1, <2>1
      <3>2. Handled(r)
        BY <2>2, <2>3, <2>4, <2>5, <3>1, HandledBy, Zenon
      <3>. QED BY <3>2
  <1>22. CASE ReleasedTimeout(r)
    <2>1. ~TappingKeyUndecided /\ ~tapping_key.pressed /\ NotProcessed(r, NoRecord, hid)
      BY <1>3, <1>22 DEF ReleasedTimeout, Released
    <2>2. pc = "event" /\ waiting_buffer = <<>>
      BY <1>0, <1>5, <1>22, <2>1 DEF Running, ReleasedTimeout, Released, ModeInv, NoneAfterTap,
                               TappingKeyReleased, OnlyUndecidedWaits
    <2>. QED BY <2>1, <2>2 DEF TimedOut
  <1>. QED
    BY <1>8, <1>9, <1>10, <1>11, <1>12, <1>13, <1>14, <1>15, <1>16, <1>17, <1>18,
       <1>19, <1>20, <1>21, <1>22
    DEF process_tapping, r

(* A press that makes its key the tapping key sends nothing, but for the     *)
(* release that is made up.                                                  *)
LEMMA StartedSends ==
    ASSUME IInv, NEW r, Started(r)
    PROVE  \E d \in Downstream :
              /\ \/ d.sent = hid.sent
                 \/ IsEvent(tapping_key) /\ d.sent = hid.sent \ {tapping_key.key}
              /\ Processed(r, waiting_buffer, d)
  <1>1. PICK d \in Downstream :
           /\ MadeUp(d) \/ (d = hid /\ ~TappedTwice)
           /\ Processed(r, waiting_buffer, d)
    BY DEF Started
  <1>2. ASSUME MadeUp(d) PROVE IsEvent(tapping_key) /\ d.sent = hid.sent \ {tapping_key.key}
    <2>1. PICK rel \in Record :
             rel.key = tapping_key.key /\ ~rel.pressed /\ d = process_record(hid, rel)
      BY <1>2 DEF MadeUp
    <2>2. IsEvent(tapping_key) /\ IsEvent(rel) /\ hid \in Downstream
      BY <1>2, <2>1 DEF MadeUp, IsEvent, IInv, TypeOK
    <2>. QED BY <2>1, <2>2, SentIs
  <1>. QED BY <1>1, <1>2

(* process_tapping() preserves the invariant of this mode.                   *)
LEMMA ModeProcessTapping ==
    ASSUME DecidedAlone, IInv, ModeInv, process_tapping
    PROVE  ModeInv'
  <1>. DEFINE r == Current
  <1>1. /\ Running /\ r \in Record /\ tapping_key \in Record
        /\ pc = "event" => r = event
    BY Outcomes, CurrentType DEF IInv, TypeOK, Current
  <1>2. NoRecord \in Record /\ ~IsEvent(NoRecord)
    BY NoRecordType
  <1>3. \/ Ignored(r) \/ Handled(r) \/ EarlierReleased(r)
        \/ Started(r) \/ Settled(r) \/ Kept(r) \/ TimedOut(r)
    BY Outcomes
  <1>. HIDE DEF r
  <1>4. CASE Ignored(r)
    <2>1. UndecidedKey(tapping_key) => r.key # tapping_key.key
      BY <1>4 DEF Ignored, UndecidedKey, IsEvent
    <2>. QED BY <1>1, <1>4, <2>1, TappingKeyStays DEF Ignored, r
  <1>5. CASE Handled(r)
    <2>1. PICK tk \in Record, c \in Record :
             /\ ~UndecidedKey(tk) /\ (SameKey(tk) \/ LastOfKey(r, tk))
             /\ Processed(tk, waiting_buffer, process_record(hid, c))
      BY <1>5 DEF Handled
    <2>2. CASE SameKey(tk)
      BY <1>1, <2>1, <2>2, TappingKeyStays DEF SameKey
    <2>3. CASE LastOfKey(r, tk)
      <3>1. ~TappingKeyUndecided /\ IsEvent(tapping_key) /\ r.key = tapping_key.key
        BY <1>5, <2>3 DEF Handled, LastOfKey, IsEvent
      <3>2. waiting_buffer' = <<>>
        BY <1>1, <2>1, <3>1, PressAlone DEF Processed, Running, r
      <3>3. IsEvent(tk) => TapKey(tk.key)
        BY <2>3, <3>1 DEF LastOfKey, ModeInv, OfTapKey
      <3>. QED BY <2>1, <3>2, <3>3, NothingLeft
    <2>. QED BY <2>1, <2>2, <2>3
  <1>6. CASE EarlierReleased(r)
    BY <1>1, <1>6, TappingKeyStays DEF EarlierReleased, r
  <1>7. CASE Started(r)
    BY <1>1, <1>7, NewTappingKey DEF Started, r
  <1>8. CASE Settled(r)
    <2>1. PICK tk \in Record, left \in Record, q \in Record :
             /\ q.key = r.key
             /\ \/ q = r /\ left = NoRecord
                \/ /\ ~q.pressed /\ q.key = tapping_key.key
                   /\ left.key = tapping_key.key /\ left.pressed /\ left.count > 0
             /\ NotProcessed(q, left, process_record(hid, tk))
      BY <1>8 DEF Settled
    <2>2. pc = "event" /\ TappingKeyUndecided
      BY <1>8 DEF Settled
    <2>3. CASE q = r /\ left = NoRecord
      BY <1>1, <2>1, <2>2, <2>3, WaitsForNone
    <2>4. CASE /\ ~q.pressed /\ q.key = tapping_key.key
               /\ left.key = tapping_key.key /\ left.pressed /\ left.count > 0
      BY <2>1, <2>2, <2>4, WaitsForTap
    <2>. QED BY <2>1, <2>3, <2>4
  <1>9. CASE Kept(r)
    BY <1>1, <1>9, WaitsForDecision DEF Kept, SameKey, r
  <1>10. CASE TimedOut(r)
    BY <1>1, <1>10, WaitsForNone DEF TimedOut
  <1>. QED BY <1>3, <1>4, <1>5, <1>6, <1>7, <1>8, <1>9, <1>10

-----------------------------------------------------------------------------
(* So does every other step.                                                 *)
LEMMA ModeStep ==
    ASSUME DecidedAlone, IInv, ModeInv, [Next]_vars
    PROVE  ModeInv'
  <1>. USE DEF ModeInv, OfTapKey, PressIsLast, NoPressBehindHold, OnlyUndecidedWaits,
               BehindUndecided, BehindTapped, StillDown, NoneAfterTap, EventIsNow,
               TappingKeyUndecided, TappingKeyReleased
  <1>1. ASSUME NEW dt \in 0..MaxDelay, IdleScan(dt) PROVE ModeInv'
    <2>1. /\ pc = "scan" /\ pc' = "event" /\ ~event'.pressed /\ event'.key = NoKey
          /\ event'.time = now'
          /\ UNCHANGED <<matrix, tapping_key, waiting_buffer>>
      BY <1>1 DEF IdleScan, Tick, KeyEvent
    <2>. QED BY <2>1 DEF Within, IsEvent
  <1>2. ASSUME NEW dt \in 0..MaxDelay, NEW changed \in SUBSET Key, ChangedScan(dt, changed)
        PROVE  ModeInv'
    <2>1. pc = "scan" /\ UNCHANGED <<pc, event, matrix, tapping_key, waiting_buffer>>
      BY <1>2 DEF ChangedScan
    <2>. QED BY <2>1 DEF Within
  <1>3. ASSUME NEW k \in Key, HandOn(k) PROVE ModeInv'
    <2>1. /\ pc = "scan" /\ pc' = "event" /\ event'.key = k
          /\ event'.pressed = (k \notin matrix) /\ event'.time = now'
          /\ matrix' = IF k \in matrix THEN matrix \ {k} ELSE matrix \cup {k}
          /\ UNCHANGED <<tapping_key, waiting_buffer>>
      BY <1>3 DEF HandOn, KeyEvent
    <2>. QED BY <2>1 DEF Within
  <1>4. CASE Drained
    <2>1. /\ pc = "drain" /\ pc' = "scan" /\ waiting_buffer = <<>>
          /\ UNCHANGED <<event, matrix, tapping_key, waiting_buffer>>
      BY <1>4 DEF Drained, scanVars
    <2>. QED BY <2>1 DEF Within
  <1>5. CASE UNCHANGED vars
    BY <1>5 DEF vars, Within
  <1>. QED BY <1>1, <1>2, <1>3, <1>4, <1>5, ModeProcessTapping DEF Next, Scan

LEMMA ModeInitially == Init => ModeInv
  BY NoRecordType
     DEF Init, ModeInv, OfTapKey, PressIsLast, NoPressBehindHold, OnlyUndecidedWaits,
         BehindUndecided, BehindTapped, StillDown, NoneAfterTap, EventIsNow,
         TappingKeyUndecided, TappingKeyReleased

LEMMA ModeInvariance == DecidedAlone => (Spec => [](IInv /\ ModeInv))
  <1>. SUFFICES ASSUME DecidedAlone PROVE Spec => [](IInv /\ ModeInv)
    OBVIOUS
  <1>1. IInv /\ ModeInv /\ [Next]_vars => ModeInv'
    BY ModeStep
  <1>. QED BY <1>1, ModeInitially, Invariance, PTL DEF Spec

(* An overflow clears the report and not the record of what was sent.        *)
LEMMA OverflowSends ==
    ASSUME NEW r, NEW tk, NEW d \in Downstream, NotProcessed(r, tk, d), pc = "event"
    PROVE  hid'.sent = d.sent
  <1>1. clear_keyboard(d).sent = d.sent
    BY DEF clear_keyboard, Downstream
  <1>. QED BY <1>1 DEF NotProcessed, Enqueued, Overflow, StopDraining

(* No press is kept waiting behind an undecided key: this mode "immediately  *)
(* selects the hold action when another key is pressed"                      *)
(* (docs/tap_hold.md:125, the branch at action_tapping.c:290).               *)
THEOREM PressesNeverWait == TapKeysHold => (Spec => []NoPressWaits)
  <1>. SUFFICES ASSUME TapKeysHold PROVE Spec => []NoPressWaits
    OBVIOUS
  <1>1. IInv /\ ModeInv => NoPressWaits
    BY DEF ModeInv, NoPressBehindHold, OfTapKey, TapKeysHold, NoPressWaits, IInv, TypeOK,
           TappingKeyUndecided, IsEvent, Record
  <1>2. DecidedAlone
    BY DEF DecidedAlone
  <1>. QED BY <1>1, <1>2, ModeInvariance, PTL

(* The press that has just arrived is not processed while another event      *)
(* waits: process_tapping() settles the undecided key and drains the buffer  *)
(* first, or lets the press wait as well.                                    *)
THEOREM NoPressOvertakes == DecidedAlone => (Spec => PressesInOrder)
  <1>. SUFFICES ASSUME DecidedAlone PROVE Spec => PressesInOrder
    OBVIOUS
  <1>. DEFINE Ordered == pc = "event" /\ event.pressed /\ event.key \in hid'.sent \ hid.sent
                            => waiting_buffer = <<>>
  <1>1. ASSUME IInv, ModeInv, [Next]_vars PROVE Ordered
    <2>. SUFFICES ASSUME pc = "event", event.pressed, event.key \in hid'.sent \ hid.sent,
                         waiting_buffer # <<>>
                  PROVE  FALSE
      OBVIOUS
    <2>1. TappingKeyUndecided /\ event.key # tapping_key.key
      BY <1>1 DEF ModeInv, OnlyUndecidedWaits, StillDown
    <2>2. process_tapping
      BY <1>1 DEF Next, Scan, IdleScan, ChangedScan, HandOn, Drained, vars
    <2>3. Undecided /\ Current = event /\ tapping_key \in Record /\ hid \in Downstream
      BY <2>1, BranchFacts, <1>1 DEF Undecided, Pressed, Running, TappingKeyUndecided, Current
    <2>4. IsEvent(event) /\ tapping_key.count = 0
      <3>1. event.key \in matrix /\ matrix \subseteq Key
        BY <1>1 DEF ModeInv, StillDown, IInv, TypeOK
      <3>2. \A k \in Key : k # NoKey
        BY KeymapAssumption DEF Key, NoKey
      <3>3. IsEvent(event)
        BY <3>1, <3>2, Zenon DEF IsEvent
      <3>4. tapping_key.count = 0
        BY <2>1 DEF TappingKeyUndecided
      <3>. QED BY <3>3, <3>4
    <2>. DEFINE tk == [tapping_key EXCEPT !.interrupted = TRUE]
    <2>5. tk \in Record /\ tk.key = tapping_key.key /\ tk.pressed = tapping_key.pressed
      BY <2>3 DEF Record
    <2>. HIDE DEF tk
    <2>6. Interrupt(event) \/ HoldTimeout(event)
      BY <2>2, <2>3, <2>4
         DEF process_tapping, ResetTick, ResetPressTapKey, ResetOther, UndecidedTick,
           FirstTap, NestedTap, RetainEarlierRelease, ProcessEarlierRelease,
           NestedRelease, TappedTick, TapRelease,
           NewTapWhileTapped, OtherWhileTapped, ReleasedTick, SequentialTap,
           RestartTapping, OtherTapKeyAfterTap, OtherKeyAfterTap, ReleaseAfterTap,
           ReleasedTimeout, EarlierKey, OtherKey, ReleasedWithin, Reset, Undecided,
           Tapped, Released, Pressed
    <2>7. \/ hid'.sent = process_record(hid, tk).sent
          \/ hid'.sent = hid.sent
          \/ hid'.sent = process_record(hid, tapping_key).sent
      <3>1. /\ process_record(hid, tk) \in Downstream
            /\ process_record(hid, tapping_key) \in Downstream
        BY <2>1, <2>3, <2>5, ProcessRecordType DEF TappingKeyUndecided, IsEvent
      <3>. QED BY <2>3, <2>6, <3>1, OverflowSends DEF Interrupt, HoldTimeout, SettleAsHold, tk
    <2>8. hid'.sent = hid.sent \cup {tapping_key.key} \/ hid'.sent = hid.sent
      BY <2>1, <2>3, <2>5, <2>7, SentIs DEF TappingKeyUndecided, IsEvent
    <2>. QED BY <2>1, <2>8
  <1>2. IInv /\ ModeInv /\ [Next]_vars => [Ordered]_vars
    BY <1>1
  <1>. QED BY <1>2, ModeInvariance, PTL DEF Spec, PressesInOrder

-----------------------------------------------------------------------------
(* The refinement of KeyStream.  What it knows of an event ...               *)
Flag(r) == [key |-> r.key, pressed |-> r.pressed]

(* ... and the events that wait, from their parts: the undecided key, the    *)
(* buffer and the event that has just arrived.                               *)
InLine(u, tk, b, e) ==
    (IF u THEN <<tk>> ELSE <<>>) \o b \o (IF IsEvent(e) THEN <<e>> ELSE <<>>)

(* The four forms this line takes.                                           *)
LEMMA InLineType ==
    ASSUME NEW u \in BOOLEAN, NEW tk \in Record, NEW b \in Seq(Record), NEW e \in Record
    PROVE  InLine(u, tk, b, e) \in Seq(Record)
  BY DEF InLine
LEMMA OnlyBuffer ==
    ASSUME NEW tk \in Record, NEW b \in Seq(Record), NEW e \in Record, ~IsEvent(e)
    PROVE  InLine(FALSE, tk, b, e) = b
  BY DEF InLine

LEMMA BufferThenEvent ==
    ASSUME NEW tk \in Record, NEW b \in Seq(Record), NEW e \in Record, IsEvent(e)
    PROVE  InLine(FALSE, tk, b, e) = Append(b, e)
  BY DEF InLine

LEMMA KeyThenBuffer ==
    ASSUME NEW tk \in Record, NEW b \in Seq(Record), NEW e \in Record, ~IsEvent(e)
    PROVE  InLine(TRUE, tk, b, e) = <<tk>> \o b
  BY DEF InLine

LEMMA KeyBufferEvent ==
    ASSUME NEW tk \in Record, NEW b \in Seq(Record), NEW e \in Record, IsEvent(e)
    PROVE  InLine(TRUE, tk, b, e) = <<tk>> \o Append(b, e)
  BY DEF InLine

(* An element is put in front of a sequence.                                 *)
LEMMA ConsIs ==
    ASSUME NEW tk \in Record, NEW b \in Seq(Record)
    PROVE  /\ <<tk>> \o b \in Seq(Record) /\ Len(b) \in Nat
           /\ Len(<<tk>> \o b) = Len(b) + 1
           /\ (<<tk>> \o b)[1] = tk
           /\ \A i \in 1..Len(b) : (<<tk>> \o b)[i + 1] = b[i]
  OBVIOUS

(* What the matrix has to do with the events that wait.  An event is handed  *)
(* on once, untouched, when its key has just changed ...                     *)
EventIsNew ==
    /\ pc = "event" => event.count = 0
    /\ pc # "event" => ~IsEvent(event)
    /\ pc = "event" /\ IsEvent(event) => (event.pressed <=> event.key \in matrix)

(* ... a press that waits has not been counted as a tap ...                  *)
PressIsNew ==
    \A i \in DOMAIN waiting_buffer : waiting_buffer[i].pressed => waiting_buffer[i].count = 0

(* ... and presses and releases of a key that wait alternate: the j-th event *)
(* is the next of its key after the i-th, or the i-th is the last ...        *)
NextOfKey(s, i, j) ==
    /\ i < j /\ s[j].key = s[i].key /\ s[j].pressed # s[i].pressed
    /\ \A m \in DOMAIN s : i < m /\ m < j => s[m].key # s[i].key

NoneOfKeyAfter(s, i) == \A j \in DOMAIN s : i < j => s[j].key # s[i].key

(* ... and tells where the key is, unless its next event has just arrived.   *)
Alternate ==
    \A i \in DOMAIN waiting_buffer :
        \/ \E j \in DOMAIN waiting_buffer : NextOfKey(waiting_buffer, i, j)
        \/ /\ NoneOfKeyAfter(waiting_buffer, i)
           /\ IF pc = "event" /\ event.key = waiting_buffer[i].key
                 THEN event.pressed # waiting_buffer[i].pressed
                 ELSE waiting_buffer[i].pressed <=> waiting_buffer[i].key \in matrix

(* The invariant the refinement needs, beside ModeInv.                       *)
StreamInv == EventIsNew /\ PressIsNew /\ Alternate

LEMMA StreamInitially == Init => StreamInv
  BY NoRecordType DEF Init, StreamInv, EventIsNew, PressIsNew, Alternate

(* The order of the events that wait does not change when the head goes ...  *)
LEMMA OrderOfTail ==
    ASSUME NEW s \in Seq(Record), s # <<>>, NEW t, t = Tail(s), NEW i \in DOMAIN t
    PROVE  /\ i + 1 \in DOMAIN s /\ t[i] = s[i + 1]
           /\ (\E j \in DOMAIN s : NextOfKey(s, i + 1, j)) =>
                 \E j \in DOMAIN t : NextOfKey(t, i, j)
           /\ NoneOfKeyAfter(s, i + 1) => NoneOfKeyAfter(t, i)
  <1>1. PICK n \in Nat : n = Len(s) /\ DOMAIN s = 1..n /\ DOMAIN t = 1..(n - 1)
    BY TailIs
  <1>2. \A m \in 1..(n - 1) : t[m] = s[m + 1] /\ m + 1 \in 1..n
    BY <1>1, TailIs
  <1>3. ASSUME NEW j \in DOMAIN s, NextOfKey(s, i + 1, j)
        PROVE  NextOfKey(t, i, j - 1) /\ j - 1 \in DOMAIN t
    <2>1. i + 1 < j /\ j - 1 \in 1..(n - 1) /\ (j - 1) + 1 = j /\ i < j - 1
      BY <1>1, <1>3 DEF NextOfKey
    <2>2. t[j - 1] = s[j] /\ t[i] = s[i + 1]
      BY <1>1, <1>2, <2>1
    <2>3. ASSUME NEW m \in 1..(n - 1), i < m, m < j - 1 PROVE t[m].key # t[i].key
      <3>1. m + 1 \in DOMAIN s /\ i + 1 < m + 1 /\ m + 1 < j /\ t[m] = s[m + 1]
        BY <1>1, <1>2, <2>1, <2>3
      <3>. QED BY <1>3, <2>2, <3>1 DEF NextOfKey
    <2>. QED BY <1>1, <1>3, <2>1, <2>2, <2>3 DEF NextOfKey
  <1>4. ASSUME NoneOfKeyAfter(s, i + 1), NEW m \in DOMAIN t, i < m PROVE t[m].key # t[i].key
    <2>1. m + 1 \in DOMAIN s /\ i + 1 < m + 1 /\ t[m] = s[m + 1] /\ t[i] = s[i + 1]
      BY <1>1, <1>2, <1>4
    <2>. QED BY <1>4, <2>1 DEF NoneOfKeyAfter
  <1>. QED BY <1>1, <1>2, <1>3, <1>4 DEF NoneOfKeyAfter

(* ... nor when an event is appended, which may be the next of its key.      *)
LEMMA OrderOfAppend ==
    ASSUME NEW s \in Seq(Record), NEW e \in Record, NEW t, t = Append(s, e), NEW i \in DOMAIN s
    PROVE  /\ i \in DOMAIN t /\ t[i] = s[i]
           /\ (\E j \in DOMAIN s : NextOfKey(s, i, j)) => \E j \in DOMAIN t : NextOfKey(t, i, j)
           /\ NoneOfKeyAfter(s, i) /\ s[i].key = e.key /\ s[i].pressed # e.pressed =>
                 \E j \in DOMAIN t : NextOfKey(t, i, j)
           /\ NoneOfKeyAfter(s, i) /\ s[i].key # e.key => NoneOfKeyAfter(t, i)
  <1>1. PICK n \in Nat : n = Len(s) /\ DOMAIN s = 1..n /\ DOMAIN t = 1..(n + 1)
    BY AppendIs
  <1>2. t[n + 1] = e /\ \A m \in 1..n : t[m] = s[m]
    BY <1>1, AppendIs
  <1>3. ASSUME NEW j \in DOMAIN s, NextOfKey(s, i, j) PROVE j \in DOMAIN t /\ NextOfKey(t, i, j)
    <2>1. j \in 1..n /\ i \in 1..n /\ i < j /\ t[j] = s[j] /\ t[i] = s[i]
      BY <1>1, <1>2, <1>3 DEF NextOfKey
    <2>2. ASSUME NEW m \in DOMAIN t, i < m, m < j PROVE t[m].key # t[i].key
      <3>1. m \in DOMAIN s /\ t[m] = s[m]
        BY <1>1, <1>2, <2>1, <2>2
      <3>. QED BY <1>3, <2>1, <2>2, <3>1 DEF NextOfKey
    <2>. QED BY <1>1, <1>3, <2>1, <2>2 DEF NextOfKey
  <1>4. ASSUME NoneOfKeyAfter(s, i), s[i].key = e.key, s[i].pressed # e.pressed
        PROVE  n + 1 \in DOMAIN t /\ NextOfKey(t, i, n + 1)
    <2>1. i \in 1..n /\ i < n + 1 /\ t[i] = s[i]
      BY <1>1, <1>2
    <2>2. ASSUME NEW m \in DOMAIN t, i < m, m < n + 1 PROVE t[m].key # t[i].key
      <3>1. m \in DOMAIN s /\ t[m] = s[m]
        BY <1>1, <1>2, <2>1, <2>2
      <3>. QED BY <1>4, <2>1, <2>2, <3>1 DEF NoneOfKeyAfter
    <2>. QED BY <1>1, <1>2, <1>4, <2>1, <2>2 DEF NextOfKey
  <1>5. ASSUME NoneOfKeyAfter(s, i), s[i].key # e.key, NEW m \in DOMAIN t, i < m
        PROVE  t[m].key # t[i].key
    <2>1. i \in 1..n /\ t[i] = s[i]
      BY <1>1, <1>2
    <2>2. CASE m = n + 1
      BY <1>2, <1>5, <2>1, <2>2
    <2>3. CASE m # n + 1
      <3>1. m \in DOMAIN s /\ t[m] = s[m]
        BY <1>1, <1>2, <2>3
      <3>. QED BY <1>5, <2>1, <3>1 DEF NoneOfKeyAfter
    <2>. QED BY <2>2, <2>3
  <1>. QED BY <1>1, <1>2, <1>3, <1>4, <1>5 DEF NoneOfKeyAfter

(* Every key that waits has a last event.                                    *)
LEMMA LastEntry ==
    ASSUME NEW s \in Seq(Record), NEW i \in DOMAIN s
    PROVE  \E j \in DOMAIN s :
              /\ s[j].key = s[i].key
              /\ \A m \in DOMAIN s : m > j => s[m].key # s[i].key
  <1>1. Len(s) \in Nat /\ DOMAIN s = 1..Len(s)
    OBVIOUS
  <1>. DEFINE T == {n \in Nat : \E j \in 1..Len(s) : s[j].key = s[i].key /\ n = Len(s) - j}
  <1>2. Len(s) - i \in T
    BY <1>1
  <1>3. \E x \in T : \A y \in T : x <= y
    <2>1. T \in SUBSET Nat /\ T # {}
      BY <1>2
    <2>. HIDE DEF T
    <2>. QED BY <2>1, LeastElement
  <1>4. PICK x \in T : \A y \in T : x <= y
    BY <1>3
  <1>5. PICK j \in 1..Len(s) : s[j].key = s[i].key /\ x = Len(s) - j
    BY <1>4
  <1>6. ASSUME NEW m \in DOMAIN s, m > j, s[m].key = s[i].key PROVE FALSE
    <2>1. Len(s) - m \in T /\ Len(s) - m < x
      BY <1>1, <1>5, <1>6
    <2>. HIDE DEF T
    <2>. QED BY <1>1, <1>4, <1>5, <2>1
  <1>. QED BY <1>1, <1>5, <1>6

(* When a release arrives and no press of its key waits, no event of it does.*)
LEMMA NoneEarlier ==
    ASSUME IInv, StreamInv, pc = "event", ~event.pressed, ~waiting_buffer_typed(event),
           NEW i \in DOMAIN waiting_buffer
    PROVE  waiting_buffer[i].key # event.key
  <1>. SUFFICES ASSUME waiting_buffer[i].key = event.key PROVE FALSE
    OBVIOUS
  <1>1. waiting_buffer \in Seq(Record)
    BY DEF IInv, TypeOK
  <1>2. PICK j \in DOMAIN waiting_buffer :
           /\ waiting_buffer[j].key = waiting_buffer[i].key
           /\ \A m \in DOMAIN waiting_buffer : m > j => waiting_buffer[m].key # waiting_buffer[i].key
    BY <1>1, LastEntry
  <1>3. event.pressed # waiting_buffer[j].pressed
    <2>1. j \in Int /\ \A m \in DOMAIN waiting_buffer : m \in Int
      BY <1>1
    <2>2. \A m \in DOMAIN waiting_buffer : ~NextOfKey(waiting_buffer, j, m)
      BY <1>2, <2>1 DEF NextOfKey
    <2>. QED BY <1>2, <2>2 DEF StreamInv, Alternate
  <1>. QED BY <1>2, <1>3 DEF waiting_buffer_typed

(* What is left to show when process_tapping() has taken the event.          *)
LEMMA NoEventLeft ==
    ASSUME pc' # "event", event' = NoRecord,
           \A i \in DOMAIN waiting_buffer' :
              /\ waiting_buffer'[i].pressed => waiting_buffer'[i].count = 0
              /\ \/ \E j \in DOMAIN waiting_buffer' : NextOfKey(waiting_buffer', i, j)
                 \/ /\ NoneOfKeyAfter(waiting_buffer', i)
                    /\ waiting_buffer'[i].pressed <=> waiting_buffer'[i].key \in matrix'
    PROVE  StreamInv'
  <1>1. ~IsEvent(NoRecord)
    BY NoRecordType
  <1>2. EventIsNew' /\ PressIsNew'
    BY <1>1 DEF EventIsNew, PressIsNew
  <1>3. Alternate'
    BY DEF Alternate, NextOfKey, NoneOfKeyAfter
  <1>. QED BY <1>2, <1>3 DEF StreamInv

(* What Processed leaves in the buffer ...                                   *)
LEMMA ProcessedLeaves ==
    ASSUME IInv, Running, NEW tk, NEW d, Processed(tk, waiting_buffer, d)
    PROVE  /\ pc' # "event" /\ event' = NoRecord /\ matrix' = matrix
           /\ pc = "event" => waiting_buffer' = waiting_buffer
           /\ pc # "event" =>
                 /\ DOMAIN waiting_buffer \subseteq Int
                 /\ DOMAIN waiting_buffer' = {i \in Nat \ {0} : i + 1 \in DOMAIN waiting_buffer}
                 /\ \A i \in DOMAIN waiting_buffer' : waiting_buffer'[i] = waiting_buffer[i + 1]
  <1>1. /\ pc' # "event" /\ event' = NoRecord /\ matrix' = matrix
        /\ waiting_buffer' = IF pc = "event" THEN waiting_buffer ELSE Tail(waiting_buffer)
        /\ waiting_buffer \in Seq(Record)
    BY DEF Processed, scanVars, IInv, TypeOK
  <1>2. CASE pc = "event"
    BY <1>1, <1>2
  <1>3. CASE pc # "event"
    <2>1. waiting_buffer # <<>> /\ waiting_buffer' = Tail(waiting_buffer)
      BY <1>1, <1>3 DEF Running
    <2>2. /\ Len(waiting_buffer) \in Nat /\ DOMAIN waiting_buffer = 1..Len(waiting_buffer)
          /\ DOMAIN waiting_buffer' = 1..(Len(waiting_buffer) - 1)
          /\ \A i \in 1..(Len(waiting_buffer) - 1) : waiting_buffer'[i] = waiting_buffer[i + 1]
      BY <1>1, <2>1, TailIs
    <2>3. DOMAIN waiting_buffer' = {i \in Nat \ {0} : i + 1 \in DOMAIN waiting_buffer}
      <3>1. PICK n \in Nat : n = Len(waiting_buffer)
        BY <2>2
      <3>2. {i \in Nat \ {0} : i + 1 \in 1..n} = 1..(n - 1)
        OBVIOUS
      <3>. QED BY <2>2, <3>1, <3>2
    <2>4. DOMAIN waiting_buffer \subseteq Int
      <3>1. \A n \in Nat : 1..n \subseteq Int
        OBVIOUS
      <3>. QED BY <2>2, <3>1
    <2>5. \A i \in DOMAIN waiting_buffer' : waiting_buffer'[i] = waiting_buffer[i + 1]
      BY <2>2
    <2>. QED BY <1>1, <1>3, <2>3, <2>4, <2>5, Zenon
  <1>. QED BY <1>2, <1>3

(* ... and that StreamInv still holds.                                       *)
LEMMA StreamProcessed ==
    ASSUME IInv, StreamInv, Running, NEW tk, NEW d, Processed(tk, waiting_buffer, d),
           pc = "event" => \A i \in DOMAIN waiting_buffer : waiting_buffer[i].key # event.key
    PROVE  StreamInv'
  <1>. DEFINE w == waiting_buffer
              v == w'
  <1>1. /\ pc' # "event" /\ event' = NoRecord /\ matrix' = matrix
        /\ v = IF pc = "event" THEN w ELSE Tail(w)
        /\ w \in Seq(Record) /\ (pc # "event" => w # <<>>)
    BY DEF Processed, scanVars, IInv, TypeOK, Running
  <1>2. ASSUME NEW i \in DOMAIN w
        PROVE  /\ w[i].pressed => w[i].count = 0
               /\ \/ \E j \in DOMAIN w : NextOfKey(w, i, j)
                  \/ NoneOfKeyAfter(w, i) /\ (w[i].pressed <=> w[i].key \in matrix)
    BY DEF StreamInv, PressIsNew, Alternate
  <1>. HIDE DEF v, w
  <1>3. ASSUME NEW i \in DOMAIN v
        PROVE  /\ v[i].pressed => v[i].count = 0
               /\ \/ \E j \in DOMAIN v : NextOfKey(v, i, j)
                  \/ NoneOfKeyAfter(v, i) /\ (v[i].pressed <=> v[i].key \in matrix')
    <2>1. CASE pc = "event"
      BY <1>1, <1>2, <2>1
    <2>2. CASE pc # "event"
      <3>1. /\ i + 1 \in DOMAIN w /\ v[i] = w[i + 1]
            /\ (\E j \in DOMAIN w : NextOfKey(w, i + 1, j)) => \E j \in DOMAIN v : NextOfKey(v, i, j)
            /\ NoneOfKeyAfter(w, i + 1) => NoneOfKeyAfter(v, i)
        BY <1>1, <2>2, OrderOfTail
      <3>. QED BY <1>1, <1>2, <3>1
    <2>. QED BY <2>1, <2>2
  <1>. QED BY <1>1, <1>3, NoEventLeft DEF v, w

(* So it does when the event that has just arrived waits ...                 *)
LEMMA StreamWaits ==
    ASSUME IInv, StreamInv, pc = "event", NEW q \in Record, q.key = event.key,
           q.pressed = event.pressed, q.pressed => q.count = 0, NEW tk, NEW d,
           NotProcessed(q, tk, d)
    PROVE  StreamInv'
  <1>. DEFINE w == waiting_buffer
  <1>1. /\ w \in Seq(Record) /\ event \in Record
        /\ IsEvent(q) <=> IsEvent(event)
        /\ IsEvent(event) => (event.pressed <=> event.key \in matrix)
        /\ \A i \in DOMAIN w : IsEvent(w[i])
    BY DEF IInv, TypeOK, IsEvent, StreamInv, EventIsNew
  <1>2. ASSUME NEW i \in DOMAIN w
        PROVE  /\ w[i].pressed => w[i].count = 0
               /\ \/ \E j \in DOMAIN w : NextOfKey(w, i, j)
                  \/ /\ NoneOfKeyAfter(w, i)
                     /\ IF event.key = w[i].key THEN event.pressed # w[i].pressed
                                                ELSE w[i].pressed <=> w[i].key \in matrix
    BY DEF StreamInv, PressIsNew, Alternate
  <1>3. CASE Overflow(q, d)
    <2>1. pc' # "event" /\ event' = NoRecord /\ DOMAIN w' = {}
      BY <1>3 DEF Overflow
    <2>. QED BY <2>1, NoEventLeft DEF w
  <1>4. CASE Enqueued(q, tk, d)
    <2>1. /\ pc' # "event" /\ event' = NoRecord /\ matrix' = matrix
          /\ w' = IF IsEvent(q) THEN Append(w, q) ELSE w
      BY <1>4 DEF Enqueued, scanVars
    <2>. HIDE DEF w
    <2>. DEFINE v == w'
    <2>. HIDE DEF v
    <2>2. ASSUME NEW i \in DOMAIN v
          PROVE  /\ v[i].pressed => v[i].count = 0
                 /\ \/ \E j \in DOMAIN v : NextOfKey(v, i, j)
                    \/ NoneOfKeyAfter(v, i) /\ (v[i].pressed <=> v[i].key \in matrix')
      <3>1. CASE ~IsEvent(q)
        <4>1. v = w /\ \A m \in DOMAIN w : w[m].key # event.key
          BY <1>1, <2>1, <3>1 DEF IsEvent, v
        <4>. QED BY <1>2, <2>1, <4>1
      <3>2. CASE IsEvent(q)
        <4>1. /\ v = Append(w, q) /\ Len(w) \in Nat /\ DOMAIN w = 1..Len(w)
              /\ DOMAIN v = 1..(Len(w) + 1) /\ v[Len(w) + 1] = q
          BY <1>1, <2>1, <3>2, AppendIs DEF v
        <4>2. CASE i = Len(w) + 1
          <5>1. v[i] = q
            BY <4>1, <4>2
          <5>2. q.pressed <=> q.key \in matrix'
            <6>1. q.pressed \in BOOLEAN
              BY DEF Record
            <6>2. event.pressed <=> event.key \in matrix
              BY <1>1, <3>2
            <6>. QED BY <2>1, <6>1, <6>2
          <5>3. NoneOfKeyAfter(v, i)
            BY <4>1, <4>2 DEF NoneOfKeyAfter
          <5>. QED BY <5>1, <5>2, <5>3
        <4>3. CASE i # Len(w) + 1
          <5>1. i \in DOMAIN w
            BY <4>1, <4>3
          <5>2. /\ v[i] = w[i]
                /\ (\E j \in DOMAIN w : NextOfKey(w, i, j)) => \E j \in DOMAIN v : NextOfKey(v, i, j)
                /\ NoneOfKeyAfter(w, i) /\ w[i].key = q.key /\ w[i].pressed # q.pressed =>
                      \E j \in DOMAIN v : NextOfKey(v, i, j)
                /\ NoneOfKeyAfter(w, i) /\ w[i].key # q.key => NoneOfKeyAfter(v, i)
            <6>1. w \in Seq(Record) /\ v = Append(w, q)
              BY <1>1, <4>1
            <6>. QED BY <5>1, <6>1, OrderOfAppend
          <5>. QED BY <1>2, <2>1, <5>1, <5>2
        <4>. QED BY <4>2, <4>3
      <3>. QED BY <3>1, <3>2
    <2>3. ASSUME NEW i \in DOMAIN waiting_buffer'
          PROVE  /\ waiting_buffer'[i].pressed => waiting_buffer'[i].count = 0
                 /\ \/ \E j \in DOMAIN waiting_buffer' : NextOfKey(waiting_buffer', i, j)
                    \/ /\ NoneOfKeyAfter(waiting_buffer', i)
                       /\ waiting_buffer'[i].pressed <=> waiting_buffer'[i].key \in matrix'
      BY <2>2 DEF v, w
    <2>. QED BY <2>1, <2>3, NoEventLeft
  <1>. QED BY <1>3, <1>4 DEF NotProcessed, StopDraining

(* ... or one that was drained waits again.                                  *)
LEMMA StreamWaitsAgain ==
    ASSUME IInv, StreamInv, Running, pc # "event", NEW tk, NEW d, NotProcessed(Current, tk, d)
    PROVE  StreamInv' /\ waiting_buffer' = waiting_buffer
  <1>1. waiting_buffer \in Seq(Record) /\ waiting_buffer # <<>> /\ Current = waiting_buffer[1]
    BY TailIs DEF IInv, TypeOK, Running, Current
  <1>2. /\ waiting_buffer' = [waiting_buffer EXCEPT ![1] = Current] /\ matrix' = matrix
        /\ pc' # "event" /\ event' = NoRecord
    BY DEF NotProcessed, Enqueued, Overflow, StopDraining, scanVars
  <1>3. waiting_buffer' = waiting_buffer
    BY <1>1, <1>2
  <1>4. ASSUME NEW i \in DOMAIN waiting_buffer
        PROVE  /\ waiting_buffer[i].pressed => waiting_buffer[i].count = 0
               /\ \/ \E j \in DOMAIN waiting_buffer : NextOfKey(waiting_buffer, i, j)
                  \/ /\ NoneOfKeyAfter(waiting_buffer, i)
                     /\ waiting_buffer[i].pressed <=> waiting_buffer[i].key \in matrix
    BY DEF StreamInv, PressIsNew, Alternate
  <1>. QED BY <1>2, <1>3, <1>4, NoEventLeft

(* process_tapping() preserves StreamInv.                                    *)
LEMMA StreamProcessTapping ==
    ASSUME DecidedAlone, IInv, ModeInv, StreamInv, process_tapping
    PROVE  StreamInv'
  <1>. DEFINE r == Current
  <1>1. Running /\ r \in Record /\ (pc = "event" => r = event)
    BY Outcomes, CurrentType DEF IInv, Current
  <1>2. r.pressed => r.count = 0
    <2>1. CASE pc = "event"
      BY <1>1, <2>1 DEF StreamInv, EventIsNew
    <2>2. CASE pc = "drain"
      <3>1. r = waiting_buffer[1] /\ 1 \in DOMAIN waiting_buffer
        BY <1>1, <2>2, TailIs DEF Running, Current, IInv, TypeOK
      <3>. QED BY <3>1 DEF StreamInv, PressIsNew
    <2>. QED BY <1>1, <2>1, <2>2 DEF Running
  <1>3. pc = "event" /\ ~TappingKeyUndecided => waiting_buffer = <<>>
    BY DEF ModeInv, OnlyUndecidedWaits
  <1>4. \/ Ignored(r) \/ Handled(r) \/ EarlierReleased(r)
        \/ Started(r) \/ Settled(r) \/ Kept(r) \/ TimedOut(r)
    BY Outcomes
  <1>. HIDE DEF r
  <1>5. CASE Ignored(r)
    <2>1. \A i \in DOMAIN waiting_buffer : waiting_buffer[i].key # event.key
      BY <1>1, <1>5 DEF Ignored, IInv, TypeOK, IsEvent
    <2>. QED BY <1>1, <1>5, <2>1, StreamProcessed DEF Ignored
  <1>6. CASE Handled(r) \/ Started(r)
    <2>1. PICK tk, d : Processed(tk, waiting_buffer, d)
      BY <1>6 DEF Handled, Started
    <2>2. ~TappingKeyUndecided
      BY <1>6 DEF Handled, Started
    <2>. QED BY <1>1, <1>3, <2>1, <2>2, StreamProcessed
  <1>7. CASE EarlierReleased(r)
    BY <1>1, <1>7, NoneEarlier, StreamProcessed DEF EarlierReleased
  <1>8. CASE Settled(r)
    <2>1. PICK tk \in Record, left \in Record, q \in Record :
             /\ q.key = r.key /\ q.pressed = r.pressed /\ (q.pressed => q = r)
             /\ NotProcessed(q, left, process_record(hid, tk))
      BY <1>8 DEF Settled
    <2>2. pc = "event"
      BY <1>8 DEF Settled
    <2>. QED BY <1>1, <1>2, <2>1, <2>2, StreamWaits
  <1>9. CASE Kept(r)
    <2>1. PICK left : NotProcessed(r, left, hid)
      BY <1>9 DEF Kept
    <2>. QED BY <1>1, <1>2, <2>1, StreamWaits, StreamWaitsAgain DEF r
  <1>10. CASE TimedOut(r)
    BY <1>1, <1>2, <1>10, StreamWaits DEF TimedOut
  <1>. QED BY <1>4, <1>5, <1>6, <1>7, <1>8, <1>9, <1>10

(* So does every other step.                                                 *)
LEMMA StreamStep ==
    ASSUME DecidedAlone, IInv, ModeInv, StreamInv, [Next]_vars
    PROVE  StreamInv'
  <1>. USE DEF StreamInv, EventIsNew, PressIsNew, Alternate
  <1>1. ASSUME NEW dt \in 0..MaxDelay, IdleScan(dt) PROVE StreamInv'
    <2>1. /\ pc = "scan" /\ pc' = "event" /\ ~event'.pressed /\ event'.key = NoKey
          /\ event'.count = 0 /\ UNCHANGED <<matrix, waiting_buffer>>
      BY <1>1 DEF IdleScan, Tick, KeyEvent
    <2>2. \A i \in DOMAIN waiting_buffer : waiting_buffer[i].key # NoKey
      BY DEF IInv, TypeOK, IsEvent
    <2>. QED BY <2>1, <2>2 DEF IsEvent
  <1>2. ASSUME NEW dt \in 0..MaxDelay, NEW changed \in SUBSET Key, ChangedScan(dt, changed)
        PROVE  StreamInv'
    <2>1. pc = "scan" /\ UNCHANGED <<pc, event, matrix, waiting_buffer>>
      BY <1>2 DEF ChangedScan
    <2>. QED BY <2>1
  <1>3. ASSUME NEW k \in Key, HandOn(k) PROVE StreamInv'
    <2>1. /\ pc = "scan" /\ pc' = "event" /\ event'.key = k /\ event'.count = 0
          /\ event'.pressed = (k \notin matrix)
          /\ matrix' = IF k \in matrix THEN matrix \ {k} ELSE matrix \cup {k}
          /\ UNCHANGED waiting_buffer
      BY <1>3 DEF HandOn, KeyEvent
    <2>2. \A i \in DOMAIN waiting_buffer : waiting_buffer[i].pressed \in BOOLEAN
      <3>1. waiting_buffer \in Seq(Record)
        BY DEF IInv, TypeOK
      <3>2. \A i \in DOMAIN waiting_buffer : waiting_buffer[i] \in Record
        BY <3>1
      <3>. QED BY <3>2 DEF Record
    <2>. QED BY <2>1, <2>2
  <1>4. CASE Drained
    <2>1. /\ pc = "drain" /\ pc' = "scan" /\ UNCHANGED <<event, matrix, waiting_buffer>>
      BY <1>4 DEF Drained, scanVars
    <2>. QED BY <2>1
  <1>5. CASE UNCHANGED vars
    BY <1>5 DEF vars
  <1>. QED BY <1>1, <1>2, <1>3, <1>4, <1>5, StreamProcessTapping DEF Next, Scan

(* A sequence without its i-th event.                                        *)
Drop(p, i) == [j \in 1..(Len(p) - 1) |-> p[IF j < i THEN j ELSE j + 1]]

(* What KeyStream knows of a sequence of records.                            *)
LEMMA FlagsAre ==
    ASSUME NEW s \in Seq(Record)
    PROVE  /\ Len(s) \in Nat /\ Len(Flags(s)) = Len(s) /\ DOMAIN Flags(s) = 1..Len(s)
           /\ Flags(s) = [i \in 1..Len(s) |-> Flag(s[i])]
           /\ \A i \in 1..Len(s) : Flags(s)[i] = Flag(s[i]) /\ s[i] \in Record
  <1>1. Len(s) \in Nat /\ DOMAIN s = 1..Len(s) /\ \A i \in 1..Len(s) : s[i] \in Record
    OBVIOUS
  <1>2. Flags(s) = [i \in 1..Len(s) |-> Flag(s[i])]
    BY <1>1 DEF Flags, Flag
  <1>3. Flags(s) \in Seq({Flag(r) : r \in Record})
    BY <1>1, <1>2
  <1>. QED BY <1>1, <1>2, <1>3

(* To leave an event out of the records is to leave it out of the flags, at  *)
(* any place ...                                                             *)
LEMMA DropIs ==
    ASSUME NEW s \in Seq(Record), NEW t \in Seq(Record), Len(s) = Len(t) + 1, NEW i \in Nat,
           \A j \in 1..Len(t) : t[j] = s[IF j < i THEN j ELSE j + 1]
    PROVE  Drop(Flags(s), i) = Flags(t)
  <1>1. /\ Len(t) \in Nat /\ Flags(t) = [j \in 1..Len(t) |-> Flag(t[j])]
        /\ Len(Flags(s)) = Len(t) + 1 /\ (Len(t) + 1) - 1 = Len(t)
        /\ \A j \in 1..(Len(t) + 1) : Flags(s)[j] = Flag(s[j])
    BY FlagsAre
  <1>2. \A j \in 1..Len(t) : Flag(t[j]) = Flags(s)[IF j < i THEN j ELSE j + 1]
    BY <1>1
  <1>. QED BY <1>1, <1>2 DEF Drop

(* ... at the head, behind the undecided key or at the end.                  *)
LEMMA DropHead ==
    ASSUME NEW s \in Seq(Record), s # <<>>
    PROVE  Drop(Flags(s), 1) = Flags(Tail(s))
  <1>1. /\ Len(s) \in Nat /\ Len(Tail(s)) = Len(s) - 1
        /\ \A i \in 1..(Len(s) - 1) : Tail(s)[i] = s[i + 1]
    BY TailIs
  <1>2. /\ Tail(s) \in Seq(Record) /\ Len(s) = Len(Tail(s)) + 1
        /\ \A j \in 1..Len(Tail(s)) : Tail(s)[j] = s[IF j < 1 THEN j ELSE j + 1]
    BY <1>1
  <1>. QED BY <1>2, DropIs

LEMMA DropFirst ==
    ASSUME NEW tk \in Record, NEW b \in Seq(Record)
    PROVE  Drop(Flags(<<tk>> \o b), 1) = Flags(b)
  <1>1. /\ <<tk>> \o b \in Seq(Record) /\ Len(<<tk>> \o b) = Len(b) + 1
        /\ \A j \in 1..Len(b) : b[j] = (<<tk>> \o b)[IF j < 1 THEN j ELSE j + 1]
    BY ConsIs
  <1>. QED BY <1>1, DropIs

LEMMA DropSecond ==
    ASSUME NEW tk \in Record, NEW b \in Seq(Record), b # <<>>
    PROVE  Drop(Flags(<<tk>> \o b), 2) = Flags(<<tk>> \o Tail(b))
  <1>. DEFINE c == <<tk>> \o Tail(b)
              w == <<tk>> \o b
  <1>1. /\ w \in Seq(Record) /\ Len(b) \in Nat /\ Len(w) = Len(b) + 1 /\ w[1] = tk
        /\ \A i \in 1..Len(b) : w[i + 1] = b[i]
    BY ConsIs
  <1>2. /\ Tail(b) \in Seq(Record) /\ Len(Tail(b)) = Len(b) - 1 /\ Len(b) >= 1
        /\ \A i \in 1..(Len(b) - 1) : Tail(b)[i] = b[i + 1]
    BY TailIs
  <1>3. /\ c \in Seq(Record) /\ Len(c) = Len(b) /\ c[1] = tk
        /\ \A i \in 1..(Len(b) - 1) : c[i + 1] = Tail(b)[i]
    BY <1>1, <1>2, ConsIs
  <1>. HIDE DEF c, w
  <1>4. ASSUME NEW i \in 1..Len(c) PROVE c[i] = w[IF i < 2 THEN i ELSE i + 1]
    <2>1. CASE i = 1
      BY <1>1, <1>3, <2>1
    <2>2. CASE i # 1
      <3>1. i - 1 \in 1..(Len(b) - 1) /\ (i - 1) + 1 = i /\ ~(i < 2) /\ i \in 1..Len(b)
        BY <1>1, <1>3, <2>2
      <3>2. c[i] = b[i] /\ w[i + 1] = b[i]
        BY <1>1, <1>2, <1>3, <3>1
      <3>. QED BY <3>1, <3>2
    <2>. QED BY <2>1, <2>2
  <1>5. Drop(Flags(w), 2) = Flags(c)
    BY <1>1, <1>3, <1>4, DropIs
  <1>. QED BY <1>5 DEF c, w

LEMMA DropLast ==
    ASSUME NEW b \in Seq(Record), NEW e \in Record
    PROVE  Drop(Flags(Append(b, e)), Len(b) + 1) = Flags(b)
  <1>1. /\ Append(b, e) \in Seq(Record) /\ Len(b) \in Nat /\ Len(Append(b, e)) = Len(b) + 1
        /\ \A j \in 1..Len(b) :
              b[j] = Append(b, e)[IF j < Len(b) + 1 THEN j ELSE j + 1]
    BY AppendIs
  <1>2. Len(b) + 1 \in Nat
    BY <1>1
  <1>. QED BY <1>1, <1>2, DropIs

(* Records that differ in their counts and times only are the same to        *)
(* KeyStream.                                                                *)
LEMMA SameFlags ==
    ASSUME NEW s \in Seq(Record), NEW t \in Seq(Record), Len(s) = Len(t),
           \A i \in 1..Len(s) : s[i].key = t[i].key /\ s[i].pressed = t[i].pressed
    PROVE  Flags(s) = Flags(t)
  BY FlagsAre DEF Flag

(* Facts about Append, for the event that arrives.                           *)
LEMMA ConsAppend ==
    ASSUME NEW tk \in Record, NEW b \in Seq(Record), NEW e \in Record
    PROVE  <<tk>> \o Append(b, e) = Append(<<tk>> \o b, e)
  OBVIOUS

LEMMA AppendOf ==
    ASSUME NEW S, NEW s \in Seq(S), NEW e \in S
    PROVE  Append(s, e) = [i \in 1..(Len(s) + 1) |-> IF i <= Len(s) THEN s[i] ELSE e]
  <1>. DEFINE t == Append(s, e)
  <1>1. /\ t \in Seq(S) /\ Len(s) \in Nat /\ Len(t) = Len(s) + 1
        /\ \A i \in 1..Len(s) : t[i] = s[i]
        /\ t[Len(s) + 1] = e
    OBVIOUS
  <1>. HIDE DEF t
  <1>2. t = [i \in 1..Len(t) |-> t[i]]
    BY <1>1
  <1>3. \A i \in 1..(Len(s) + 1) : t[i] = IF i <= Len(s) THEN s[i] ELSE e
    BY <1>1
  <1>4. t = [i \in 1..(Len(s) + 1) |-> IF i <= Len(s) THEN s[i] ELSE e]
    BY <1>1, <1>2, <1>3
  <1>. QED BY <1>4 DEF t

LEMMA FlagsAppend ==
    ASSUME NEW s \in Seq(Record), NEW e \in Record
    PROVE  Flags(Append(s, e)) = Append(Flags(s), Flag(e))
  <1>. DEFINE t == Append(s, e)
  <1>1. /\ t \in Seq(Record) /\ Len(s) \in Nat /\ Len(t) = Len(s) + 1
        /\ \A i \in 1..Len(s) : t[i] = s[i]
        /\ t[Len(s) + 1] = e
    BY AppendIs
  <1>. HIDE DEF t
  <1>2. /\ Flags(t) = [i \in 1..(Len(s) + 1) |-> Flag(t[i])]
        /\ Flags(s) = [i \in 1..Len(s) |-> Flag(s[i])] /\ Len(Flags(s)) = Len(s)
    BY <1>1, FlagsAre
  <1>. DEFINE S == {Flag(r) : r \in Record}
              f == Flags(s)
              g == Flag(e)
  <1>3. f \in Seq(S) /\ g \in S /\ Len(f) = Len(s) /\ \A i \in 1..Len(s) : f[i] = Flag(s[i])
    BY <1>1, <1>2
  <1>4. Append(f, g) = [i \in 1..(Len(f) + 1) |-> IF i <= Len(f) THEN f[i] ELSE g]
    <2>. HIDE DEF S, f, g
    <2>. QED BY <1>3, AppendOf
  <1>5. \A i \in 1..(Len(s) + 1) : Flag(t[i]) = IF i <= Len(s) THEN f[i] ELSE g
    BY <1>1, <1>3
  <1>6. Flags(t) = Append(f, g)
    <2>. HIDE DEF f, g
    <2>. QED BY <1>2, <1>3, <1>4, <1>5
  <1>. QED BY <1>6 DEF t

(* Steps of KeyStream, in terms of the records that wait: an event is        *)
(* delivered ...                                                             *)
LEMMA Delivers ==
    ASSUME Waiting \in Seq(Record), NEW i \in 1..Len(Waiting),
           \A j \in 1..(i - 1) : Waiting[j].key # Waiting[i].key,
           Flags(Waiting)' = Drop(Flags(Waiting), i),
           hid'.sent = IF Waiting[i].pressed THEN hid.sent \cup {Waiting[i].key}
                                             ELSE hid.sent \ {Waiting[i].key}
    PROVE  Stream!Next
  <1>1. /\ Len(Waiting) \in Nat /\ i \in DOMAIN Flags(Waiting)
        /\ \A j \in 1..(i - 1) : j \in 1..Len(Waiting)
        /\ \A j \in 1..Len(Waiting) :
              /\ Flags(Waiting)[j].key = Waiting[j].key
              /\ Flags(Waiting)[j].pressed = Waiting[j].pressed
    BY FlagsAre DEF Flag
  <1>2. Stream!FirstOfKey(i)
    BY <1>1 DEF Stream!FirstOfKey
  <1>3. Flags(Waiting)' = Stream!Without(i)
    BY DEF Stream!Without, Drop
  <1>4. hid'.sent = Stream!After(Flags(Waiting)[i])
    BY <1>1 DEF Stream!After
  <1>5. Stream!Deliver(i)
    BY <1>2, <1>3, <1>4 DEF Stream!Deliver
  <1>. QED BY <1>1, <1>5 DEF Stream!Next

(* ... the first of all ...                                                  *)
LEMMA DeliversFirst ==
    ASSUME Waiting \in Seq(Record), 1 \in 1..Len(Waiting),
           Flags(Waiting)' = Drop(Flags(Waiting), 1),
           hid'.sent = IF Waiting[1].pressed THEN hid.sent \cup {Waiting[1].key}
                                             ELSE hid.sent \ {Waiting[1].key}
    PROVE  Stream!Next
  <1>1. \A j \in 1..(1 - 1) : Waiting[j].key # Waiting[1].key
    OBVIOUS
  <1>. QED BY <1>1, Delivers

(* ... or the buffer overflows, with more events in line than it has slots.  *)
LEMMA LosesAll ==
    ASSUME Waiting \in Seq(Record), Waiting' = <<>>, Len(Waiting) > WAITING_BUFFER_SIZE,
           \/ hid'.sent = hid.sent
           \/ hid'.sent = IF Waiting[1].pressed THEN hid.sent \cup {Waiting[1].key}
                                                ELSE hid.sent \ {Waiting[1].key}
    PROVE  Stream!Next
  <1>1. /\ 1 \in DOMAIN Flags(Waiting) /\ 1 \in 1..Len(Waiting)
        /\ Flags(Waiting)[1].key = Waiting[1].key
        /\ Flags(Waiting)[1].pressed = Waiting[1].pressed
    <2>1. Len(Waiting) \in Nat /\ Len(Waiting) >= 1
      BY TappingAssumption
    <2>. QED BY <2>1, FlagsAre DEF Flag
  <1>2. Flags(Waiting)' = <<>> /\ Len(Flags(Waiting)) > WAITING_BUFFER_SIZE
    BY FlagsAre DEF Flags
  <1>3. UNCHANGED hid.sent \/ hid'.sent = Stream!After(Flags(Waiting)[1])
    BY <1>1 DEF Stream!After
  <1>4. Stream!LoseAll
    BY <1>2, <1>3 DEF Stream!LoseAll
  <1>. QED BY <1>4 DEF Stream!Next

(* At an overflow the ring is full, behind the undecided key and before the  *)
(* event that finds no slot.                                                 *)
LEMMA OverflowsBeyond ==
    ASSUME NEW b \in Seq(Record), Len(b) = WAITING_BUFFER_SIZE - 1, NEW r \in Record,
           NEW tk \in Record, Waiting = <<tk>> \o Append(b, r)
    PROVE  Len(Waiting) > WAITING_BUFFER_SIZE
  <1>1. Append(b, r) \in Seq(Record) /\ Len(Append(b, r)) = Len(b) + 1
    OBVIOUS
  <1>2. Len(Waiting) = Len(Append(b, r)) + 1
    BY <1>1, ConsIs
  <1>. QED BY <1>1, <1>2, TappingAssumption

-----------------------------------------------------------------------------
(* A step KeyStream does not see.                                            *)
StreamSame == Flags(Waiting)' = Flags(Waiting) /\ hid'.sent = hid.sent

(* A step of process_tapping() is a step of KeyStream or none.               *)
LEMMA StreamOfProcess ==
    ASSUME DecidedAlone, IInv, ModeInv, StreamInv, process_tapping
    PROVE  Stream!Next \/ StreamSame
  <1>. DEFINE r == Current
              w == waiting_buffer
              u == TappingKeyUndecided
  <1>1. /\ Running /\ w \in Seq(Record) /\ r \in Record /\ tapping_key \in Record
        /\ event \in Record /\ hid \in Downstream /\ NoRecord \in Record /\ ~IsEvent(NoRecord)
        /\ u \in BOOLEAN
    BY Outcomes, CurrentType, NoRecordType DEF IInv, TypeOK, TappingKeyUndecided, Record
  <1>2. /\ pc = "event" => r = event
        /\ pc # "event" => /\ ~IsEvent(event) /\ w # <<>> /\ r = w[1] /\ 1 \in DOMAIN w
                           /\ pc = "drain"
    BY <1>1, TailIs DEF Running, Current, StreamInv, EventIsNew
  <1>3. /\ Waiting = InLine(u, tapping_key, w, event)
        /\ Waiting' = InLine(u', tapping_key', w', event')
        /\ Waiting \in Seq(Record)
    BY <1>1, InLineType DEF Waiting, InLine
  <1>4. \/ Ignored(r) \/ Handled(r) \/ EarlierReleased(r)
        \/ Started(r) \/ Settled(r) \/ Kept(r) \/ TimedOut(r)
    BY Outcomes
  <1>. HIDE DEF r, w, u
  <1>5. ~u /\ IsEvent(r) =>
          /\ Waiting = IF pc = "event" THEN Append(<<>>, r) ELSE w
          /\ pc = "event" => w = <<>>
          /\ Waiting # <<>> /\ 1 \in 1..Len(Waiting) /\ Waiting[1] = r
    <2>. SUFFICES ASSUME ~u, IsEvent(r)
                  PROVE  /\ Waiting = IF pc = "event" THEN Append(<<>>, r) ELSE w
                         /\ pc = "event" => w = <<>>
                         /\ Waiting # <<>> /\ 1 \in 1..Len(Waiting) /\ Waiting[1] = r
      OBVIOUS
    <2>0. u = FALSE
      BY <1>1
    <2>1. CASE pc = "event"
      <3>1. w = <<>> /\ r = event
        BY <1>2, <2>1 DEF ModeInv, OnlyUndecidedWaits, w, u
      <3>2. Waiting = Append(w, r)
        <4>1. Waiting = InLine(FALSE, tapping_key, w, event) /\ IsEvent(event)
          BY <1>3, <2>0, <3>1
        <4>. QED BY <1>1, <3>1, <4>1, BufferThenEvent
      <3>. QED BY <1>1, <2>1, <3>1, <3>2
    <2>2. CASE pc # "event"
      <3>1. Waiting = w
        <4>1. Waiting = InLine(FALSE, tapping_key, w, event) /\ ~IsEvent(event)
          BY <1>2, <1>3, <2>0, <2>2
        <4>. QED BY <1>1, <4>1, OnlyBuffer
      <3>. QED BY <1>1, <1>2, <2>2, <3>1
    <2>. QED BY <2>1, <2>2
  <1>6. ASSUME ~u, IsEvent(r), NEW tk \in Record, NEW d, Processed(tk, waiting_buffer, d)
        PROVE  /\ Waiting' = InLine(UndecidedKey(tk), tk, Tail(Waiting), NoRecord)
               /\ w' = Tail(Waiting) /\ w' \in Seq(Record) /\ hid' = d
    <2>1. /\ tapping_key' = tk /\ event' = NoRecord /\ hid' = d
          /\ w' = IF pc = "event" THEN w ELSE Tail(w)
      BY <1>6 DEF Processed, w
    <2>2. w' = Tail(Waiting)
      <3>1. Tail(Append(<<>>, r)) = <<>>
        BY <1>1
      <3>. QED BY <1>5, <1>6, <2>1, <3>1
    <2>3. u' = UndecidedKey(tk)
      BY <2>1 DEF u, UndecidedKey, TappingKeyUndecided
    <2>4. Tail(Waiting) \in Seq(Record)
      BY <1>3, <1>5, <1>6
    <2>. QED BY <1>3, <2>1, <2>2, <2>3, <2>4
  <1>7. u => /\ pc = "event" /\ IsEvent(r) => Waiting = <<tapping_key>> \o Append(w, r)
             /\ ~(pc = "event" /\ IsEvent(r)) => Waiting = <<tapping_key>> \o w
             /\ Waiting # <<>> /\ Waiting[1] = tapping_key /\ 1 \in 1..Len(Waiting)
             /\ tapping_key.pressed /\ IsEvent(tapping_key)
    <2>. SUFFICES ASSUME u
                  PROVE  /\ pc = "event" /\ IsEvent(r) => Waiting = <<tapping_key>> \o Append(w, r)
                         /\ ~(pc = "event" /\ IsEvent(r)) => Waiting = <<tapping_key>> \o w
                         /\ Waiting # <<>> /\ Waiting[1] = tapping_key /\ 1 \in 1..Len(Waiting)
                         /\ tapping_key.pressed /\ IsEvent(tapping_key)
      OBVIOUS
    <2>0. u = TRUE /\ tapping_key.pressed /\ IsEvent(tapping_key)
      BY <1>1 DEF u, TappingKeyUndecided
    <2>1. /\ pc = "event" /\ IsEvent(r) => Waiting = <<tapping_key>> \o Append(w, r)
          /\ ~(pc = "event" /\ IsEvent(r)) => Waiting = <<tapping_key>> \o w
      <3>1. Waiting = InLine(TRUE, tapping_key, w, event)
        BY <1>3, <2>0
      <3>2. CASE IsEvent(event)
        <4>1. pc = "event" /\ r = event
          BY <1>2, <3>2
        <4>. QED BY <1>1, <3>1, <3>2, <4>1, KeyBufferEvent
      <3>3. CASE ~IsEvent(event)
        <4>1. ~(pc = "event" /\ IsEvent(r))
          BY <1>2, <3>3
        <4>. QED BY <1>1, <3>1, <3>3, <4>1, KeyThenBuffer
      <3>. QED BY <3>2, <3>3
    <2>2. Append(w, r) \in Seq(Record)
      BY <1>1
    <2>3. \A b \in Seq(Record) :
             LET c == <<tapping_key>> \o b
             IN  c # <<>> /\ c[1] = tapping_key /\ 1 \in 1..Len(c)
      BY <1>1, ConsIs
    <2>. QED BY <1>1, <2>0, <2>1, <2>2, <2>3
  <1>8. CASE Ignored(r)
    <2>1. /\ tapping_key' = tapping_key /\ w' = w /\ event' = NoRecord /\ hid' = hid
          /\ ~IsEvent(event)
      BY <1>2, <1>8 DEF Ignored, Processed, w
    <2>2. u' = u
      BY <2>1 DEF u, TappingKeyUndecided
    <2>3. Waiting' = Waiting
      BY <1>1, <1>3, <2>1, <2>2 DEF InLine
    <2>. QED BY <2>1, <2>3 DEF StreamSame
  <1>9. CASE Handled(r)
    <2>1. PICK tk \in Record, c \in Record :
             /\ ~UndecidedKey(tk) /\ c.key = r.key /\ c.pressed = r.pressed
             /\ Processed(tk, waiting_buffer, process_record(hid, c))
      BY <1>9 DEF Handled
    <2>2. ~u /\ IsEvent(r) /\ IsEvent(c)
      BY <1>9, <2>1 DEF Handled, u, IsEvent
    <2>3. /\ hid'.sent = IF r.pressed THEN hid.sent \cup {r.key} ELSE hid.sent \ {r.key}
      <3>1. hid' = process_record(hid, c)
        BY <1>6, <2>1, <2>2
      <3>. QED BY <1>1, <2>1, <2>2, <3>1, SentIs
    <2>4. Waiting' = Tail(Waiting)
      <3>1. UndecidedKey(tk) = FALSE
        BY <2>1 DEF UndecidedKey
      <3>2. Waiting' = InLine(FALSE, tk, Tail(Waiting), NoRecord) /\ Tail(Waiting) \in Seq(Record)
        BY <1>6, <2>1, <2>2, <3>1
      <3>. QED BY <1>1, <3>2, OnlyBuffer
    <2>5. Flags(Waiting)' = Drop(Flags(Waiting), 1)
      BY <1>3, <1>5, <2>2, <2>4, DropHead
    <2>. QED BY <1>3, <1>5, <2>2, <2>3, <2>5, DeliversFirst
  <1>10. CASE EarlierReleased(r)
    <2>1. /\ u /\ IsEvent(r) /\ ~r.pressed /\ r.key # tapping_key.key /\ ~waiting_buffer_typed(r)
          /\ tapping_key' = tapping_key /\ event' = NoRecord /\ hid' = process_record(hid, r)
          /\ w' = IF pc = "event" THEN w ELSE Tail(w)
      BY <1>10 DEF EarlierReleased, Processed, w, u
    <2>2. hid'.sent = hid.sent \ {r.key}
      BY <1>1, <2>1, SentIs
    <2>3. u' = TRUE
      BY <1>1, <2>1 DEF u, TappingKeyUndecided
    <2>4. w' \in Seq(Record) /\ Waiting' = <<tapping_key>> \o w'
      <3>1. w' \in Seq(Record)
        BY <1>1, <1>2, <2>1
      <3>2. Waiting' = InLine(TRUE, tapping_key, w', NoRecord)
        BY <1>3, <2>1, <2>3
      <3>. QED BY <1>1, <3>1, <3>2, KeyThenBuffer
    <2>5. CASE pc = "event"
      <3>. DEFINE b == <<tapping_key>> \o w
      <3>1. /\ b \in Seq(Record) /\ Len(w) \in Nat /\ Len(b) = Len(w) + 1 /\ b[1] = tapping_key
            /\ \A i \in 1..Len(w) : b[i + 1] = w[i]
        BY <1>1, ConsIs
      <3>2. Waiting' = b /\ Waiting = Append(b, r)
        BY <1>1, <1>7, <2>1, <2>4, <2>5, ConsAppend
      <3>. HIDE DEF b
      <3>3. /\ Len(b) + 1 \in 1..Len(Waiting) /\ Waiting[Len(b) + 1] = r /\ (Len(b) + 1) - 1 = Len(b)
            /\ \A j \in 1..Len(b) : Waiting[j] = b[j]
        BY <1>1, <3>1, <3>2, AppendIs
      <3>4. Flags(Waiting)' = Drop(Flags(Waiting), Len(b) + 1)
        BY <1>1, <3>1, <3>2, DropLast
      <3>5. \A i \in 1..Len(w) : w[i].key # r.key
        <4>1. \A i \in DOMAIN w : w[i].key # event.key
          BY <1>2, <2>1, <2>5, NoneEarlier DEF w
        <4>. QED BY <1>1, <1>2, <2>5, <4>1
      <3>6. ASSUME NEW j \in 1..((Len(b) + 1) - 1)
            PROVE  Waiting[j].key # Waiting[Len(b) + 1].key
        <4>1. CASE j = 1
          BY <2>1, <3>1, <3>3, <4>1
        <4>2. CASE j # 1
          <5>1. j - 1 \in 1..Len(w) /\ (j - 1) + 1 = j /\ j \in 1..Len(b)
            BY <3>1, <4>2
          <5>. QED BY <3>1, <3>3, <3>5, <5>1
        <4>. QED BY <4>1, <4>2
      <3>. QED BY <1>3, <2>1, <2>2, <3>3, <3>4, <3>6, Delivers
    <2>6. CASE pc # "event"
      <3>1. Waiting' = <<tapping_key>> \o Tail(w) /\ Waiting = <<tapping_key>> \o w
        BY <1>7, <2>1, <2>4, <2>6
      <3>2. Flags(Waiting)' = Drop(Flags(Waiting), 2)
        BY <1>1, <1>2, <2>6, <3>1, DropSecond
      <3>3. /\ Len(Waiting) = Len(w) + 1 /\ Len(w) \in Nat /\ Len(w) >= 1
            /\ Waiting[1] = tapping_key /\ Waiting[1 + 1] = w[1]
        BY <1>1, <1>2, <2>6, <3>1, ConsIs, TailIs
      <3>4. 2 \in 1..Len(Waiting) /\ Waiting[2] = r /\ \A j \in 1..(2 - 1) : j = 1
        BY <1>2, <2>6, <3>3
      <3>. QED BY <1>3, <2>1, <2>2, <3>2, <3>3, <3>4, Delivers
    <2>. QED BY <2>5, <2>6
  <1>11. CASE Started(r)
    <2>1. PICK d \in Downstream :
             /\ \/ d.sent = hid.sent
                \/ IsEvent(tapping_key) /\ d.sent = hid.sent \ {tapping_key.key}
             /\ Processed(r, waiting_buffer, d)
      BY <1>11, StartedSends DEF r
    <2>2. ~u /\ IsEvent(r) /\ r.pressed /\ TapKey(r.key)
      BY <1>11 DEF Started, u
    <2>3. UndecidedKey(r) = TRUE
      <3>1. r.count = 0
        BY <1>1, <1>2, <2>2 DEF StreamInv, EventIsNew, PressIsNew, w, Running
      <3>. QED BY <2>2, <3>1 DEF UndecidedKey
    <2>4. Tail(Waiting) = <<>>
      <3>1. pc = "drain" => Tail(w) = <<>>
        BY <1>1, <2>2, PressAlone DEF r, u, w
      <3>2. Tail(Append(<<>>, r)) = <<>>
        BY <1>1
      <3>. QED BY <1>2, <1>5, <2>2, <3>1, <3>2
    <2>5. Waiting' = <<r>> /\ hid' = d
      <3>1. InLine(TRUE, r, <<>>, NoRecord) = <<r>>
        BY <1>1 DEF InLine
      <3>. QED BY <1>1, <1>6, <2>1, <2>2, <2>3, <2>4, <3>1
    <2>6. Waiting = <<r>>
      <3>. DEFINE v == Waiting
      <3>1. v \in Seq(Record) /\ v # <<>> /\ v[1] = r /\ Tail(v) = <<>>
        BY <1>3, <1>5, <2>2, <2>4
      <3>. HIDE DEF v
      <3>2. PICK n \in Nat : n = Len(v) /\ Len(Tail(v)) = n - 1
        BY <3>1, TailIs
      <3>3. Len(v) = 1
        <4>1. Len(Tail(v)) = 0
          <5>1. Tail(v) = <<>> /\ Len(<<>>) = 0
            BY <3>1
          <5>. QED BY <5>1, Zenon
        <4>. QED BY <3>2, <4>1
      <3>4. v = <<r>>
        BY <1>1, <3>1, <3>3
      <3>. QED BY <3>4 DEF v
    <2>7. CASE d.sent = hid.sent
      BY <2>5, <2>6, <2>7 DEF StreamSame
    <2>8. CASE IsEvent(tapping_key) /\ d.sent = hid.sent \ {tapping_key.key}
      <3>1. PICK k \in Key : k = tapping_key.key
        BY <1>1, <2>8 DEF Record, IsEvent
      <3>2. CASE k \in hid.sent
        <4>1. 1 \in DOMAIN Flags(Waiting) /\ Flags(Waiting)[1].pressed
          BY <1>3, <1>5, <2>2, FlagsAre DEF Flag
        <4>2. Stream!FirstOfKey(1)
          BY DEF Stream!FirstOfKey
        <4>3. Stream!ReleaseEarly(k)
          BY <2>5, <2>6, <2>8, <3>1, <3>2, <4>1, <4>2 DEF Stream!ReleaseEarly
        <4>. QED BY <4>3 DEF Stream!Next
      <3>3. CASE k \notin hid.sent
        BY <2>5, <2>6, <2>8, <3>1, <3>3 DEF StreamSame
      <3>. QED BY <3>2, <3>3
    <2>. QED BY <2>1, <2>7, <2>8
  <1>12. CASE Settled(r)
    <2>1. PICK tk \in Record, left \in Record, q \in Record :
             /\ tk.key = tapping_key.key /\ tk.pressed /\ ~UndecidedKey(left)
             /\ q.key = r.key /\ q.pressed = r.pressed
             /\ NotProcessed(q, left, process_record(hid, tk))
      BY <1>12, NoRecordType DEF Settled, UndecidedKey
    <2>2. u /\ pc = "event"
      BY <1>12 DEF Settled, u
    <2>3. hid'.sent = hid.sent \cup {tapping_key.key}
      <3>1. IsEvent(tk)
        BY <1>7, <2>1, <2>2 DEF IsEvent
      <3>2. process_record(hid, tk) \in Downstream
        BY <1>1, <3>1, ProcessRecordType
      <3>3. process_record(hid, tk).sent = hid.sent \cup {tapping_key.key}
        BY <1>1, <2>1, <3>1, SentIs
      <3>. QED BY <1>1, <2>1, <2>2, <3>2, <3>3, OverflowSends
    <2>4. CASE Overflow(q, process_record(hid, tk))
      <3>1. w' = <<>> /\ tapping_key' = NoRecord /\ event' = NoRecord
        BY <2>4 DEF Overflow, w
      <3>2. Waiting' = <<>>
        BY <1>1, <3>1 DEF Waiting, TappingKeyUndecided, w
      <3>3. IsEvent(r) /\ Len(w) = WAITING_BUFFER_SIZE - 1
        BY <2>1, <2>4 DEF Overflow, Full, w, IsEvent
      <3>4. Len(Waiting) > WAITING_BUFFER_SIZE
        <4>1. Waiting = <<tapping_key>> \o Append(w, r)
          BY <1>7, <2>2, <3>3
        <4>. QED BY <1>1, <3>3, <4>1, OverflowsBeyond
      <3>. QED BY <1>3, <1>7, <2>2, <2>3, <3>2, <3>4, LosesAll
    <2>5. CASE Enqueued(q, left, process_record(hid, tk))
      <3>1. /\ tapping_key' = left /\ event' = NoRecord
            /\ w' = IF IsEvent(q) THEN Append(w, q) ELSE w
            /\ IsEvent(q) <=> IsEvent(r)
        BY <2>1, <2>5 DEF Enqueued, w, IsEvent
      <3>2. u' = FALSE
        BY <2>1, <3>1 DEF u, UndecidedKey, TappingKeyUndecided
      <3>. DEFINE b == IF IsEvent(r) THEN Append(w, r) ELSE w
                  v == IF IsEvent(q) THEN Append(w, q) ELSE w
      <3>3. b \in Seq(Record) /\ v \in Seq(Record)
        BY <1>1
      <3>4. Waiting = <<tapping_key>> \o b
        BY <1>7, <2>2
      <3>5. Waiting' = v
        <4>1. w' = v
          BY <3>1
        <4>2. Waiting' = InLine(FALSE, left, v, NoRecord)
          BY <1>3, <3>1, <3>2, <4>1
        <4>. HIDE DEF v
        <4>. QED BY <1>1, <2>1, <3>3, <4>2, OnlyBuffer
      <3>6. Flags(v) = Flags(b)
        <4>1. CASE ~IsEvent(r)
          BY <3>1, <4>1
        <4>2. CASE IsEvent(r)
          <5>1. /\ Len(v) = Len(b)
                /\ \A i \in 1..Len(v) : v[i].key = b[i].key /\ v[i].pressed = b[i].pressed
            BY <1>1, <2>1, <3>1, <4>2, AppendIs
          <5>. QED BY <3>3, <5>1, SameFlags
        <4>. QED BY <4>1, <4>2
      <3>. HIDE DEF b, v
      <3>7. Flags(Waiting)' = Drop(Flags(Waiting), 1)
        BY <1>1, <3>3, <3>4, <3>5, <3>6, DropFirst
      <3>. QED BY <1>3, <1>7, <2>2, <2>3, <3>7, DeliversFirst
    <2>. QED BY <2>1, <2>2, <2>4, <2>5 DEF NotProcessed, StopDraining
  <1>13. CASE Kept(r)
    <2>1. u /\ IsEvent(r) /\ tapping_key.pressed
      BY <1>13 DEF Kept, u, TappingKeyUndecided
    <2>2. PICK left \in Record : SameKey(left) /\ NotProcessed(r, left, hid)
      BY <1>13 DEF Kept
    <2>3. CASE Overflow(r, hid)
      <3>1. w' = <<>> /\ tapping_key' = NoRecord /\ event' = NoRecord /\ pc = "event"
        BY <2>3 DEF Overflow, w
      <3>2. Waiting' = <<>>
        BY <1>1, <3>1 DEF Waiting, TappingKeyUndecided, w
      <3>3. hid'.sent = hid.sent
        BY <1>1, <2>2, <3>1, OverflowSends
      <3>4. Len(Waiting) > WAITING_BUFFER_SIZE
        <4>1. IsEvent(r) /\ Len(w) = WAITING_BUFFER_SIZE - 1
          BY <2>3 DEF Overflow, Full, w
        <4>2. Waiting = <<tapping_key>> \o Append(w, r)
          BY <1>7, <2>1, <3>1, <4>1
        <4>. QED BY <1>1, <4>1, <4>2, OverflowsBeyond
      <3>. QED BY <1>3, <1>7, <2>1, <3>2, <3>3, <3>4, LosesAll
    <2>4. CASE Enqueued(r, left, hid) \/ StopDraining(r, left, hid)
      <3>1. /\ tapping_key' = left /\ event' = NoRecord /\ hid' = hid
            /\ w' = IF pc = "event" THEN Append(w, r) ELSE w
        <4>1. CASE pc = "event"
          BY <2>1, <2>4, <4>1 DEF Enqueued, StopDraining, w
        <4>2. CASE pc # "event"
          <5>1. w' = [w EXCEPT ![1] = r]
            BY <2>4, <4>2 DEF Enqueued, StopDraining, w
          <5>2. [w EXCEPT ![1] = r] = w
            BY <1>1, <1>2, <4>2
          <5>. QED BY <2>4, <4>2, <5>1, <5>2 DEF Enqueued, StopDraining
        <4>. QED BY <4>1, <4>2
      <3>2. u' = TRUE /\ left.key = tapping_key.key /\ left.pressed = tapping_key.pressed
        BY <1>1, <2>1, <2>2, <3>1 DEF u, TappingKeyUndecided, SameKey, IsEvent
      <3>3. w' \in Seq(Record)
        BY <1>1, <3>1
      <3>4. Waiting' = <<left>> \o w'
        <4>1. Waiting' = InLine(TRUE, left, w', NoRecord)
          BY <1>3, <3>1, <3>2
        <4>. QED BY <1>1, <2>2, <3>3, <4>1, KeyThenBuffer
      <3>5. Waiting = <<tapping_key>> \o w'
        BY <1>7, <2>1, <3>1
      <3>6. Flags(<<left>> \o w') = Flags(<<tapping_key>> \o w')
        <4>. DEFINE a == <<left>> \o w'
                    b == <<tapping_key>> \o w'
        <4>1. /\ a \in Seq(Record) /\ b \in Seq(Record) /\ Len(w') \in Nat
              /\ Len(a) = Len(w') + 1 /\ Len(b) = Len(w') + 1
              /\ a[1] = left /\ b[1] = tapping_key
              /\ \A i \in 1..Len(w') : a[i + 1] = w'[i] /\ b[i + 1] = w'[i]
          BY <1>1, <2>2, <3>3, ConsIs
        <4>. HIDE DEF a, b
        <4>2. ASSUME NEW i \in 1..Len(a)
              PROVE  a[i].key = b[i].key /\ a[i].pressed = b[i].pressed
          <5>1. CASE i = 1
            BY <3>2, <4>1, <5>1
          <5>2. CASE i # 1
            <6>1. i - 1 \in 1..Len(w') /\ (i - 1) + 1 = i
              BY <4>1, <5>2
            <6>2. a[(i - 1) + 1] = b[(i - 1) + 1]
              BY <4>1, <6>1
            <6>. QED BY <6>1, <6>2
          <5>. QED BY <5>1, <5>2
        <4>3. Flags(a) = Flags(b)
          BY <4>1, <4>2, SameFlags
        <4>. QED BY <4>3 DEF a, b
      <3>7. Flags(Waiting)' = Flags(Waiting)
        BY <3>4, <3>5, <3>6 DEF Flags
      <3>. QED BY <3>1, <3>7 DEF StreamSame
    <2>. QED BY <2>2, <2>3, <2>4 DEF NotProcessed
  <1>14. CASE TimedOut(r)
    <2>1. pc = "event" /\ ~u /\ w = <<>> /\ r = event /\ NotProcessed(r, NoRecord, hid)
      BY <1>2, <1>14 DEF TimedOut, TappingKeyUndecided, u, w
    <2>2. ~Overflow(r, hid)
      BY <2>1, TappingAssumption DEF Overflow, Full, w
    <2>3. /\ tapping_key' = NoRecord /\ event' = NoRecord /\ hid' = hid
          /\ w' = IF IsEvent(event) THEN Append(w, event) ELSE w
      BY <2>1, <2>2 DEF NotProcessed, Enqueued, StopDraining, w
    <2>4. u' = FALSE /\ u = FALSE
      BY <1>1, <2>1, <2>3 DEF u, TappingKeyUndecided
    <2>5. w' \in Seq(Record)
      BY <1>1, <2>3
    <2>6. Waiting' = w'
      <3>1. Waiting' = InLine(FALSE, NoRecord, w', NoRecord)
        BY <1>3, <2>3, <2>4
      <3>. QED BY <1>1, <2>5, <3>1, OnlyBuffer
    <2>7. Waiting = w'
      <3>1. Waiting = InLine(FALSE, tapping_key, w, event)
        BY <1>3, <2>4
      <3>. QED BY <1>1, <2>3, <3>1, OnlyBuffer, BufferThenEvent
    <2>. QED BY <2>3, <2>6, <2>7 DEF StreamSame
  <1>. QED BY <1>4, <1>8, <1>9, <1>10, <1>11, <1>12, <1>13, <1>14

(* So is every other step: the matrix scan is where an event arrives.        *)
LEMMA StreamOfStep ==
    ASSUME DecidedAlone, IInv, ModeInv, StreamInv, [Next]_vars
    PROVE  Stream!Next \/ StreamSame
  <1>0. /\ waiting_buffer \in Seq(Record) /\ tapping_key \in Record /\ hid \in Downstream
        /\ event \in Record /\ (pc # "event" => ~IsEvent(event))
    BY DEF IInv, TypeOK, StreamInv, EventIsNew
  <1>1. ASSUME UNCHANGED <<tapping_key, waiting_buffer>>, hid'.sent = hid.sent,
               event' = event \/ (~IsEvent(event) /\ ~IsEvent(event'))
        PROVE  StreamSame
    <2>1. Waiting' = Waiting
      BY <1>1 DEF Waiting, TappingKeyUndecided
    <2>. QED BY <1>1, <2>1 DEF StreamSame
  <1>2. ASSUME NEW dt \in 0..MaxDelay, IdleScan(dt) PROVE StreamSame
    <2>1. /\ UNCHANGED <<tapping_key, waiting_buffer, hid>> /\ pc = "scan" /\ event'.key = NoKey
      BY <1>2 DEF IdleScan, Tick, KeyEvent
    <2>2. ~IsEvent(event')
      BY <2>1 DEF IsEvent
    <2>. QED BY <1>0, <1>1, <2>1, <2>2
  <1>3. ASSUME NEW dt \in 0..MaxDelay, NEW changed \in SUBSET Key, ChangedScan(dt, changed)
        PROVE  StreamSame
    BY <1>1, <1>3 DEF ChangedScan
  <1>4. ASSUME NEW k \in Key, HandOn(k) PROVE Stream!Next
    <2>. DEFINE e == KeyEvent(k, k \notin matrix, now)
    <2>1. /\ pc = "scan" /\ event' = e /\ UNCHANGED <<tapping_key, waiting_buffer>>
          /\ hid'.sent = hid.sent
      BY <1>0, <1>4 DEF HandOn, clear_weak_mods, Downstream
    <2>2. e \in Record /\ e.key = k /\ IsEvent(e) /\ e.pressed \in BOOLEAN
      <3>1. k # NoKey
        BY KeymapAssumption DEF Key, NoKey
      <3>2. now \in Time /\ 0 \in 0..MaxCount
        BY KeymapAssumption DEF IInv, TypeOK
      <3>. QED BY <3>1, <3>2 DEF KeyEvent, Record, IsEvent
    <2>. HIDE DEF e
    <2>3. Waiting \in Seq(Record) /\ Waiting' = Append(Waiting, e)
      <3>1. CASE TappingKeyUndecided
        <4>1. /\ InLine(TRUE, tapping_key, waiting_buffer, event) = <<tapping_key>> \o waiting_buffer
              /\ InLine(TRUE, tapping_key, waiting_buffer, e)
                   = Append(<<tapping_key>> \o waiting_buffer, e)
              /\ <<tapping_key>> \o waiting_buffer \in Seq(Record)
          <5>1. InLine(TRUE, tapping_key, waiting_buffer, event) = <<tapping_key>> \o waiting_buffer
            BY <1>0, <2>1, KeyThenBuffer
          <5>2. InLine(TRUE, tapping_key, waiting_buffer, e)
                  = <<tapping_key>> \o Append(waiting_buffer, e)
            BY <1>0, <2>2, KeyBufferEvent
          <5>3. <<tapping_key>> \o Append(waiting_buffer, e)
                  = Append(<<tapping_key>> \o waiting_buffer, e)
            BY <1>0, <2>2, ConsAppend
          <5>4. <<tapping_key>> \o waiting_buffer \in Seq(Record)
            BY <1>0, ConsIs
          <5>. QED BY <5>1, <5>2, <5>3, <5>4
        <4>2. /\ Waiting = InLine(TRUE, tapping_key, waiting_buffer, event)
              /\ Waiting' = InLine(TRUE, tapping_key, waiting_buffer, e)
          BY <2>1, <3>1 DEF Waiting, InLine, TappingKeyUndecided
        <4>. QED BY <4>1, <4>2
      <3>2. CASE ~TappingKeyUndecided
        <4>1. /\ InLine(FALSE, tapping_key, waiting_buffer, event) = waiting_buffer
              /\ InLine(FALSE, tapping_key, waiting_buffer, e) = Append(waiting_buffer, e)
          BY <1>0, <2>1, <2>2, OnlyBuffer, BufferThenEvent
        <4>2. /\ Waiting = InLine(FALSE, tapping_key, waiting_buffer, event)
              /\ Waiting' = InLine(FALSE, tapping_key, waiting_buffer, e)
          BY <2>1, <3>2 DEF Waiting, InLine, TappingKeyUndecided
        <4>. QED BY <1>0, <4>1, <4>2
      <3>. QED BY <3>1, <3>2
    <2>4. Flags(Waiting)' = Append(Flags(Waiting), [key |-> k, pressed |-> e.pressed])
      BY <2>2, <2>3, FlagsAppend DEF Flag
    <2>5. PICK p \in BOOLEAN : p = e.pressed
      BY <2>2
    <2>6. Stream!Arrive(k, p)
      BY <2>1, <2>4, <2>5 DEF Stream!Arrive
    <2>. QED BY <2>6 DEF Stream!Next
  <1>5. CASE Drained
    BY <1>1, <1>5 DEF Drained
  <1>6. CASE UNCHANGED vars
    BY <1>1, <1>6 DEF vars
  <1>. QED BY <1>2, <1>3, <1>4, <1>5, <1>6, StreamOfProcess DEF Next, Scan

LEMMA StreamOfInit == Init => Stream!Init
  <1>. SUFFICES ASSUME Init PROVE Stream!Init
    OBVIOUS
  <1>1. Waiting = <<>>
    BY NoRecordType DEF Init, Waiting, TappingKeyUndecided
  <1>2. Flags(Waiting) = <<>>
    BY <1>1 DEF Flags
  <1>. QED BY <1>2 DEF Init, InitDownstream, Stream!Init

(* Whatever is decided, delayed, repeated or made up, the events of each key *)
(* reach the host in the order the matrix saw them, and only an overflow of  *)
(* waiting_buffer loses any (action_tapping_process(), action_tapping.c:91): *)
(* ActionTapping implements KeyStream.                                       *)
THEOREM KeysStayInOrder == DecidedAlone => (Spec => EveryKeyInOrder)
  <1>. SUFFICES ASSUME DecidedAlone PROVE Spec => EveryKeyInOrder
    OBVIOUS
  <1>1. IInv /\ ModeInv /\ StreamInv /\ [Next]_vars => StreamInv'
    BY StreamStep
  <1>2. IInv /\ ModeInv /\ StreamInv /\ [Next]_vars => [Stream!Next]_(Stream!svars)
    BY StreamOfStep DEF StreamSame, Stream!svars
  <1>. QED BY <1>1, <1>2, StreamInitially, StreamOfInit, ModeInvariance, PTL
        DEF Spec, EveryKeyInOrder, Stream!Spec

-----------------------------------------------------------------------------
(* Nothing sticks.  A tapping key that has been tapped once waits for its    *)
(* release, which is still in the buffer ...                                 *)
TapOnce ==
    IsEvent(tapping_key) /\ tapping_key.pressed /\ tapping_key.count = 1 =>
        pc = "drain" /\ waiting_buffer # <<>>

(* ... and this is the only event that waits with a tap count.               *)
OnlyTapCounted ==
    \A i \in DOMAIN waiting_buffer :
        waiting_buffer[i].count > 0 => pc = "drain" /\ TapDown(waiting_buffer[i].key)

CountInv == TapOnce /\ OnlyTapCounted

LEMMA NoneTapped ==
    ASSUME TappingKeyUndecided, NEW k
    PROVE  ~TapDown(k)
  <1>1. tapping_key.count = 0
    BY DEF TappingKeyUndecided
  <1>. QED BY <1>1 DEF TapDown, TapOf

(* The record that is looked at has a count only as the release of a tap.    *)
LEMMA CurrentCount ==
    ASSUME IInv, ModeInv, StreamInv, CountInv, Running
    PROVE  /\ Current.count \in Nat
           /\ Current.count > 0 => pc = "drain" /\ TapDown(Current.key)
  <1>1. Current \in Record /\ waiting_buffer \in Seq(Record)
    BY CurrentType DEF IInv, TypeOK
  <1>2. Current.count \in Nat
    BY <1>1 DEF Record
  <1>3. CASE pc = "event"
    <2>1. Current.count = 0
      BY <1>3 DEF Current, StreamInv, EventIsNew
    <2>. QED BY <1>2, <2>1
  <1>4. CASE pc # "event"
    <2>1. Current = waiting_buffer[1] /\ 1 \in DOMAIN waiting_buffer
      BY <1>1, <1>4, TailIs DEF Running, Current
    <2>. QED BY <1>2, <2>1 DEF CountInv, OnlyTapCounted
  <1>. QED BY <1>3, <1>4

(* The events that are left wait as they did.                                *)
LEMMA CountProcessed ==
    ASSUME IInv, ModeInv, Running, CountInv, NEW tk \in Record, NEW d,
           Processed(tk, waiting_buffer, d),
           IsEvent(tk) /\ tk.pressed /\ tk.count = 1 => waiting_buffer' # <<>>,
           \A i \in DOMAIN waiting_buffer' : waiting_buffer'[i].count > 0 =>
              TapOf(tk, waiting_buffer'[i].key)
    PROVE  CountInv'
  BY DEF CountInv, TapOnce, OnlyTapCounted, Processed, TapDown, TapOf

LEMMA CountLeft ==
    ASSUME IInv, ModeInv, Running, CountInv, NEW tk \in Record, NEW d,
           Processed(tk, waiting_buffer, d),
           \A k \in Key : TapDown(k) => TapOf(tk, k)
    PROVE  \A i \in DOMAIN waiting_buffer' : waiting_buffer'[i].count > 0 =>
              TapOf(tk, waiting_buffer'[i].key)
  <1>. SUFFICES ASSUME NEW i \in DOMAIN waiting_buffer', waiting_buffer'[i].count > 0
                PROVE  TapOf(tk, waiting_buffer'[i].key)
    OBVIOUS
  <1>1. PICK j \in DOMAIN waiting_buffer : waiting_buffer'[i] = waiting_buffer[j]
    BY ProcessedLeaves
  <1>2. TapDown(waiting_buffer[j].key)
    BY <1>1 DEF CountInv, OnlyTapCounted
  <1>3. waiting_buffer[j].key \in Key
    <2>1. waiting_buffer[j] \in Record /\ IsEvent(waiting_buffer[j])
      BY DEF IInv, TypeOK
    <2>. HIDE DEF TapOf
    <2>. QED BY <2>1 DEF IsEvent, Record
  <1>. QED BY <1>1, <1>2, <1>3

LEMMA CountProcessTapping ==
    ASSUME DecidedAlone, IInv, ModeInv, StreamInv, CountInv, process_tapping
    PROVE  CountInv'
  <1>. DEFINE r == Current
  <1>1. /\ Running /\ waiting_buffer \in Seq(Record) /\ r \in Record /\ tapping_key \in Record
        /\ \A i \in DOMAIN waiting_buffer : waiting_buffer[i] \in Record
    BY Outcomes, CurrentType DEF IInv, TypeOK
  <1>2. /\ r.count \in Nat
        /\ r.count > 0 => pc = "drain" /\ TapDown(r.key)
    BY <1>1, CurrentCount
  <1>3. \/ Ignored(r) \/ Handled(r) \/ EarlierReleased(r)
        \/ Started(r) \/ Settled(r) \/ Kept(r) \/ TimedOut(r)
    BY Outcomes
  <1>4. pc = "event" => /\ \A i \in DOMAIN waiting_buffer : ~(waiting_buffer[i].count > 0)
                        /\ ~(IsEvent(tapping_key) /\ tapping_key.pressed /\ tapping_key.count = 1)
    BY DEF CountInv, TapOnce, OnlyTapCounted
  <1>5. TappingKeyUndecided =>
           /\ \A i \in DOMAIN waiting_buffer : ~(waiting_buffer[i].count > 0)
           /\ ~(tapping_key.count = 1)
    BY NoneTapped DEF CountInv, OnlyTapCounted, TappingKeyUndecided
  <1>. HIDE DEF r
  <1>6. ASSUME NEW q \in Record, NEW left \in Record, NEW d, NotProcessed(q, left, d),
               \A i \in DOMAIN waiting_buffer : ~(waiting_buffer[i].count > 0),
               q.count > 0 => pc = "event" /\ TapOf(left, q.key),
               left.count = 1 => pc = "event" /\ IsEvent(q)
        PROVE  CountInv'
    <2>1. CASE Enqueued(q, left, d)
      <3>1. /\ tapping_key' = left /\ pc' = "drain"
            /\ IsEvent(q) => waiting_buffer' = Append(waiting_buffer, q)
            /\ ~IsEvent(q) => waiting_buffer' = waiting_buffer
            /\ pc = "event"
        BY <2>1 DEF Enqueued
      <3>2. CASE IsEvent(q)
        <4>1. \A i \in DOMAIN waiting_buffer' :
                 waiting_buffer'[i] = q \/ \E j \in DOMAIN waiting_buffer :
                                               waiting_buffer'[i] = waiting_buffer[j]
          BY <1>1, <3>1, <3>2, AppendIs
        <4>2. waiting_buffer' # <<>>
          BY <1>1, <3>1, <3>2
        <4>. QED BY <1>6, <3>1, <4>1, <4>2 DEF CountInv, TapOnce, OnlyTapCounted, TapDown
      <3>3. CASE ~IsEvent(q)
        BY <1>6, <3>1, <3>3 DEF CountInv, TapOnce, OnlyTapCounted
      <3>. QED BY <3>2, <3>3
    <2>2. CASE Overflow(q, d)
      BY <2>2, NoRecordType DEF Overflow, CountInv, TapOnce, OnlyTapCounted
    <2>3. CASE StopDraining(q, left, d)
      <3>1. /\ tapping_key' = left /\ pc = "drain"
            /\ waiting_buffer' = [waiting_buffer EXCEPT ![1] = q]
        BY <2>3 DEF StopDraining
      <3>2. \A i \in DOMAIN waiting_buffer' :
               i \in DOMAIN waiting_buffer /\ (waiting_buffer'[i] = q \/ waiting_buffer'[i] = waiting_buffer[i])
        BY <1>1, <3>1
      <3>. QED BY <1>6, <3>1, <3>2 DEF CountInv, TapOnce, OnlyTapCounted
    <2>. QED BY <1>6, <2>1, <2>2, <2>3 DEF NotProcessed
  <1>7. CASE Ignored(r)
    BY <1>1, <1>4, <1>7, CountProcessed, CountLeft DEF Ignored, TapDown
  <1>8. CASE Handled(r)
    <2>1. PICK tk \in Record, c \in Record :
             /\ (SameKey(tk) /\ AsItCame(r, c)) \/ (LastOfKey(r, tk) /\ AsTap(tk, c))
             /\ c.key = r.key /\ c.pressed = r.pressed
             /\ Processed(tk, waiting_buffer, process_record(hid, c))
      BY <1>8 DEF Handled
    <2>2. IsEvent(r) /\ ~TappingKeyUndecided
      BY <1>8 DEF Handled
    <2>3. CASE SameKey(tk) /\ AsItCame(r, c)
      <3>1. \A k \in Key : TapDown(k) => TapOf(tk, k)
        BY <2>3 DEF SameKey, TapDown, TapOf
      <3>2. IsEvent(tk) /\ tk.pressed /\ tk.count = 1 => waiting_buffer' # <<>>
        <4>. SUFFICES ASSUME IsEvent(tk), tk.pressed, tk.count = 1 PROVE waiting_buffer' # <<>>
          OBVIOUS
        <4>1. /\ IsEvent(tapping_key) /\ tapping_key.pressed /\ tapping_key.count = 1
              /\ pc = "drain" /\ waiting_buffer # <<>>
          BY <2>3 DEF SameKey, IsEvent, CountInv, TapOnce
        <4>2. /\ r = waiting_buffer[1] /\ 1 \in DOMAIN waiting_buffer
              /\ Len(waiting_buffer) \in Nat /\ Len(waiting_buffer) \in DOMAIN waiting_buffer
          BY <1>1, <4>1, TailIs DEF Current, r
        <4>3. TapKey(tapping_key.key) /\ (TapKey(r.key) => ~r.pressed)
          BY <4>1, <4>2 DEF ModeInv, OfTapKey, PressIsLast
        <4>4. r.key # tapping_key.key
          BY <2>3, <4>1, <4>3 DEF AsItCame, TapDown, TapOf
        <4>5. 1 # Len(waiting_buffer)
          BY <4>1, <4>2, <4>4 DEF ModeInv, BehindTapped
        <4>6. waiting_buffer' = Tail(waiting_buffer)
          BY <2>1, <4>1 DEF Processed
        <4>7. Len(waiting_buffer) > 1 /\ Len(Tail(waiting_buffer)) = Len(waiting_buffer) - 1
          <5>. DEFINE s == waiting_buffer
          <5>1. s \in Seq(Record) /\ s # <<>> /\ 1 # Len(s)
            BY <1>1, <4>1, <4>5
          <5>. HIDE DEF s
          <5>2. Len(s) \in Nat /\ Len(s) >= 1 /\ Len(Tail(s)) = Len(s) - 1
            BY <5>1, TailIs
          <5>. QED BY <5>1, <5>2 DEF s
        <4>8. Len(waiting_buffer') # 0 /\ Len(<<>>) = 0
          BY <4>2, <4>6, <4>7
        <4>. QED BY <4>8
      <3>. QED BY <1>1, <2>1, <3>1, <3>2, CountProcessed, CountLeft
    <2>4. CASE LastOfKey(r, tk) /\ AsTap(tk, c)
      <3>1. /\ IsEvent(tapping_key) /\ r.key = tapping_key.key
            /\ ~(tk.pressed /\ tk.count = 1)
        <4>1. tk.count \in Nat
          BY DEF Record
        <4>. QED BY <2>2, <2>4, <4>1 DEF LastOfKey, AsTap, IsEvent
      <3>2. waiting_buffer' = <<>>
        BY <1>1, <2>1, <2>2, <3>1, PressAlone DEF Processed, Running, r
      <3>. QED BY <1>1, <2>1, <3>1, <3>2, CountProcessed
    <2>. QED BY <2>1, <2>3, <2>4
  <1>9. CASE EarlierReleased(r)
    BY <1>1, <1>5, <1>9, CountProcessed, CountLeft DEF EarlierReleased, TapDown
  <1>10. CASE Started(r)
    <2>1. PICK d \in Downstream : Processed(r, waiting_buffer, d)
      BY <1>10 DEF Started
    <2>2. IsEvent(r) /\ ~TappingKeyUndecided /\ r.pressed /\ TapKey(r.key)
      BY <1>10 DEF Started
    <2>3. waiting_buffer' = <<>>
      BY <1>1, <2>1, <2>2, PressAlone DEF Processed, Running, r
    <2>4. r.count = 0
      BY <1>1, <1>2, <2>2, TailIs DEF StreamInv, EventIsNew, PressIsNew, Running, Current, r
    <2>. QED BY <1>1, <2>1, <2>3, <2>4, CountProcessed
  <1>11. CASE Settled(r)
    <2>1. PICK tk \in Record, left \in Record, q \in Record :
             /\ q.key = r.key
             /\ \/ q = r /\ left = NoRecord
                \/ /\ ~q.pressed /\ q.key = tapping_key.key
                   /\ left.key = tapping_key.key /\ left.pressed /\ left.count > 0
             /\ NotProcessed(q, left, process_record(hid, tk))
      BY <1>11 DEF Settled
    <2>2. pc = "event" /\ TappingKeyUndecided
      BY <1>11 DEF Settled
    <2>3. CASE q = r /\ left = NoRecord
      <3>1. left.count = 0 /\ ~(q.count > 0)
        BY <1>2, <2>2, <2>3 DEF NoRecord, Tick, KeyEvent
      <3>. QED BY <1>4, <1>6, <2>1, <2>2, <3>1
    <2>4. CASE /\ ~q.pressed /\ q.key = tapping_key.key
               /\ left.key = tapping_key.key /\ left.pressed /\ left.count > 0
      <3>1. TapOf(left, q.key) /\ IsEvent(q)
        BY <2>2, <2>4 DEF TapOf, TappingKeyUndecided, IsEvent
      <3>. QED BY <1>4, <1>6, <2>1, <2>2, <3>1
    <2>. QED BY <2>1, <2>3, <2>4
  <1>12. CASE Kept(r)
    <2>1. PICK left \in Record :
             left.count = tapping_key.count /\ NotProcessed(r, left, hid)
      BY <1>12 DEF Kept, SameKey
    <2>2. ~(r.count > 0) /\ TappingKeyUndecided
      BY <1>2, <1>12, NoneTapped DEF Kept
    <2>. QED BY <1>1, <1>5, <1>6, <2>1, <2>2
  <1>13. CASE TimedOut(r)
    <2>1. pc = "event" /\ NotProcessed(r, NoRecord, hid)
      BY <1>13 DEF TimedOut
    <2>2. ~(r.count > 0) /\ NoRecord \in Record /\ NoRecord.count = 0
      BY <1>2, <2>1, NoRecordType DEF NoRecord, Tick, KeyEvent
    <2>. QED BY <1>1, <1>4, <1>6, <2>1, <2>2
  <1>. QED BY <1>3, <1>7, <1>8, <1>9, <1>10, <1>11, <1>12, <1>13

LEMMA CountStep ==
    ASSUME DecidedAlone, IInv, ModeInv, StreamInv, CountInv, [Next]_vars
    PROVE  CountInv'
  <1>. USE DEF CountInv, TapOnce, OnlyTapCounted, TapDown, TapOf
  <1>1. ASSUME UNCHANGED <<tapping_key, waiting_buffer>>, pc # "drain" PROVE CountInv'
    BY <1>1
  <1>2. ASSUME NEW dt \in 0..MaxDelay, IdleScan(dt) PROVE CountInv'
    BY <1>1, <1>2 DEF IdleScan
  <1>3. ASSUME NEW dt \in 0..MaxDelay, NEW changed \in SUBSET Key, ChangedScan(dt, changed)
        PROVE  CountInv'
    BY <1>1, <1>3 DEF ChangedScan
  <1>4. ASSUME NEW k \in Key, HandOn(k) PROVE CountInv'
    BY <1>1, <1>4 DEF HandOn
  <1>5. CASE Drained
    BY <1>5 DEF Drained
  <1>6. CASE UNCHANGED vars
    BY <1>6 DEF vars
  <1>. QED BY <1>2, <1>3, <1>4, <1>5, <1>6, CountProcessTapping DEF Next, Scan

LEMMA CountInitially == Init => CountInv
  BY NoRecordType DEF Init, CountInv, TapOnce, OnlyTapCounted

-----------------------------------------------------------------------------
(* What a key that is down gives to the report and to the layers, until its  *)
(* release takes it away: s is the source layer cache and tapped says        *)
(* whether the release will count as a tap.                                  *)
GivesCode(s, k, tapped, c) ==
    LET a == Keymap[s[k]][k]
    IN  c = a.code /\ (a.kind = "key" \/ (a.kind \in {"mt", "lt"} /\ tapped))

GivesMod(s, k, tapped, m) ==
    LET a == Keymap[s[k]][k]
    IN  m \in a.mods /\ (a.kind = "mod" \/ (a.kind = "mt" /\ ~tapped))

GivesLayer(s, k, tapped, l) ==
    LET a == Keymap[s[k]][k]
    IN  l = a.layer /\ (a.kind = "mo" \/ (a.kind = "lt" /\ ~tapped))

(* Every keycode and modifier in the report comes from one of the keys U,    *)
(* and every layer that is on too.  T are the keys that are down as taps.    *)
ReportFrom(d, U, T) ==
    /\ \A c \in d.keys : \E k \in U : GivesCode(d.src, k, k \in T, c)
    /\ \A m \in d.mods : \E k \in U : GivesMod(d.src, k, k \in T, m)

LayersFrom(d, U, T) == \A l \in d.layers : \E k \in U : GivesLayer(d.src, k, k \in T, l)

(* No layer is switched on and off by the taps of a TT() key.                *)
NoToggles == \A l \in Layer : \A k \in Key : Keymap[l][k].kind # "tt"

LEMMA PressEffect ==
    ASSUME NEW d \in Downstream, NEW r \in Record, IsEvent(r), r.pressed,
           NEW p, p = process_record(d, r),
           NEW a, a = layer_switch_get_action(d, r.key)
    PROVE  /\ r.key \in Key /\ p.src[r.key] \in Layer /\ a = Keymap[p.src[r.key]][r.key]
           /\ \A k \in Key \ {r.key} : p.src[k] = d.src[k]
           /\ \A c \in p.keys : c \in d.keys \/
                 (c = a.code /\ (a.kind = "key" \/ (a.kind \in {"mt", "lt"} /\ r.count > 0)))
           /\ \A m \in p.mods : m \in d.mods \/
                 (m \in a.mods /\ (a.kind = "mod" \/ (a.kind = "mt" /\ ~(r.count > 0))))
           /\ a.kind # "tt" => \A j \in p.layers : j \in d.layers \/
                 (j = a.layer /\ (a.kind = "mo" \/ (a.kind = "lt" /\ ~(r.count > 0))))
  <1>. DEFINE l == layer_switch_get_layer(d, r.key)
              e == [d EXCEPT !.src[r.key] = l, !.sent = @ \cup {r.key}]
  <1>1. r.key \in Key /\ l \in Layer
    BY LayerType DEF IsEvent, Record
  <1>2. p = Press(e, r, a) /\ a = Keymap[l][r.key]
    BY DEF process_record, store_or_get_layer, process_action, layer_switch_get_action
  <1>3. /\ e \in Downstream /\ e.keys = d.keys /\ e.mods = d.mods /\ e.layers = d.layers
        /\ e.src = [d.src EXCEPT ![r.key] = l]
    BY <1>1 DEF Downstream
  <1>4. /\ e.src[r.key] \in Layer /\ a = Keymap[e.src[r.key]][r.key]
        /\ \A k \in Key \ {r.key} : e.src[k] = d.src[k]
    BY <1>1, <1>2, <1>3 DEF Downstream
  <1>5. a \in Action
    BY <1>1, <1>2, ActionType
  <1>. HIDE DEF e, l
  <1>6. /\ register_code(e, a.code).src = e.src /\ register_code(e, a.code).mods = d.mods
        /\ register_code(e, a.code).layers = d.layers
        /\ \A c \in register_code(e, a.code).keys : c \in d.keys \/ c = a.code
        /\ [register_code(e, a.code) EXCEPT !.weak = @ \cup a.mods].src = e.src
        /\ [register_code(e, a.code) EXCEPT !.weak = @ \cup a.mods].mods = d.mods
        /\ [register_code(e, a.code) EXCEPT !.weak = @ \cup a.mods].layers = d.layers
        /\ \A c \in [register_code(e, a.code) EXCEPT !.weak = @ \cup a.mods].keys :
              c \in d.keys \/ c = a.code
    BY <1>3 DEF register_code, Downstream
  <1>7. /\ register_mods(e, a.mods).src = e.src /\ register_mods(e, a.mods).keys = d.keys
        /\ register_mods(e, a.mods).layers = d.layers
        /\ \A m \in register_mods(e, a.mods).mods : m \in d.mods \/ m \in a.mods
    BY <1>3 DEF register_mods, Downstream
  <1>8. /\ layer_on(e, a.layer).src = e.src /\ layer_on(e, a.layer).keys = d.keys
        /\ layer_on(e, a.layer).mods = d.mods
        /\ \A j \in layer_on(e, a.layer).layers : j \in d.layers \/ j = a.layer
    BY <1>3 DEF layer_on, Downstream
  <1>9. /\ layer_invert(e, a.layer).src = e.src /\ layer_invert(e, a.layer).keys = d.keys
        /\ layer_invert(e, a.layer).mods = d.mods
    BY <1>3 DEF layer_invert, layer_on, layer_off, Downstream
  <1>10. CASE a.kind = "key"
    <2>1. p = [register_code(e, a.code) EXCEPT !.weak = @ \cup a.mods]
      BY <1>2, <1>10 DEF Press
    <2>2. /\ p.src = e.src /\ p.mods = d.mods /\ p.layers = d.layers
          /\ \A c \in p.keys : c \in d.keys \/ c = a.code
      BY <1>6, <2>1
    <2>. QED BY <1>1, <1>4, <1>10, <2>2
  <1>11. CASE a.kind = "mod"
    <2>1. p = register_mods(e, a.mods)
      BY <1>2, <1>11 DEF Press
    <2>. QED BY <1>1, <1>4, <1>7, <1>11, <2>1
  <1>12. CASE a.kind = "mt"
    <2>1. p = IF r.count > 0 THEN register_code(e, a.code) ELSE register_mods(e, a.mods)
      BY <1>2, <1>12 DEF Press
    <2>2. CASE r.count > 0
      BY <1>1, <1>4, <1>6, <1>12, <2>1, <2>2
    <2>3. CASE ~(r.count > 0)
      BY <1>1, <1>4, <1>7, <1>12, <2>1, <2>3
    <2>. QED BY <2>2, <2>3
  <1>13. CASE a.kind = "lt"
    <2>1. p = IF r.count > 0 THEN register_code(e, a.code) ELSE layer_on(e, a.layer)
      BY <1>2, <1>13 DEF Press
    <2>2. CASE r.count > 0
      BY <1>1, <1>4, <1>6, <1>13, <2>1, <2>2
    <2>3. CASE ~(r.count > 0)
      BY <1>1, <1>4, <1>8, <1>13, <2>1, <2>3
    <2>. QED BY <2>2, <2>3
  <1>14. CASE a.kind = "mo"
    <2>1. p = layer_on(e, a.layer)
      BY <1>2, <1>14 DEF Press
    <2>. QED BY <1>1, <1>4, <1>8, <1>14, <2>1
  <1>15. CASE a.kind = "tt"
    <2>1. p = layer_invert(e, a.layer) \/ p = e
      BY <1>2, <1>15 DEF Press
    <2>2. p.src = e.src /\ p.keys = d.keys /\ p.mods = d.mods
      BY <1>3, <1>9, <2>1
    <2>. QED BY <1>1, <1>4, <1>15, <2>2
  <1>16. CASE a.kind = "trns"
    <2>1. p = e
      BY <1>2, <1>16 DEF Press
    <2>. QED BY <1>1, <1>3, <1>4, <1>16, <2>1
  <1>. QED BY <1>5, <1>10, <1>11, <1>12, <1>13, <1>14, <1>15, <1>16 DEF Action

LEMMA ReleaseEffect ==
    ASSUME NEW d \in Downstream, NEW r \in Record, IsEvent(r), ~r.pressed,
           NEW p, p = process_record(d, r), NEW a, a = Keymap[d.src[r.key]][r.key]
    PROVE  /\ p.src = d.src
           /\ \A c \in p.keys : c \in d.keys /\
                 ~(c = a.code /\ (a.kind = "key" \/ (a.kind \in {"mt", "lt"} /\ r.count > 0)))
           /\ \A m \in p.mods : m \in d.mods /\
                 ~(m \in a.mods /\ (a.kind = "mod" \/ (a.kind = "mt" /\ ~(r.count > 0))))
           /\ a.kind # "tt" => \A j \in p.layers : j \in d.layers /\
                 ~(j = a.layer /\ (a.kind = "mo" \/ (a.kind = "lt" /\ ~(r.count > 0))))
  <1>. DEFINE e == [d EXCEPT !.src[r.key] = d.src[r.key], !.sent = @ \ {r.key}]
  <1>1. r.key \in Key /\ d.src[r.key] \in Layer
    BY DEF IsEvent, Record, Downstream
  <1>2. p = Release(e, r, a)
    BY DEF process_record, store_or_get_layer, process_action
  <1>3. /\ e \in Downstream /\ e.keys = d.keys /\ e.mods = d.mods /\ e.layers = d.layers
        /\ e.src = d.src
    BY <1>1 DEF Downstream
  <1>5. a \in Action
    BY <1>1, ActionType
  <1>. HIDE DEF e
  <1>6. /\ unregister_code(e, a.code).src = e.src /\ unregister_code(e, a.code).mods = e.mods
        /\ unregister_code(e, a.code).layers = e.layers
        /\ unregister_code(e, a.code).keys = e.keys \ {a.code}
        /\ [unregister_code(e, a.code) EXCEPT !.weak = @ \ a.mods].src = e.src
        /\ [unregister_code(e, a.code) EXCEPT !.weak = @ \ a.mods].mods = e.mods
        /\ [unregister_code(e, a.code) EXCEPT !.weak = @ \ a.mods].layers = e.layers
        /\ [unregister_code(e, a.code) EXCEPT !.weak = @ \ a.mods].keys = e.keys \ {a.code}
    BY <1>3 DEF unregister_code, Downstream
  <1>7. /\ unregister_mods(e, a.mods).src = e.src /\ unregister_mods(e, a.mods).keys = e.keys
        /\ unregister_mods(e, a.mods).layers = e.layers
        /\ unregister_mods(e, a.mods).mods = e.mods \ a.mods
    BY <1>3 DEF unregister_mods, Downstream
  <1>8. /\ layer_off(e, a.layer).src = e.src /\ layer_off(e, a.layer).keys = e.keys
        /\ layer_off(e, a.layer).mods = e.mods
        /\ layer_off(e, a.layer).layers = e.layers \ {a.layer}
    BY <1>3 DEF layer_off, Downstream
  <1>9. /\ layer_invert(e, a.layer).src = e.src /\ layer_invert(e, a.layer).keys = e.keys
        /\ layer_invert(e, a.layer).mods = e.mods
    BY <1>3 DEF layer_invert, layer_on, layer_off, Downstream
  <1>10. CASE a.kind = "key"
    <2>1. p = [unregister_code(e, a.code) EXCEPT !.weak = @ \ a.mods]
      BY <1>2, <1>10 DEF Release
    <2>. QED BY <1>3, <1>6, <1>10, <2>1
  <1>11. CASE a.kind = "mod"
    <2>1. p = unregister_mods(e, a.mods)
      BY <1>2, <1>11 DEF Release
    <2>. QED BY <1>3, <1>7, <1>11, <2>1
  <1>12. CASE a.kind = "mt"
    <2>1. p = IF r.count > 0 THEN unregister_code(e, a.code) ELSE unregister_mods(e, a.mods)
      BY <1>2, <1>12 DEF Release
    <2>. QED BY <1>3, <1>6, <1>7, <1>12, <2>1
  <1>13. CASE a.kind = "lt"
    <2>1. p = IF r.count > 0 THEN unregister_code(e, a.code) ELSE layer_off(e, a.layer)
      BY <1>2, <1>13 DEF Release
    <2>. QED BY <1>3, <1>6, <1>8, <1>13, <2>1
  <1>14. CASE a.kind = "mo"
    <2>1. p = layer_off(e, a.layer)
      BY <1>2, <1>14 DEF Release
    <2>. QED BY <1>3, <1>8, <1>14, <2>1
  <1>15. CASE a.kind = "tt"
    <2>1. p = layer_invert(e, a.layer) \/ p = e
      BY <1>2, <1>15 DEF Release
    <2>. QED BY <1>3, <1>9, <1>15, <2>1
  <1>16. CASE a.kind = "trns"
    <2>1. p = e
      BY <1>2, <1>16 DEF Release
    <2>. QED BY <1>3, <1>16, <2>1
  <1>. QED BY <1>5, <1>10, <1>11, <1>12, <1>13, <1>14, <1>15, <1>16 DEF Action

(* Nothing is lost when more keys are due ...                                *)
LEMMA FromMore ==
    ASSUME NEW d, NEW e, NEW U, NEW T, NEW V, NEW W, e.src = d.src,
           e.keys \subseteq d.keys, e.mods \subseteq d.mods, e.layers \subseteq d.layers,
           U \subseteq V, \A k \in U : k \in T <=> k \in W
    PROVE  /\ ReportFrom(d, U, T) => ReportFrom(e, V, W)
           /\ LayersFrom(d, U, T) => LayersFrom(e, V, W)
  <1>1. \A k \in U : /\ \A c : GivesCode(d.src, k, k \in T, c) => GivesCode(e.src, k, k \in W, c)
                     /\ \A m : GivesMod(d.src, k, k \in T, m) => GivesMod(e.src, k, k \in W, m)
                     /\ \A l : GivesLayer(d.src, k, k \in T, l) => GivesLayer(e.src, k, k \in W, l)
    BY DEF GivesCode, GivesMod, GivesLayer
  <1>2. ReportFrom(d, U, T) => ReportFrom(e, V, W)
    BY <1>1 DEF ReportFrom
  <1>3. LayersFrom(d, U, T) => LayersFrom(e, V, W)
    BY <1>1 DEF LayersFrom
  <1>. QED BY <1>2, <1>3

(* ... a press adds what its key gives, as long as it is a tap of one that   *)
(* will be released as one ...                                               *)
LEMMA FromPress ==
    ASSUME NEW d \in Downstream, NEW r \in Record, IsEvent(r), r.pressed,
           NEW U \in SUBSET Key, NEW T, NEW V, NEW W,
           r.key \notin U, U \subseteq V, r.key \in V, \A k \in U : k \in T <=> k \in W,
           is_tap_record(d, r) => (r.count > 0 <=> r.key \in W)
    PROVE  /\ ReportFrom(d, U, T) => ReportFrom(process_record(d, r), V, W)
           /\ LayersFrom(d, U, T) /\ NoToggles => LayersFrom(process_record(d, r), V, W)
  <1>. DEFINE a == layer_switch_get_action(d, r.key)
              p == process_record(d, r)
  <1>1. /\ r.key \in Key /\ a = Keymap[p.src[r.key]][r.key]
        /\ \A k \in Key \ {r.key} : p.src[k] = d.src[k]
        /\ \A c \in p.keys : c \in d.keys \/
              (c = a.code /\ (a.kind = "key" \/ (a.kind \in {"mt", "lt"} /\ r.count > 0)))
        /\ \A m \in p.mods : m \in d.mods \/
              (m \in a.mods /\ (a.kind = "mod" \/ (a.kind = "mt" /\ ~(r.count > 0))))
        /\ a.kind # "tt" => \A j \in p.layers : j \in d.layers \/
              (j = a.layer /\ (a.kind = "mo" \/ (a.kind = "lt" /\ ~(r.count > 0))))
    BY PressEffect
  <1>2. a.kind \in {"mt", "lt"} => (r.count > 0 <=> r.key \in W)
    BY DEF is_tap_record, is_tap_action
  <1>4. NoToggles => a.kind # "tt"
    BY PressEffect DEF NoToggles
  <1>. HIDE DEF a, p
  <1>3. \A k \in U : k # r.key /\ k \in Key \ {r.key}
    OBVIOUS
  <1>5. \A k \in U : \A x :
           /\ GivesCode(d.src, k, k \in T, x) => GivesCode(p.src, k, k \in W, x)
           /\ GivesMod(d.src, k, k \in T, x) => GivesMod(p.src, k, k \in W, x)
           /\ GivesLayer(d.src, k, k \in T, x) => GivesLayer(p.src, k, k \in W, x)
    BY <1>1, <1>3 DEF GivesCode, GivesMod, GivesLayer
  <1>6. ASSUME ReportFrom(d, U, T) PROVE ReportFrom(p, V, W)
    <2>1. ASSUME NEW c \in p.keys PROVE \E k \in V : GivesCode(p.src, k, k \in W, c)
      <3>1. CASE c \in d.keys
        BY <1>5, <1>6, <3>1 DEF ReportFrom
      <3>2. CASE c \notin d.keys
        BY <1>1, <1>2, <1>4, <2>1, <3>2 DEF GivesCode
      <3>. QED BY <3>1, <3>2
    <2>2. ASSUME NEW m \in p.mods PROVE \E k \in V : GivesMod(p.src, k, k \in W, m)
      <3>1. CASE m \in d.mods
        BY <1>5, <1>6, <3>1 DEF ReportFrom
      <3>2. CASE m \notin d.mods
        BY <1>1, <1>2, <1>4, <2>2, <3>2 DEF GivesMod
      <3>. QED BY <3>1, <3>2
    <2>. QED BY <2>1, <2>2 DEF ReportFrom
  <1>7. ASSUME LayersFrom(d, U, T), NoToggles PROVE LayersFrom(p, V, W)
    <2>0. a.kind # "tt"
      BY <1>4, <1>7
    <2>1. ASSUME NEW j \in p.layers PROVE \E k \in V : GivesLayer(p.src, k, k \in W, j)
      <3>1. CASE j \in d.layers
        BY <1>5, <1>7, <3>1 DEF LayersFrom
      <3>2. CASE j \notin d.layers
        BY <1>1, <1>2, <1>4, <2>0, <2>1, <3>2 DEF GivesLayer
      <3>. QED BY <3>1, <3>2
    <2>. QED BY <2>1 DEF LayersFrom
  <1>. QED BY <1>6, <1>7 DEF p

(* ... and the release of a key takes all of it away.                        *)
LEMMA FromRelease ==
    ASSUME NEW d \in Downstream, NEW r \in Record, IsEvent(r), ~r.pressed,
           NEW U \in SUBSET Key, NEW T, NEW V, NEW W,
           r.key \in U => (r.count > 0 <=> r.key \in T),
           \A k \in U : k # r.key => k \in V /\ (k \in T <=> k \in W)
    PROVE  /\ ReportFrom(d, U, T) => ReportFrom(process_record(d, r), V, W)
           /\ LayersFrom(d, U, T) /\ NoToggles => LayersFrom(process_record(d, r), V, W)
  <1>. DEFINE a == Keymap[d.src[r.key]][r.key]
              p == process_record(d, r)
  <1>1. /\ p.src = d.src
        /\ \A c \in p.keys : c \in d.keys /\
              ~(c = a.code /\ (a.kind = "key" \/ (a.kind \in {"mt", "lt"} /\ r.count > 0)))
        /\ \A m \in p.mods : m \in d.mods /\
              ~(m \in a.mods /\ (a.kind = "mod" \/ (a.kind = "mt" /\ ~(r.count > 0))))
        /\ a.kind # "tt" => \A j \in p.layers : j \in d.layers /\
              ~(j = a.layer /\ (a.kind = "mo" \/ (a.kind = "lt" /\ ~(r.count > 0))))
    BY ReleaseEffect
  <1>2. r.key \in Key /\ d.src[r.key] \in Layer
    BY DEF IsEvent, Record, Downstream
  <1>. HIDE DEF p
  <1>3. ASSUME ReportFrom(d, U, T) PROVE ReportFrom(p, V, W)
    <2>1. ASSUME NEW c \in p.keys PROVE \E k \in V : GivesCode(p.src, k, k \in W, c)
      <3>1. PICK k \in U : GivesCode(d.src, k, k \in T, c)
        BY <1>1, <1>3 DEF ReportFrom
      <3>2. k # r.key
        BY <1>1, <3>1 DEF GivesCode
      <3>. QED BY <1>1, <3>1, <3>2 DEF GivesCode
    <2>2. ASSUME NEW m \in p.mods PROVE \E k \in V : GivesMod(p.src, k, k \in W, m)
      <3>1. PICK k \in U : GivesMod(d.src, k, k \in T, m)
        BY <1>1, <1>3 DEF ReportFrom
      <3>2. k # r.key
        BY <1>1, <3>1 DEF GivesMod
      <3>. QED BY <1>1, <3>1, <3>2 DEF GivesMod
    <2>. QED BY <2>1, <2>2 DEF ReportFrom
  <1>4. ASSUME LayersFrom(d, U, T), NoToggles PROVE LayersFrom(p, V, W)
    <2>0. a.kind # "tt"
      BY <1>2, <1>4 DEF NoToggles
    <2>1. ASSUME NEW j \in p.layers PROVE \E k \in V : GivesLayer(p.src, k, k \in W, j)
      <3>1. PICK k \in U : GivesLayer(d.src, k, k \in T, j)
        BY <1>1, <1>4, <2>0 DEF LayersFrom
      <3>2. k # r.key
        BY <1>1, <2>0, <3>1 DEF GivesLayer
      <3>. QED BY <1>1, <3>1, <3>2 DEF GivesLayer
    <2>. QED BY <2>1 DEF LayersFrom
  <1>. QED BY <1>3, <1>4 DEF p

-----------------------------------------------------------------------------
(* The release of the key k is still to be processed, and not its press: of  *)
(* the events of k that wait it is the first, or none waits and it has just  *)
(* arrived, or the key is down.                                              *)
Deciding(k) == TappingKeyUndecided /\ tapping_key.key = k

FirstOfKey(s, i) == \A j \in DOMAIN s : j < i => s[j].key # s[i].key

ReleaseWaits(s, k) ==
    \E i \in DOMAIN s : s[i].key = k /\ ~s[i].pressed /\ FirstOfKey(s, i)

Due(k) ==
    \/ ReleaseWaits(waiting_buffer, k)
    \/ /\ ~Deciding(k) /\ \A i \in DOMAIN waiting_buffer : waiting_buffer[i].key # k
       /\ IF event.key = k THEN ~event.pressed ELSE k \in matrix

DueKeys    == {k \in Key : Due(k)}
TappedKeys == {k \in Key : TapDown(k)}

(* All that is in the report, and every layer that is on, comes from a key   *)
(* whose release is still to be processed, and will be taken away by it.     *)
ReportInv == ReportFrom(hid, DueKeys, TappedKeys)
LayerInv  == LayersFrom(hid, DueKeys, TappedKeys)

LEMMA NoKeyNotKey == NoKey \notin Key /\ NoRecord.key = NoKey
  BY KeymapAssumption DEF NoRecord, Tick, KeyEvent

(* Where the record that is looked at comes from.                            *)
LEMMA CurrentIs ==
    ASSUME IInv, StreamInv, Running
    PROVE  /\ waiting_buffer \in Seq(Record) /\ Current \in Record /\ hid \in Downstream
           /\ tapping_key \in Record /\ event \in Record
           /\ pc = "event" => Current = event
           /\ pc # "event" => /\ pc = "drain" /\ event.key = NoKey
                              /\ Current = waiting_buffer[1] /\ 1 \in DOMAIN waiting_buffer
                              /\ waiting_buffer # <<>>
  BY CurrentType, TailIs DEF IInv, TypeOK, Running, Current, StreamInv, EventIsNew, IsEvent

(* A release that waits still does when an event of another key is gone ...  *)
LEMMA WaitsInTail ==
    ASSUME NEW s \in Seq(Record), s # <<>>, NEW t, t = Tail(s), NEW k, s[1].key # k,
           ReleaseWaits(s, k)
    PROVE  ReleaseWaits(t, k)
  <1>1. PICK n \in Nat : n = Len(s) /\ DOMAIN s = 1..n /\ DOMAIN t = 1..(n - 1)
    BY TailIs
  <1>2. \A m \in 1..(n - 1) : t[m] = s[m + 1] /\ m + 1 \in 1..n
    BY <1>1, TailIs
  <1>3. PICK i \in DOMAIN s : s[i].key = k /\ ~s[i].pressed /\ FirstOfKey(s, i)
    BY DEF ReleaseWaits
  <1>4. i - 1 \in 1..(n - 1) /\ (i - 1) + 1 = i
    BY <1>1, <1>3
  <1>5. t[i - 1] = s[i]
    BY <1>2, <1>4
  <1>6. ASSUME NEW m \in DOMAIN t, m < i - 1 PROVE t[m].key # t[i - 1].key
    <2>1. m + 1 \in DOMAIN s /\ m + 1 < i /\ t[m] = s[m + 1]
      BY <1>1, <1>2, <1>4, <1>6
    <2>. QED BY <1>3, <1>5, <2>1 DEF FirstOfKey
  <1>. QED BY <1>1, <1>3, <1>4, <1>5, <1>6 DEF ReleaseWaits, FirstOfKey

(* ... and when another event is appended.                                   *)
LEMMA WaitsInAppend ==
    ASSUME NEW s \in Seq(Record), NEW e \in Record, NEW t, t = Append(s, e), NEW k
    PROVE  /\ ReleaseWaits(s, k) => ReleaseWaits(t, k)
           /\ (\A i \in DOMAIN s : s[i].key # k) /\ e.key = k /\ ~e.pressed => ReleaseWaits(t, k)
           /\ (\A i \in DOMAIN s : s[i].key # k) /\ e.key # k => \A i \in DOMAIN t : t[i].key # k
  <1>1. PICK n \in Nat : n = Len(s) /\ DOMAIN s = 1..n /\ DOMAIN t = 1..(n + 1)
    BY AppendIs
  <1>2. t[n + 1] = e /\ \A m \in 1..n : t[m] = s[m]
    BY <1>1, AppendIs
  <1>3. ASSUME ReleaseWaits(s, k) PROVE ReleaseWaits(t, k)
    <2>1. PICK i \in DOMAIN s : s[i].key = k /\ ~s[i].pressed /\ FirstOfKey(s, i)
      BY <1>3 DEF ReleaseWaits
    <2>2. i \in 1..n /\ i \in DOMAIN t /\ t[i] = s[i]
      BY <1>1, <1>2
    <2>3. ASSUME NEW m \in DOMAIN t, m < i PROVE t[m].key # t[i].key
      <3>1. m \in DOMAIN s /\ t[m] = s[m]
        BY <1>1, <1>2, <2>2, <2>3
      <3>. QED BY <2>1, <2>2, <2>3, <3>1 DEF FirstOfKey
    <2>. QED BY <2>1, <2>2, <2>3 DEF ReleaseWaits, FirstOfKey
  <1>4. ASSUME \A i \in DOMAIN s : s[i].key # k, e.key = k, ~e.pressed PROVE ReleaseWaits(t, k)
    <2>1. n + 1 \in DOMAIN t
      BY <1>1
    <2>2. ASSUME NEW m \in DOMAIN t, m < n + 1 PROVE t[m].key # t[n + 1].key
      <3>1. m \in DOMAIN s /\ t[m] = s[m]
        BY <1>1, <1>2, <2>2
      <3>. QED BY <1>2, <1>4, <3>1
    <2>. QED BY <1>2, <1>4, <2>1, <2>2 DEF ReleaseWaits, FirstOfKey
  <1>5. ASSUME \A i \in DOMAIN s : s[i].key # k, e.key # k, NEW i \in DOMAIN t PROVE t[i].key # k
    <2>1. i = n + 1 \/ i \in 1..n
      BY <1>1
    <2>. QED BY <1>1, <1>2, <1>5, <2>1
  <1>. QED BY <1>3, <1>4, <1>5

(* An event that is done with is only missed by its own key.                 *)
LEMMA DueProcessed ==
    ASSUME IInv, StreamInv, Running, NEW tk \in Record, NEW d,
           Processed(tk, waiting_buffer, d),
           UndecidedKey(tk) => tk.key = Current.key \/ Deciding(tk.key),
           NEW k \in DueKeys, k # Current.key
    PROVE  k \in DueKeys'
  <1>. DEFINE w == waiting_buffer
  <1>1. /\ w \in Seq(Record) /\ (pc = "event" => Current = event)
        /\ pc # "event" => w # <<>> /\ Current = w[1] /\ event.key = NoKey
    BY CurrentIs
  <1>2. /\ w' = IF pc = "event" THEN w ELSE Tail(w)
        /\ tapping_key' = tk /\ event'.key = NoKey /\ matrix' = matrix
    BY NoKeyNotKey DEF Processed, scanVars
  <1>3. k \in Key /\ Due(k) /\ k # NoKey
    BY NoKeyNotKey DEF DueKeys
  <1>. HIDE DEF w
  <1>4. CASE ReleaseWaits(w, k)
    <2>1. ReleaseWaits(w', k)
      <3>1. CASE pc = "event"
        BY <1>2, <1>4, <3>1
      <3>2. CASE pc # "event"
        BY <1>1, <1>2, <1>4, <3>2, WaitsInTail
      <3>. QED BY <3>1, <3>2
    <2>2. Due(k)'
      BY <2>1 DEF Due, ReleaseWaits, FirstOfKey, w
    <2>. QED BY <1>3, <2>2 DEF DueKeys
  <1>5. CASE ~ReleaseWaits(w, k)
    <2>1. /\ ~Deciding(k) /\ \A i \in DOMAIN w : w[i].key # k
          /\ IF event.key = k THEN ~event.pressed ELSE k \in matrix
      BY <1>3, <1>5 DEF Due, w
    <2>2. event.key # k
      <3>1. CASE pc = "event"
        BY <1>1, <3>1
      <3>2. CASE pc # "event"
        BY <1>1, <1>3, <3>2
      <3>. QED BY <3>1, <3>2
    <2>3. \A i \in DOMAIN w' : w'[i].key # k
      BY <1>1, <1>2, <2>1, TailIs
    <2>4. ~Deciding(k)'
      BY <1>2, <2>1 DEF Deciding, TappingKeyUndecided, UndecidedKey
    <2>5. Due(k)'
      BY <1>2, <1>3, <2>1, <2>2, <2>3, <2>4 DEF Due, w
    <2>. QED BY <1>3, <2>5 DEF DueKeys
  <1>. QED BY <1>4, <1>5

(* The event waits, or stays where it is: every key stays due.               *)
LEMMA DueNotProcessed ==
    ASSUME IInv, StreamInv, Running, NEW q \in Record, NEW left \in Record, NEW d,
           NotProcessed(q, left, d), ~Overflow(q, d),
           q.key = Current.key, q.pressed = Current.pressed, pc # "event" => q = Current,
           UndecidedKey(left) => Deciding(left.key),
           NEW k \in DueKeys
    PROVE  k \in DueKeys'
  <1>. DEFINE w == waiting_buffer
  <1>1. /\ w \in Seq(Record) /\ (pc = "event" => Current = event)
        /\ pc # "event" => w # <<>> /\ Current = w[1] /\ event.key = NoKey
    BY CurrentIs
  <1>2. k \in Key /\ Due(k) /\ k # NoKey
    BY NoKeyNotKey DEF DueKeys
  <1>3. /\ tapping_key' = left /\ event'.key = NoKey /\ matrix' = matrix
        /\ Enqueued(q, left, d) \/ StopDraining(q, left, d)
    BY NoKeyNotKey DEF NotProcessed, Enqueued, StopDraining, scanVars
  <1>4. w' = w \/ (pc = "event" /\ IsEvent(q) /\ w' = Append(w, q))
    <2>1. CASE Enqueued(q, left, d)
      BY <2>1 DEF Enqueued
    <2>2. CASE StopDraining(q, left, d)
      <3>1. pc # "event" /\ w' = [w EXCEPT ![1] = q]
        BY <2>2 DEF StopDraining
      <3>. HIDE DEF w
      <3>2. q = w[1] /\ w \in Seq(Record) /\ w # <<>>
        BY <1>1, <3>1
      <3>3. w' = w
        BY <3>1, <3>2
      <3>. QED BY <3>3
    <2>. QED BY <1>3, <2>1, <2>2
  <1>5. pc = "event" /\ IsEvent(q) => w' = Append(w, q)
    BY <1>3 DEF Enqueued, StopDraining
  <1>. HIDE DEF w
  <1>6. ReleaseWaits(w, k) => ReleaseWaits(w', k)
    BY <1>1, <1>4, WaitsInAppend
  <1>7. ReleaseWaits(w', k) => k \in DueKeys'
    <2>1. ReleaseWaits(w', k) => Due(k)'
      BY DEF Due, ReleaseWaits, FirstOfKey, w
    <2>. QED BY <1>2, <2>1 DEF DueKeys
  <1>8. CASE ~ReleaseWaits(w, k)
    <2>1. /\ ~Deciding(k) /\ \A i \in DOMAIN w : w[i].key # k
          /\ IF event.key = k THEN ~event.pressed ELSE k \in matrix
      BY <1>2, <1>8 DEF Due, w
    <2>2. CASE event.key = k
      <3>1. pc = "event" /\ q.key = k /\ ~q.pressed /\ IsEvent(q)
        BY <1>1, <1>2, <2>1, <2>2 DEF IsEvent
      <3>. QED BY <1>1, <1>5, <1>7, <2>1, <3>1, WaitsInAppend
    <2>3. CASE event.key # k
      <3>1. \A i \in DOMAIN w' : w'[i].key # k
        <4>1. pc = "event" => q.key # k
          BY <1>1, <2>3
        <4>. QED BY <1>1, <1>4, <2>1, <4>1, WaitsInAppend
      <3>2. ~Deciding(k)'
        BY <1>3, <2>1 DEF Deciding, TappingKeyUndecided, UndecidedKey
      <3>3. Due(k)'
        BY <1>2, <1>3, <2>1, <2>3, <3>1, <3>2 DEF Due, w
      <3>. QED BY <1>2, <3>3 DEF DueKeys
    <2>. QED BY <2>2, <2>3
  <1>. QED BY <1>6, <1>7, <1>8

(* A key whose press is looked at is not due.                                *)
LEMMA PressNotDue ==
    ASSUME IInv, ModeInv, StreamInv, Running, ~TappingKeyUndecided, Current.pressed
    PROVE  Current.key \notin DueKeys
  <1>. DEFINE w == waiting_buffer
              r == Current
  <1>1. w \in Seq(Record) /\ r.pressed
    BY CurrentIs
  <1>2. pc = "event" => r = event /\ w = <<>>
    BY CurrentIs DEF ModeInv, OnlyUndecidedWaits
  <1>3. pc # "event" => r = w[1] /\ 1 \in DOMAIN w
    BY CurrentIs
  <1>. HIDE DEF w, r
  <1>4. ~ReleaseWaits(w, r.key)
    <2>1. CASE pc = "event"
      BY <1>2, <2>1 DEF ReleaseWaits
    <2>2. CASE pc # "event"
      <3>. SUFFICES ASSUME NEW i \in DOMAIN w, w[i].key = r.key, ~w[i].pressed, FirstOfKey(w, i)
                    PROVE  FALSE
        BY DEF ReleaseWaits
      <3>1. i \in Nat /\ i >= 1
        BY <1>1
      <3>2. i # 1
        BY <1>1, <1>3, <2>2
      <3>. QED BY <1>3, <2>2, <3>1, <3>2 DEF FirstOfKey
    <2>. QED BY <2>1, <2>2
  <1>5. ~Due(r.key)
    <2>1. CASE pc = "event"
      BY <1>1, <1>2, <1>4, <2>1 DEF Due, w
    <2>2. CASE pc # "event"
      BY <1>3, <1>4, <2>2 DEF Due, w
    <2>. QED BY <2>1, <2>2
  <1>. QED BY <1>5 DEF DueKeys, r

(* It is as soon as its press has been processed: of that key, what waits    *)
(* next is the release.                                                      *)
LEMMA PressMakesDue ==
    ASSUME IInv, ModeInv, StreamInv, Running, ~TappingKeyUndecided, Current.pressed,
           IsEvent(Current), NEW tk, NEW d, Processed(tk, waiting_buffer, d), ~UndecidedKey(tk),
           NEW k, k = Current.key
    PROVE  k \in DueKeys'
  <1>. DEFINE w == waiting_buffer
              v == w'
  <1>1. /\ event'.key = NoKey /\ tapping_key' = tk /\ matrix' = matrix
        /\ v = IF pc = "event" THEN w ELSE Tail(w)
    BY NoKeyNotKey DEF Processed, scanVars
  <1>2. /\ k \in Key /\ k # NoKey /\ w \in Seq(Record)
        /\ pc # "event" => w # <<>> /\ Current = w[1] /\ 1 \in DOMAIN w
    BY CurrentIs, NoKeyNotKey DEF IsEvent, Record
  <1>3. ~Deciding(k)'
    BY <1>1 DEF Deciding, TappingKeyUndecided, UndecidedKey
  <1>4. ReleaseWaits(v, k) \/ ((\A i \in DOMAIN v : v[i].key # k) /\ k \in matrix)
    <2>1. CASE pc = "event"
      <3>1. v = <<>> /\ Current = event
        BY <1>1, <2>1, CurrentIs DEF ModeInv, OnlyUndecidedWaits
      <3>2. k \in matrix
        BY <2>1, <3>1 DEF StreamInv, EventIsNew
      <3>. QED BY <3>1, <3>2
    <2>2. CASE pc # "event"
      <3>1. \/ \E j \in DOMAIN w : NextOfKey(w, 1, j)
            \/ NoneOfKeyAfter(w, 1) /\ k \in matrix
        BY <1>2, <2>2 DEF StreamInv, Alternate
      <3>2. w[1].key = k /\ w[1].pressed /\ w # <<>> /\ v = Tail(w) /\ w \in Seq(Record)
        BY <1>1, <1>2, <2>2
      <3>. HIDE DEF w, v
      <3>3. PICK n \in Nat : n = Len(w) /\ DOMAIN w = 1..n /\ DOMAIN v = 1..(n - 1)
        BY <3>2, TailIs
      <3>4. \A m \in 1..(n - 1) : v[m] = w[m + 1] /\ m + 1 \in 1..n
        BY <3>2, <3>3, TailIs
      <3>5. ASSUME NEW j \in DOMAIN w, NextOfKey(w, 1, j) PROVE ReleaseWaits(v, k)
        <4>1. /\ j \in 1..n /\ 1 < j /\ w[j].key = k /\ ~w[j].pressed
              /\ \A m \in DOMAIN w : 1 < m /\ m < j => w[m].key # k
          BY <3>2, <3>3, <3>5 DEF NextOfKey
        <4>2. j - 1 \in 1..(n - 1) /\ (j - 1) + 1 = j
          BY <4>1
        <4>3. v[j - 1] = w[j]
          BY <3>4, <4>2
        <4>4. ASSUME NEW m \in DOMAIN v, m < j - 1 PROVE v[m].key # v[j - 1].key
          <5>1. m + 1 \in DOMAIN w /\ 1 < m + 1 /\ m + 1 < j /\ v[m] = w[m + 1]
            BY <3>3, <3>4, <4>1, <4>4
          <5>. QED BY <4>1, <4>3, <5>1
        <4>. QED BY <3>3, <4>1, <4>2, <4>3, <4>4 DEF ReleaseWaits, FirstOfKey
      <3>6. ASSUME NoneOfKeyAfter(w, 1), NEW i \in DOMAIN v PROVE v[i].key # k
        <4>1. i + 1 \in DOMAIN w /\ 1 < i + 1 /\ v[i] = w[i + 1]
          BY <3>3, <3>4
        <4>. QED BY <3>2, <3>6, <4>1 DEF NoneOfKeyAfter
      <3>. QED BY <3>1, <3>5, <3>6
    <2>. QED BY <2>1, <2>2
  <1>. HIDE DEF w
  <1>5. Due(k)'
    BY <1>1, <1>2, <1>3, <1>4 DEF Due, ReleaseWaits, FirstOfKey, w
  <1>. QED BY <1>2, <1>5 DEF DueKeys

(* A key that is being decided is not due; its release is what comes next    *)
(* when it has been settled.                                                 *)
LEMMA DecidingNotDue ==
    ASSUME ModeInv, TappingKeyUndecided
    PROVE  tapping_key.key \notin DueKeys
  BY DEF ModeInv, BehindUndecided, DueKeys, Due, Deciding, ReleaseWaits

LEMMA SettledMakesDue ==
    ASSUME IInv, ModeInv, StreamInv, pc = "event", TappingKeyUndecided,
           NEW q \in Record, NEW left \in Record, NEW d, NotProcessed(q, left, d),
           ~Overflow(q, d), q.key = Current.key, q.pressed = Current.pressed,
           ~UndecidedKey(left), NEW k, k = tapping_key.key
    PROVE  k \in DueKeys'
  <1>. DEFINE w == waiting_buffer
  <1>1. w \in Seq(Record) /\ Current = event /\ k \in Key /\ k # NoKey
    BY NoKeyNotKey DEF IInv, TypeOK, Current, TappingKeyUndecided, IsEvent, Record
  <1>2. /\ tapping_key' = left /\ event'.key = NoKey /\ matrix' = matrix
        /\ w' = IF IsEvent(q) THEN Append(w, q) ELSE w
    BY NoKeyNotKey DEF NotProcessed, Enqueued, StopDraining, scanVars
  <1>3. \A i \in DOMAIN w : w[i].key # k
    BY DEF ModeInv, BehindUndecided
  <1>4. IF q.key = k THEN ~q.pressed ELSE k \in matrix
    BY <1>1 DEF ModeInv, StillDown
  <1>. HIDE DEF w
  <1>5. CASE q.key = k
    <2>1. w' = Append(w, q)
      BY <1>1, <1>2, <1>5 DEF IsEvent
    <2>2. ReleaseWaits(w', k)
      BY <1>1, <1>3, <1>4, <1>5, <2>1, WaitsInAppend
    <2>3. Due(k)'
      BY <2>2 DEF Due, ReleaseWaits, FirstOfKey, w
    <2>. QED BY <1>1, <2>3 DEF DueKeys
  <1>6. CASE q.key # k
    <2>1. \A i \in DOMAIN w' : w'[i].key # k
      BY <1>1, <1>2, <1>3, <1>6, WaitsInAppend
    <2>2. ~Deciding(k)'
      BY <1>2 DEF Deciding, TappingKeyUndecided, UndecidedKey
    <2>3. event'.key # k /\ k \in matrix'
      BY <1>1, <1>2, <1>4, <1>6
    <2>4. Due(k)'
      BY <2>1, <2>2, <2>3 DEF Due, w
    <2>. QED BY <1>1, <2>4 DEF DueKeys
  <1>. QED BY <1>5, <1>6

(* The event has to wait and there is no slot for it: what waits is lost     *)
(* (action_tapping.c:88).                                                    *)
Overflowed ==
    \E q \in Record : \E d \in Downstream : q.key = event.key /\ Overflow(q, d)

Keeps ==
    /\ ReportInv => ReportInv'
    /\ LayerInv /\ NoToggles /\ ~Overflowed => LayerInv'

LEMMA DueAreKeys == DueKeys \in SUBSET Key
  BY DEF DueKeys

(* The four ways in which a step keeps what is owed.                         *)
LEMMA KeepsMore ==
    ASSUME hid'.src = hid.src, hid'.keys \subseteq hid.keys, hid'.mods \subseteq hid.mods,
           hid'.layers \subseteq hid.layers, DueKeys \subseteq DueKeys',
           \A k \in DueKeys : k \in TappedKeys <=> k \in TappedKeys'
    PROVE  Keeps
  <1>. DEFINE U == DueKeys
              T == TappedKeys
              V == DueKeys'
              W == TappedKeys'
              d == hid
              e == hid'
  <1>1. /\ ReportFrom(d, U, T) => ReportFrom(e, V, W)
        /\ LayersFrom(d, U, T) => LayersFrom(e, V, W)
    <2>. HIDE DEF U, T, V, W, d, e
    <2>1. /\ e.src = d.src /\ e.keys \subseteq d.keys /\ e.mods \subseteq d.mods
          /\ e.layers \subseteq d.layers
          /\ U \subseteq V /\ \A k \in U : k \in T <=> k \in W
      BY DEF U, T, V, W, d, e
    <2>. QED BY <2>1, FromMore
  <1>2. ReportInv = ReportFrom(d, U, T) /\ LayerInv = LayersFrom(d, U, T)
    BY DEF ReportInv, LayerInv
  <1>3. ReportInv' = ReportFrom(e, V, W) /\ LayerInv' = LayersFrom(e, V, W)
    BY DEF ReportInv, LayerInv, ReportFrom, LayersFrom
  <1>. HIDE DEF U, T, V, W, d, e
  <1>. QED BY <1>1, <1>2, <1>3 DEF Keeps

LEMMA KeepsPress ==
    ASSUME IInv, NEW r \in Record, IsEvent(r), r.pressed, hid' = process_record(hid, r),
           r.key \notin DueKeys, DueKeys \subseteq DueKeys', r.key \in DueKeys',
           \A k \in DueKeys : k \in TappedKeys <=> k \in TappedKeys',
           is_tap_record(hid, r) => (r.count > 0 <=> r.key \in TappedKeys')
    PROVE  Keeps
  <1>. DEFINE U == DueKeys
              T == TappedKeys
              V == DueKeys'
              W == TappedKeys'
              d == hid
              e == hid'
  <1>1. /\ ReportFrom(d, U, T) => ReportFrom(e, V, W)
        /\ LayersFrom(d, U, T) /\ NoToggles => LayersFrom(e, V, W)
    <2>. HIDE DEF U, T, V, W, d, e
    <2>1. /\ e = process_record(d, r) /\ d \in Downstream /\ U \in SUBSET Key
          /\ U \subseteq V /\ \A k \in U : k \in T <=> k \in W
          /\ r.key \notin U /\ r.key \in V
          /\ is_tap_record(d, r) => (r.count > 0 <=> r.key \in W)
      BY DueAreKeys DEF U, T, V, W, d, e, IInv, TypeOK
    <2>. QED BY <2>1, FromPress
  <1>2. ReportInv = ReportFrom(d, U, T) /\ LayerInv = LayersFrom(d, U, T)
    BY DEF ReportInv, LayerInv
  <1>3. ReportInv' = ReportFrom(e, V, W) /\ LayerInv' = LayersFrom(e, V, W)
    BY DEF ReportInv, LayerInv, ReportFrom, LayersFrom
  <1>. HIDE DEF U, T, V, W, d, e
  <1>. QED BY <1>1, <1>2, <1>3 DEF Keeps

LEMMA KeepsRelease ==
    ASSUME IInv, NEW r \in Record, IsEvent(r), ~r.pressed, hid' = process_record(hid, r),
           r.key \in DueKeys => (r.count > 0 <=> r.key \in TappedKeys),
           \A k \in DueKeys : k # r.key =>
              k \in DueKeys' /\ (k \in TappedKeys <=> k \in TappedKeys')
    PROVE  Keeps
  <1>. DEFINE U == DueKeys
              T == TappedKeys
              V == DueKeys'
              W == TappedKeys'
              d == hid
              e == hid'
  <1>1. /\ ReportFrom(d, U, T) => ReportFrom(e, V, W)
        /\ LayersFrom(d, U, T) /\ NoToggles => LayersFrom(e, V, W)
    <2>. HIDE DEF U, T, V, W, d, e
    <2>1. /\ e = process_record(d, r) /\ d \in Downstream /\ U \in SUBSET Key
          /\ r.key \in U => (r.count > 0 <=> r.key \in T)
          /\ \A k \in U : k # r.key => k \in V /\ (k \in T <=> k \in W)
      BY DueAreKeys DEF U, T, V, W, d, e, IInv, TypeOK
    <2>. QED BY <2>1, FromRelease
  <1>2. ReportInv = ReportFrom(d, U, T) /\ LayerInv = LayersFrom(d, U, T)
    BY DEF ReportInv, LayerInv
  <1>3. ReportInv' = ReportFrom(e, V, W) /\ LayerInv' = LayersFrom(e, V, W)
    BY DEF ReportInv, LayerInv, ReportFrom, LayersFrom
  <1>. HIDE DEF U, T, V, W, d, e
  <1>. QED BY <1>1, <1>2, <1>3 DEF Keeps

(* The report is cleared with the buffer; layer_state is not.                *)
LEMMA KeepsOverflow ==
    ASSUME IInv, NEW q \in Record, NEW d \in Downstream, Overflow(q, d), q.key = event.key
    PROVE  Keeps
  <1>1. Overflowed
    BY DEF Overflowed
  <1>2. hid'.keys = {} /\ hid'.mods = {}
    BY DEF Overflow, clear_keyboard, Downstream
  <1>3. ReportInv'
    BY <1>2 DEF ReportInv, ReportFrom
  <1>. QED BY <1>1, <1>3 DEF Keeps

(* Which keys are down as taps.                                              *)
LEMMA TappedAre ==
    /\ \A k : k \in TappedKeys <=> k \in Key /\ TapDown(k)
    /\ \A k : k \in TappedKeys' <=> k \in Key /\ TapOf(tapping_key', k)
  BY DEF TappedKeys, TapDown, TapOf

(* Handled: a press of a key that was not due, or the release of one.        *)
LEMMA KeepsHandled ==
    ASSUME IInv, ModeInv, StreamInv, CountInv, Running, Handled(Current)
    PROVE  Keeps
  <1>1. /\ IsEvent(Current) /\ ~TappingKeyUndecided /\ Current \in Record
    BY CurrentIs DEF Handled
  <1>2. PICK tk \in Record, c \in Record :
           /\ ~UndecidedKey(tk)
           /\ (SameKey(tk) /\ AsItCame(Current, c)) \/ (LastOfKey(Current, tk) /\ AsTap(tk, c))
           /\ c.key = Current.key /\ c.pressed = Current.pressed
           /\ Processed(tk, waiting_buffer, process_record(hid, c))
    BY DEF Handled
  <1>3. tapping_key' = tk /\ hid' = process_record(hid, c) /\ IsEvent(c)
    BY <1>1, <1>2 DEF Processed, IsEvent
  <1>4. \A k \in DueKeys : k # Current.key => k \in DueKeys'
    BY <1>2, DueProcessed
  <1>5. \A k \in DueKeys : k # Current.key => (k \in TappedKeys <=> k \in TappedKeys')
    <2>1. CASE SameKey(tk)
      BY <1>3, <2>1, TappedAre DEF SameKey, TapDown, TapOf
    <2>2. CASE LastOfKey(Current, tk)
      <3>. SUFFICES ASSUME NEW k \in DueKeys, k # Current.key
                    PROVE  k \notin TappedKeys /\ k \notin TappedKeys'
        OBVIOUS
      <3>1. k # NoKey
        BY NoKeyNotKey DEF DueKeys
      <3>2. k # tapping_key.key /\ k # tk.key
        BY <2>2, <3>1 DEF LastOfKey, IsEvent
      <3>. QED BY <1>3, <3>2, TappedAre DEF TapDown, TapOf
    <2>. QED BY <1>2, <2>1, <2>2
  <1>6. CASE c.pressed
    <2>1. Current.key \notin DueKeys
      BY <1>1, <1>2, <1>6, PressNotDue
    <2>2. Current.key \in DueKeys'
      BY <1>1, <1>2, <1>6, PressMakesDue
    <2>3. is_tap_record(hid, c) => (c.count > 0 <=> c.key \in TappedKeys')
      <3>1. CASE AsItCame(Current, c)
        BY <1>6, <3>1 DEF AsItCame
      <3>2. CASE AsTap(tk, c)
        <4>1. c.count > 0 /\ TapOf(tk, c.key) /\ c.key \in Key
          BY <1>3, <1>6, <3>2 DEF AsTap, IsEvent, Record
        <4>. QED BY <1>3, <4>1, TappedAre
      <3>. QED BY <1>2, <3>1, <3>2
    <2>. QED BY <1>2, <1>3, <1>4, <1>5, <1>6, <2>1, <2>2, <2>3, KeepsPress
  <1>7. CASE ~c.pressed
    <2>1. c.key \in DueKeys => (c.count > 0 <=> c.key \in TappedKeys)
      <3>1. CASE AsItCame(Current, c)
        <4>1. c = Current /\ ~TapDown(Current.key)
          BY <1>2, <1>7, <3>1 DEF AsItCame
        <4>2. ~(Current.count > 0)
          BY <4>1, CurrentCount
        <4>. QED BY <4>1, <4>2, TappedAre
      <3>2. CASE AsTap(tk, c)
        BY <1>7, <3>2, TappedAre, DueAreKeys DEF AsTap
      <3>. QED BY <1>2, <3>1, <3>2
    <2>. QED BY <1>2, <1>3, <1>4, <1>5, <1>7, <2>1, KeepsRelease
  <1>. QED BY <1>6, <1>7

(* Started: the press is not processed yet, so its key is not due.           *)
LEMMA KeepsStarted ==
    ASSUME IInv, ModeInv, StreamInv, CountInv, Running, Started(Current)
    PROVE  Keeps
  <1>1. /\ IsEvent(Current) /\ ~TappingKeyUndecided /\ Current \in Record /\ Current.pressed
        /\ TapKey(Current.key)
    BY CurrentIs DEF Started
  <1>2. PICK d \in Downstream :
           /\ MadeUp(d) \/ (d = hid /\ ~TappedTwice)
           /\ Processed(Current, waiting_buffer, d)
    BY DEF Started
  <1>3. tapping_key' = Current /\ hid' = d
    BY <1>2 DEF Processed
  <1>4. Current.key \notin DueKeys
    BY <1>1, PressNotDue
  <1>5. DueKeys \subseteq DueKeys'
    BY <1>1, <1>2, <1>4, DueProcessed
  <1>6. \A k : k \notin TappedKeys'
    <2>1. ~(Current.count > 0)
      <3>1. CASE pc = "event"
        BY <3>1, CurrentIs DEF StreamInv, EventIsNew
      <3>2. CASE pc # "event"
        BY <1>1, <3>2, CurrentIs DEF StreamInv, PressIsNew
      <3>. QED BY <3>1, <3>2
    <2>. QED BY <1>3, <2>1, TappedAre DEF TapOf
  <1>7. CASE MadeUp(d)
    <2>1. PICK rel \in Record :
             /\ rel.key = tapping_key.key /\ ~rel.pressed /\ rel.count > 0
             /\ d = process_record(hid, rel)
      BY <1>7 DEF MadeUp
    <2>2. IsEvent(rel) /\ TapDown(rel.key)
      BY <1>7, <2>1 DEF MadeUp, IsEvent
    <2>3. rel.key \in TappedKeys
      BY <2>2, TappedAre DEF IsEvent, Record
    <2>4. \A k \in DueKeys : k # rel.key => k \notin TappedKeys
      BY <2>1, TappedAre DEF TapDown, TapOf
    <2>. QED BY <1>3, <1>5, <1>6, <2>1, <2>2, <2>3, <2>4, KeepsRelease
  <1>8. CASE d = hid /\ ~TappedTwice
    <2>1. ASSUME NEW k \in Key, TapDown(k) PROVE FALSE
      <3>1. /\ IsEvent(tapping_key) /\ tapping_key.pressed /\ tapping_key.count > 0
            /\ tapping_key.count \in Nat
        BY <2>1, NoKeyNotKey, CurrentIs DEF TapDown, TapOf, IsEvent, Record
      <3>2. tapping_key.count = 1
        BY <1>8, <3>1 DEF TappedTwice
      <3>3. pc = "drain"
        BY <3>1, <3>2 DEF CountInv, TapOnce
      <3>4. /\ 1 \in DOMAIN waiting_buffer /\ waiting_buffer[1].pressed
            /\ TapKey(waiting_buffer[1].key)
        BY <1>1, <3>3, CurrentIs
      <3>. QED BY <3>1, <3>4 DEF ModeInv, PressIsLast
    <2>2. \A k : k \notin TappedKeys
      BY <2>1, TappedAre
    <2>. QED BY <1>3, <1>5, <1>6, <1>8, <2>2, KeepsMore
  <1>. QED BY <1>2, <1>7, <1>8

(* Settled: the key that was decided is due from now on.                     *)
LEMMA KeepsSettled ==
    ASSUME IInv, ModeInv, StreamInv, CountInv, Running, Settled(Current)
    PROVE  Keeps
  <1>1. pc = "event" /\ TappingKeyUndecided /\ Current = event
    BY CurrentIs DEF Settled
  <1>2. PICK tk \in Record, left \in Record, q \in Record :
           /\ tk.key = tapping_key.key /\ tk.pressed /\ tk.count = left.count
           /\ q.key = Current.key /\ q.pressed = Current.pressed
           /\ \/ q = Current /\ left = NoRecord
              \/ /\ ~q.pressed /\ q.key = tapping_key.key
                 /\ left.key = tapping_key.key /\ left.pressed /\ left.count > 0
           /\ NotProcessed(q, left, process_record(hid, tk))
    BY DEF Settled
  <1>. DEFINE d == process_record(hid, tk)
  <1>3. IsEvent(tk) /\ tk.key \in Key /\ d \in Downstream
    BY <1>1, <1>2, CurrentIs, ProcessRecordType DEF TappingKeyUndecided, IsEvent, Record
  <1>4. CASE Overflow(q, d)
    BY <1>1, <1>2, <1>3, <1>4, KeepsOverflow
  <1>5. CASE ~Overflow(q, d)
    <2>1. tapping_key' = left /\ hid' = d
      BY <1>2, <1>5 DEF NotProcessed, Enqueued, StopDraining
    <2>2. ~UndecidedKey(left) /\ (left.count > 0 => left.key = tapping_key.key /\ left.pressed)
      BY <1>2, NoRecordType DEF UndecidedKey, NoRecord, Tick, KeyEvent
    <2>3. DueKeys \subseteq DueKeys'
      BY <1>1, <1>2, <1>5, <2>2, DueNotProcessed
    <2>4. tk.key \notin DueKeys
      BY <1>1, <1>2, DecidingNotDue
    <2>5. tk.key \in DueKeys'
      BY <1>1, <1>2, <1>5, <2>2, SettledMakesDue
    <2>6. tk.count > 0 <=> tk.key \in TappedKeys'
      BY <1>2, <1>3, <2>1, <2>2, TappedAre DEF TapOf
    <2>7. \A k \in DueKeys : k \notin TappedKeys /\ k \notin TappedKeys'
      <3>1. \A k : k \notin TappedKeys
        BY <1>1, TappedAre, NoneTapped
      <3>2. \A k : k \in TappedKeys' => k = tk.key
        BY <1>2, <2>1, <2>2, TappedAre DEF TapOf
      <3>. QED BY <2>4, <3>1, <3>2
    <2>. HIDE DEF d
    <2>8. hid' = process_record(hid, tk)
      BY <2>1 DEF d
    <2>. QED BY <1>2, <1>3, <2>3, <2>4, <2>5, <2>6, <2>7, <2>8, KeepsPress
  <1>. QED BY <1>4, <1>5

LEMMA KeepsWaiting ==
    ASSUME IInv, ModeInv, StreamInv, CountInv, Running, Kept(Current) \/ TimedOut(Current)
    PROVE  Keeps
  <1>1. PICK left \in Record :
           /\ NotProcessed(Current, left, hid)
           /\ UndecidedKey(left) => Deciding(left.key)
           /\ \A k : ~TapDown(k) /\ ~TapOf(left, k)
    <2>1. CASE Kept(Current)
      <3>1. PICK left \in Record :
               TappingKeyUndecided /\ SameKey(left) /\ NotProcessed(Current, left, hid)
        BY <2>1 DEF Kept
      <3>2. \A k : ~TapDown(k) /\ ~TapOf(left, k)
        BY <3>1, NoneTapped DEF TapDown, TapOf, SameKey
      <3>3. Deciding(left.key)
        BY <3>1 DEF Deciding, SameKey
      <3>. QED BY <3>1, <3>2, <3>3
    <2>2. CASE TimedOut(Current)
      <3>1. ~tapping_key.pressed /\ NotProcessed(Current, NoRecord, hid)
        BY <2>2 DEF TimedOut
      <3>2. \A k : ~TapDown(k) /\ ~TapOf(NoRecord, k)
        BY <3>1, NoRecordType DEF TapDown, TapOf
      <3>. QED BY <3>1, <3>2, NoRecordType DEF UndecidedKey
    <2>. QED BY <2>1, <2>2
  <1>2. Current \in Record /\ hid \in Downstream /\ (pc = "event" => Current = event)
    BY CurrentIs
  <1>3. CASE Overflow(Current, hid)
    <2>1. Current.key = event.key
      BY <1>2, <1>3 DEF Overflow
    <2>. QED BY <1>2, <1>3, <2>1, KeepsOverflow
  <1>4. CASE ~Overflow(Current, hid)
    <2>1. tapping_key' = left /\ hid' = hid
      BY <1>1, <1>4 DEF NotProcessed, Enqueued, StopDraining
    <2>2. DueKeys \subseteq DueKeys'
      BY <1>1, <1>2, <1>4, DueNotProcessed
    <2>3. \A k : k \notin TappedKeys /\ k \notin TappedKeys'
      BY <1>1, <2>1, TappedAre
    <2>. QED BY <2>1, <2>2, <2>3, KeepsMore
  <1>. QED BY <1>3, <1>4

LEMMA KeepsIgnored ==
    ASSUME IInv, ModeInv, StreamInv, CountInv, Running, Ignored(Current)
    PROVE  Keeps
  <1>1. /\ ~IsEvent(Current) /\ Processed(tapping_key, waiting_buffer, hid)
        /\ tapping_key \in Record
    BY CurrentIs DEF Ignored
  <1>2. tapping_key' = tapping_key /\ hid' = hid
    BY <1>1 DEF Processed
  <1>3. DueKeys \subseteq DueKeys'
    <2>1. \A k \in DueKeys : k # Current.key
      BY <1>1, NoKeyNotKey DEF IsEvent, DueKeys
    <2>2. UndecidedKey(tapping_key) => Deciding(tapping_key.key)
      BY DEF UndecidedKey, Deciding, TappingKeyUndecided
    <2>. QED BY <1>1, <2>1, <2>2, DueProcessed
  <1>. QED BY <1>2, <1>3, TappedAre, KeepsMore DEF TapDown

LEMMA KeepsEarlier ==
    ASSUME IInv, ModeInv, StreamInv, CountInv, Running, EarlierReleased(Current)
    PROVE  Keeps
  <1>1. /\ TappingKeyUndecided /\ IsEvent(Current) /\ ~Current.pressed
        /\ Processed(tapping_key, waiting_buffer, process_record(hid, Current))
        /\ tapping_key \in Record /\ Current \in Record
    BY CurrentIs DEF EarlierReleased
  <1>2. tapping_key' = tapping_key /\ hid' = process_record(hid, Current)
    BY <1>1 DEF Processed
  <1>3. \A k : k \notin TappedKeys /\ k \notin TappedKeys'
    BY <1>1, <1>2, TappedAre, NoneTapped DEF TapDown
  <1>4. ~(Current.count > 0)
    BY <1>1, CurrentCount, NoneTapped
  <1>5. \A k \in DueKeys : k # Current.key => k \in DueKeys'
    <2>1. UndecidedKey(tapping_key) => Deciding(tapping_key.key)
      BY DEF UndecidedKey, Deciding, TappingKeyUndecided
    <2>. QED BY <1>1, <2>1, DueProcessed
  <1>. QED BY <1>1, <1>2, <1>3, <1>4, <1>5, KeepsRelease

LEMMA KeepsProcessTapping ==
    ASSUME DecidedAlone, IInv, ModeInv, StreamInv, CountInv, process_tapping
    PROVE  Keeps
  BY Outcomes, KeepsIgnored, KeepsHandled, KeepsEarlier, KeepsStarted, KeepsSettled, KeepsWaiting

(* The matrix scan hands a change on: what was due because its key is down   *)
(* is due now because the release has arrived.                               *)
LEMMA KeepsHandOn ==
    ASSUME IInv, StreamInv, NEW k \in Key, HandOn(k)
    PROVE  Keeps
  <1>1. /\ pc = "scan" /\ event'.key = k /\ event'.pressed = (k \notin matrix)
        /\ matrix' = IF k \in matrix THEN matrix \ {k} ELSE matrix \cup {k}
        /\ tapping_key' = tapping_key /\ waiting_buffer' = waiting_buffer
    BY DEF HandOn, KeyEvent
  <1>2. /\ hid'.src = hid.src /\ hid'.keys = hid.keys /\ hid'.mods = hid.mods
        /\ hid'.layers = hid.layers
    BY DEF HandOn, clear_weak_mods, IInv, TypeOK, Downstream
  <1>3. event.key = NoKey
    BY <1>1 DEF StreamInv, EventIsNew, IsEvent
  <1>4. ASSUME NEW j \in DueKeys PROVE j \in DueKeys'
    <2>1. j \in Key /\ Due(j) /\ j # NoKey
      BY NoKeyNotKey DEF DueKeys
    <2>2. CASE ReleaseWaits(waiting_buffer, j)
      <3>1. Due(j)'
        BY <1>1, <2>2 DEF Due, ReleaseWaits, FirstOfKey
      <3>. QED BY <2>1, <3>1 DEF DueKeys
    <2>3. CASE ~ReleaseWaits(waiting_buffer, j)
      <3>1. /\ ~Deciding(j) /\ \A i \in DOMAIN waiting_buffer : waiting_buffer[i].key # j
            /\ j \in matrix
        BY <1>3, <2>1, <2>3 DEF Due
      <3>2. /\ ~Deciding(j)' /\ \A i \in DOMAIN waiting_buffer' : waiting_buffer'[i].key # j
        BY <1>1, <3>1 DEF Deciding, TappingKeyUndecided
      <3>3. IF event'.key = j THEN ~event'.pressed ELSE j \in matrix'
        BY <1>1, <3>1
      <3>. QED BY <2>1, <3>2, <3>3 DEF DueKeys, Due
    <2>. QED BY <2>2, <2>3
  <1>. QED BY <1>1, <1>2, <1>4, TappedAre, KeepsMore DEF TapDown

LEMMA KeepsStep ==
    ASSUME DecidedAlone, IInv, ModeInv, StreamInv, CountInv, [Next]_vars
    PROVE  Keeps
  <1>1. ASSUME UNCHANGED <<matrix, tapping_key, waiting_buffer, hid>>, event'.key = event.key,
               event.key = NoKey
        PROVE  Keeps
    <2>1. DueKeys \subseteq DueKeys'
      BY <1>1, NoKeyNotKey DEF DueKeys, Due, ReleaseWaits, FirstOfKey, Deciding,
             TappingKeyUndecided
    <2>. QED BY <1>1, <2>1, TappedAre, KeepsMore DEF TapDown
  <1>2. pc # "event" => event.key = NoKey
    BY DEF StreamInv, EventIsNew, IsEvent
  <1>3. ASSUME NEW dt \in 0..MaxDelay, IdleScan(dt) PROVE Keeps
    BY <1>1, <1>2, <1>3 DEF IdleScan, Tick, KeyEvent
  <1>4. ASSUME NEW dt \in 0..MaxDelay, NEW changed \in SUBSET Key, ChangedScan(dt, changed)
        PROVE  Keeps
    BY <1>1, <1>2, <1>4 DEF ChangedScan
  <1>5. CASE Drained
    BY <1>1, <1>2, <1>5 DEF Drained, scanVars
  <1>6. CASE UNCHANGED vars
    <2>1. /\ hid' = hid /\ tapping_key' = tapping_key /\ waiting_buffer' = waiting_buffer
          /\ matrix' = matrix /\ event' = event
      BY <1>6 DEF vars
    <2>2. DueKeys \subseteq DueKeys'
      BY <2>1 DEF DueKeys, Due, ReleaseWaits, FirstOfKey, Deciding,
             TappingKeyUndecided
    <2>. QED BY <2>1, <2>2, TappedAre, KeepsMore DEF TapDown
  <1>. QED BY <1>3, <1>4, <1>5, <1>6, KeepsHandOn, KeepsProcessTapping DEF Next, Scan

LEMMA OwnedInitially == Init => ReportInv /\ LayerInv
  BY DEF Init, InitDownstream, ReportInv, LayerInv, ReportFrom, LayersFrom

(* At rest no release is due any more.                                       *)
LEMMA NothingDue ==
    ASSUME StreamInv, AtRest
    PROVE  DueKeys = {}
  <1>1. /\ waiting_buffer = <<>> /\ matrix = {} /\ event.key = NoKey
    BY DEF AtRest, StreamInv, EventIsNew, IsEvent
  <1>. QED BY <1>1, NoKeyNotKey DEF DueKeys, Due, ReleaseWaits

LEMMA TapInvariance ==
    DecidedAlone => (Spec => [](IInv /\ ModeInv /\ StreamInv /\ CountInv /\ ReportInv))
  <1>. SUFFICES ASSUME DecidedAlone
                PROVE  Spec => [](IInv /\ ModeInv /\ StreamInv /\ CountInv /\ ReportInv)
    OBVIOUS
  <1>1. IInv /\ ModeInv /\ StreamInv /\ [Next]_vars => StreamInv'
    BY StreamStep
  <1>2. IInv /\ ModeInv /\ StreamInv /\ CountInv /\ [Next]_vars => CountInv'
    BY CountStep
  <1>3. IInv /\ ModeInv /\ StreamInv /\ CountInv /\ ReportInv /\ [Next]_vars => ReportInv'
    BY KeepsStep DEF Keeps
  <1>. QED BY <1>1, <1>2, <1>3, StreamInitially, CountInitially, OwnedInitially,
              ModeInvariance, PTL DEF Spec

(* Nothing sticks: with every key up and nothing left to decide or to drain, *)
(* the report is empty (unregister_code() and unregister_mods() in           *)
(* process_action(), and clear_keyboard() at action_tapping.c:91 when the    *)
(* buffer overflows).  All that is in the report is owned by a key whose     *)
(* release is still due, and the release takes away what its key has given:  *)
(* the source layer cache finds the same action, and the release counts as a *)
(* tap exactly when the press did.                                           *)
THEOREM ReportNeverSticks == DecidedAlone => (Spec => []ReportNeverStuck)
  <1>. SUFFICES ASSUME DecidedAlone PROVE Spec => []ReportNeverStuck
    OBVIOUS
  <1>1. IInv /\ StreamInv /\ ReportInv => ReportNeverStuck
    <2>. SUFFICES ASSUME StreamInv, ReportInv, AtRest PROVE hid.keys = {} /\ hid.mods = {}
      BY DEF ReportNeverStuck
    <2>1. DueKeys = {}
      BY NothingDue
    <2>. QED BY <2>1 DEF ReportInv, ReportFrom
  <1>. QED BY <1>1, TapInvariance, PTL

(* What settles a key of the default mode as held: by Outcomes only an event *)
(* that came when its term had passed does.                                  *)
LEMMA HeldForItsTerm ==
    ASSUME DecidedAlone, IInv, ModeInv, [Next]_vars, ~Overflowed, SettlesAsHold,
           tapping_key.key \notin PERMISSIVE_HOLD \cup HOLD_ON_OTHER_KEY_PRESS
    PROVE  TIMER_DIFF(now, tapping_key.time) >= TAPPING_TERM[tapping_key.key]
  <1>1. /\ TappingKeyUndecided /\ tapping_key'.count = 0
        /\ tapping_key.key \in hid'.sent /\ tapping_key.key \notin hid.sent
    BY DEF SettlesAsHold
  <1>2. /\ hid \in Downstream /\ tapping_key \in Record /\ now \in Time
        /\ tapping_key.key \in Key
    BY <1>1 DEF IInv, TypeOK, TappingKeyUndecided, IsEvent, Record
  <1>3. hid'.sent # hid.sent
    BY <1>1
  <1>4. process_tapping
    <2>1. clear_weak_mods(hid).sent = hid.sent
      BY <1>2 DEF clear_weak_mods, Downstream
    <2>. QED BY <1>3, <2>1 DEF Next, Scan, IdleScan, ChangedScan, HandOn, Drained, vars
  <1>5. /\ Running
        /\ \/ Ignored(Current) \/ Handled(Current) \/ EarlierReleased(Current)
           \/ Started(Current) \/ Settled(Current) \/ Kept(Current) \/ TimedOut(Current)
    BY <1>4, Outcomes
  <1>6. Current \in Record
    BY <1>5, CurrentType DEF IInv
  <1>7. ASSUME NEW q \in Record, NEW left, NEW d \in Downstream, NotProcessed(q, left, d),
               q.key = Current.key
        PROVE  tapping_key' = left /\ hid' = d
    <2>1. ~Overflow(q, d)
      <3>1. Overflow(q, d) => q.key = event.key
        BY <1>5, <1>7 DEF Overflow, Current
      <3>. QED BY <3>1 DEF Overflowed
    <2>. QED BY <1>7, <2>1 DEF NotProcessed, Enqueued, StopDraining
  <1>8. ~Ignored(Current)
    BY <1>3 DEF Ignored, Processed
  <1>9. ~Handled(Current) /\ ~Started(Current)
    BY <1>1 DEF Handled, Started
  <1>10. ~EarlierReleased(Current)
    <2>. SUFFICES ASSUME EarlierReleased(Current) PROVE FALSE
      OBVIOUS
    <2>1. /\ IsEvent(Current) /\ ~Current.pressed
          /\ hid' = process_record(hid, Current)
      BY DEF EarlierReleased, Processed
    <2>2. hid'.sent = hid.sent \ {Current.key}
      BY <1>2, <1>6, <2>1, SentIs
    <2>. QED BY <1>1, <2>2
  <1>11. ~Kept(Current)
    BY <1>2, <1>3, <1>6, <1>7 DEF Kept
  <1>12. ~TimedOut(Current)
    BY <1>2, <1>3, <1>6, <1>7 DEF TimedOut
  <1>13. Settled(Current)
    BY <1>5, <1>8, <1>9, <1>10, <1>11, <1>12
  <1>14. PICK tk \in Record, left \in Record, q \in Record :
            /\ tk.key = tapping_key.key /\ q.key = Current.key
            /\ \/ ~Within(Current, tapping_key, TAPPING_TERM)
               \/ left.count > 0
            /\ NotProcessed(q, left, process_record(hid, tk))
    BY <1>13 DEF Settled
  <1>15. tapping_key' = left
    <2>1. process_record(hid, tk) \in Downstream
      BY <1>1, <1>2, <1>14, ProcessRecordType DEF TappingKeyUndecided, IsEvent
    <2>. QED BY <1>7, <1>14, <2>1
  <1>16. ~(left.count > 0)
    BY <1>1, <1>15
  <1>17. ~(TIMER_DIFF(now, tapping_key.time) < TAPPING_TERM[tapping_key.key])
    <2>1. pc = "event" /\ Current = event
      BY <1>13 DEF Settled, Current
    <2>2. Current.time = now
      BY <2>1 DEF ModeInv, EventIsNow
    <2>. QED BY <1>14, <1>16, <2>2 DEF Within
  <1>18. /\ TIMER_DIFF(now, tapping_key.time) \in Int
         /\ TAPPING_TERM[tapping_key.key] \in Int
    <2>1. TAPPING_TERM[tapping_key.key] \in Time /\ tapping_key.time \in Time
      BY <1>2, TappingAssumption DEF Record
    <2>. QED BY <1>2, <2>1, KeymapAssumption DEF TIMER_DIFF, Time
  <1>. QED BY <1>17, <1>18

(* Default mode "selects the hold action only if the dual-role key is held   *)
(* down longer than the tapping term" (docs/tap_hold.md:121), also when      *)
(* other keys are pressed and released meanwhile.  An overflow is left out:  *)
(* it forgets a key that has just been tapped (action_tapping.c:88).  With   *)
(* two tap keys it is not so: an event may be left in the buffer that is     *)
(* older than the next tapping key, and TIMER_DIFF() puts it past the term.  *)
THEOREM HoldNeedsTerm ==
    OneTapKey => (Spec /\ [][~Overflowed]_vars => HoldOnlyAfterTerm)
  <1>. SUFFICES ASSUME OneTapKey
                PROVE  Spec /\ [][~Overflowed]_vars => HoldOnlyAfterTerm
    OBVIOUS
  <1>0. DecidedAlone
    BY DEF DecidedAlone
  <1>. DEFINE Held == SettlesAsHold
                         /\ tapping_key.key \notin PERMISSIVE_HOLD \cup HOLD_ON_OTHER_KEY_PRESS
                         => TIMER_DIFF(now, tapping_key.time) >= TAPPING_TERM[tapping_key.key]
  <1>1. IInv /\ ModeInv /\ [Next]_vars /\ [~Overflowed]_vars => [Held]_vars
    BY <1>0, HeldForItsTerm
  <1>. QED BY <1>0, <1>1, ModeInvariance, PTL DEF Spec, HoldOnlyAfterTerm

-----------------------------------------------------------------------------
(* The buffer.  Behind an undecided key waits at most one event of every     *)
(* other key, its release: the next press of that key would settle it.       *)
OneRelease ==
    TappingKeyUndecided =>
        \A i, j \in DOMAIN waiting_buffer : waiting_buffer[i].key = waiting_buffer[j].key => i = j

LEMMA OneReleaseProcessed ==
    ASSUME IInv, OneRelease, Running, TappingKeyUndecided, NEW d,
           Processed(tapping_key, waiting_buffer, d)
    PROVE  OneRelease'
  <1>. DEFINE w == waiting_buffer
  <1>1. w \in Seq(Record) /\ (pc # "event" => w # <<>>)
    BY DEF IInv, TypeOK, Running
  <1>2. w' = IF pc = "event" THEN w ELSE Tail(w)
    BY DEF Processed
  <1>3. \A i, j \in DOMAIN w : w[i].key = w[j].key => i = j
    BY DEF OneRelease
  <1>. HIDE DEF w
  <1>4. \A i, j \in DOMAIN w' : w'[i].key = w'[j].key => i = j
    <2>1. CASE pc = "event"
      BY <1>2, <1>3, <2>1
    <2>2. CASE pc # "event"
      <3>1. /\ Len(w) \in Nat /\ DOMAIN w' = 1..(Len(w) - 1) /\ DOMAIN w = 1..Len(w)
            /\ \A i \in 1..(Len(w) - 1) : w'[i] = w[i + 1] /\ i + 1 \in 1..Len(w)
        BY <1>1, <1>2, <2>2, TailIs
      <3>. SUFFICES ASSUME NEW i \in DOMAIN w', NEW j \in DOMAIN w', w'[i].key = w'[j].key
                    PROVE  i = j
        OBVIOUS
      <3>2. w[i + 1].key = w[j + 1].key /\ i + 1 \in DOMAIN w /\ j + 1 \in DOMAIN w
        BY <3>1
      <3>3. i + 1 = j + 1 /\ i \in Nat /\ j \in Nat
        BY <1>3, <3>1, <3>2
      <3>. QED BY <3>3
    <2>. QED BY <2>1, <2>2
  <1>. QED BY <1>4 DEF OneRelease, w

(* A release that has to wait is the first of its key.                       *)
LEMMA OneReleaseKept ==
    ASSUME TapKeysHold, IInv, ModeInv, StreamInv, OneRelease, Running, Kept(Current)
    PROVE  OneRelease'
  <1>. DEFINE w == waiting_buffer
              r == Current
  <1>1. PICK left \in Record :
           /\ TappingKeyUndecided /\ IsEvent(r) /\ NotProcessed(r, left, hid)
           /\ r.pressed => tapping_key.key \notin HOLD_ON_OTHER_KEY_PRESS
    BY DEF Kept
  <1>2. /\ w \in Seq(Record) /\ r \in Record /\ (pc = "event" => r = event)
        /\ pc # "event" => w # <<>> /\ r = w[1] /\ 1 \in DOMAIN w
    BY CurrentIs
  <1>3. \A i, j \in DOMAIN w : w[i].key = w[j].key => i = j
    BY <1>1 DEF OneRelease
  <1>4. tapping_key.key \in HOLD_ON_OTHER_KEY_PRESS
    <2>1. IsEvent(tapping_key) /\ tapping_key \in Record
      BY <1>1 DEF TappingKeyUndecided, IInv, TypeOK
    <2>2. tapping_key.key \in Key /\ TapKey(tapping_key.key)
      BY <2>1 DEF ModeInv, OfTapKey, IsEvent, Record
    <2>. QED BY <2>2 DEF TapKeysHold
  <1>5. ~r.pressed /\ \A i \in DOMAIN w : ~w[i].pressed
    BY <1>1, <1>4 DEF ModeInv, NoPressBehindHold
  <1>6. CASE Enqueued(r, left, hid)
    <2>1. pc = "event" /\ w' = Append(w, r)
      BY <1>1, <1>6 DEF Enqueued
    <2>2. \A i \in DOMAIN w : w[i].key # r.key
      <3>1. ~event.pressed /\ r = event
        BY <1>2, <1>5, <2>1
      <3>2. ~waiting_buffer_typed(event)
        <4>1. event.pressed = FALSE
          BY <3>1, CurrentIs DEF Record
        <4>2. \A i \in DOMAIN waiting_buffer : waiting_buffer[i].pressed = FALSE
          <5>1. \A i \in DOMAIN waiting_buffer : waiting_buffer[i].pressed \in BOOLEAN
            <6>1. \A i \in DOMAIN waiting_buffer : waiting_buffer[i] \in Record
              BY <1>2
            <6>2. \A e \in Record : e.pressed \in BOOLEAN
              BY DEF Record
            <6>. QED BY <6>1, <6>2
          <5>. QED BY <1>5, <5>1
        <4>. QED BY <4>1, <4>2 DEF waiting_buffer_typed
      <3>. QED BY <2>1, <3>1, <3>2, NoneEarlier
    <2>. HIDE DEF w, r
    <2>3. /\ DOMAIN w' = DOMAIN w \cup {Len(w) + 1}
          /\ \A i \in DOMAIN w : w'[i] = w[i] /\ i # Len(w) + 1
          /\ w'[Len(w) + 1] = r
      BY <1>2, <2>1, AppendIs
    <2>4. \A i, j \in DOMAIN w' : w'[i].key = w'[j].key => i = j
      BY <1>3, <2>2, <2>3
    <2>. QED BY <2>4 DEF OneRelease, w
  <1>7. CASE Overflow(r, hid)
    BY <1>7 DEF Overflow, OneRelease
  <1>8. CASE StopDraining(r, left, hid)
    <2>1. pc # "event" /\ w' = [w EXCEPT ![1] = r]
      BY <1>8 DEF StopDraining
    <2>. HIDE DEF w, r
    <2>2. w' = w
      BY <1>2, <2>1
    <2>. QED BY <1>3, <2>2 DEF OneRelease, w
  <1>. QED BY <1>1, <1>6, <1>7, <1>8 DEF NotProcessed

LEMMA OneReleaseProcessTapping ==
    ASSUME TapKeysHold, IInv, ModeInv, StreamInv, OneRelease, process_tapping
    PROVE  OneRelease'
  <1>1. /\ Running
        /\ \/ Ignored(Current) \/ Handled(Current) \/ EarlierReleased(Current)
           \/ Started(Current) \/ Settled(Current) \/ Kept(Current) \/ TimedOut(Current)
    <2>. DecidedAlone
      BY DEF DecidedAlone
    <2>. QED BY Outcomes
  <1>2. CASE Ignored(Current)
    <2>1. Processed(tapping_key, waiting_buffer, hid)
      BY <1>2 DEF Ignored
    <2>2. CASE TappingKeyUndecided
      BY <1>1, <2>1, <2>2, OneReleaseProcessed
    <2>3. CASE ~TappingKeyUndecided
      BY <2>1, <2>3 DEF Processed, OneRelease, TappingKeyUndecided
    <2>. QED BY <2>2, <2>3
  <1>3. CASE Handled(Current)
    BY <1>3 DEF Handled, Processed, OneRelease, TappingKeyUndecided, UndecidedKey
  <1>4. CASE EarlierReleased(Current)
    BY <1>1, <1>4, OneReleaseProcessed DEF EarlierReleased
  <1>5. CASE Started(Current)
    <2>1. PICK d : Processed(Current, waiting_buffer, d)
      BY <1>5 DEF Started
    <2>2. waiting_buffer' = <<>>
      BY <1>1, <1>5, <2>1, PressAlone DEF Started, Processed, Running
    <2>. QED BY <2>2 DEF OneRelease
  <1>6. CASE Settled(Current)
    <2>1. PICK tk \in Record, left \in Record, q \in Record :
             /\ left = NoRecord \/ left.count > 0
             /\ NotProcessed(q, left, process_record(hid, tk))
      BY <1>6 DEF Settled
    <2>2. tapping_key' = left \/ tapping_key' = NoRecord
      BY <2>1 DEF NotProcessed, Enqueued, Overflow, StopDraining
    <2>3. left.count > 0 => left.count # 0
      OBVIOUS
    <2>. QED BY <2>1, <2>2, <2>3, NoRecordType DEF OneRelease, TappingKeyUndecided
  <1>7. CASE Kept(Current)
    BY <1>1, <1>7, OneReleaseKept
  <1>8. CASE TimedOut(Current)
    BY <1>8, NoRecordType DEF TimedOut, NotProcessed, Enqueued, Overflow, StopDraining,
                               OneRelease, TappingKeyUndecided
  <1>. QED BY <1>1, <1>2, <1>3, <1>4, <1>5, <1>6, <1>7, <1>8

LEMMA OneReleaseStep ==
    ASSUME TapKeysHold, IInv, ModeInv, StreamInv, OneRelease, [Next]_vars
    PROVE  OneRelease'
  <1>1. ASSUME UNCHANGED <<tapping_key, waiting_buffer>> PROVE OneRelease'
    BY <1>1 DEF OneRelease, TappingKeyUndecided
  <1>2. ASSUME NEW dt \in 0..MaxDelay, IdleScan(dt) PROVE OneRelease'
    BY <1>1, <1>2 DEF IdleScan
  <1>3. ASSUME NEW dt \in 0..MaxDelay, NEW changed \in SUBSET Key, ChangedScan(dt, changed)
        PROVE  OneRelease'
    BY <1>1, <1>3 DEF ChangedScan
  <1>4. ASSUME NEW k \in Key, HandOn(k) PROVE OneRelease'
    BY <1>1, <1>4 DEF HandOn
  <1>5. CASE Drained
    BY <1>1, <1>5 DEF Drained
  <1>6. CASE UNCHANGED vars
    BY <1>1, <1>6 DEF vars
  <1>. QED BY <1>2, <1>3, <1>4, <1>5, <1>6, OneReleaseProcessTapping DEF Next, Scan

LEMMA CountOfRange ==
    ASSUME NEW n \in Nat
    PROVE  IsFiniteSet(1..n) /\ Cardinality(1..n) = n
  <1>1. /\ IsFiniteSet(1..n)
        /\ Cardinality(1..n) = IF 1 > n THEN 0 ELSE n - 1 + 1
    <2>1. 1 \in Int /\ n \in Int
      OBVIOUS
    <2>. QED BY <2>1, FS_Interval, Zenon
  <1>. QED BY <1>1

(* So what waits is shorter than the matrix ...                              *)
LEMMA FewWait ==
    ASSUME IInv, ModeInv, OneRelease, TappingKeyUndecided
    PROVE  Len(waiting_buffer) < NumKeys
  <1>. DEFINE w == waiting_buffer
              S == 1..Len(w)
              T == Key \ {tapping_key.key}
              f == [i \in S |-> w[i].key]
  <1>1. w \in Seq(Record) /\ Len(w) \in Nat /\ DOMAIN w = S /\ NumKeys \in Nat
    BY KeymapAssumption DEF IInv, TypeOK
  <1>2. tapping_key.key \in Key /\ \A i \in S : w[i].key \in Key
    <2>1. tapping_key \in Record /\ IsEvent(tapping_key)
      BY DEF IInv, TypeOK, TappingKeyUndecided
    <2>2. \A i \in S : w[i] \in Record /\ IsEvent(w[i])
      BY <1>1 DEF IInv, TypeOK
    <2>3. \A e \in Record : IsEvent(e) => e.key \in Key
      BY DEF IsEvent, Record
    <2>. QED BY <2>1, <2>2, <2>3
  <1>3. \A i \in S : w[i].key # tapping_key.key
    BY <1>1 DEF ModeInv, BehindUndecided
  <1>4. \A i, j \in S : w[i].key = w[j].key => i = j
    BY <1>1 DEF OneRelease
  <1>5. f \in [S -> T] /\ \A i, j \in S : i # j => f[i] # f[j]
    BY <1>2, <1>3, <1>4
  <1>6. IsFiniteSet(S) /\ Cardinality(S) = Len(w)
    BY <1>1, CountOfRange
  <1>7. IsFiniteSet(Key) /\ Cardinality(Key) = NumKeys
    BY <1>1, CountOfRange
  <1>8. IsFiniteSet(T) /\ Cardinality(T) = NumKeys - 1
    <2>1. tapping_key.key \in Key
      BY <1>2
    <2>. HIDE DEF Key
    <2>. QED BY <1>7, <2>1, FS_RemoveElement
  <1>. HIDE DEF S, T, f
  <1>9. ~(Cardinality(T) < Cardinality(S))
    BY <1>5, <1>6, <1>8, FS_PigeonHole
  <1>. QED BY <1>1, <1>6, <1>8, <1>9

(* ... and a ring with more slots than the matrix has keys never overflows.  *)
RoomForAll == WAITING_BUFFER_SIZE > NumKeys

LEMMA NeverOverflows ==
    ASSUME RoomForAll, IInv, ModeInv, OneRelease
    PROVE  ~Overflowed
  <1>. SUFFICES ASSUME pc = "event", Len(waiting_buffer) = WAITING_BUFFER_SIZE - 1 PROVE FALSE
    BY DEF Overflowed, Overflow, Full
  <1>1. /\ WAITING_BUFFER_SIZE \in Nat /\ WAITING_BUFFER_SIZE > 1 /\ NumKeys \in Nat
    BY TappingAssumption, KeymapAssumption
  <1>2. CASE waiting_buffer = <<>>
    BY <1>1, <1>2
  <1>3. CASE waiting_buffer # <<>>
    <2>1. Len(waiting_buffer) < NumKeys
      BY <1>3, FewWait DEF ModeInv, OnlyUndecidedWaits
    <2>. QED BY <1>1, <2>1 DEF RoomForAll
  <1>. QED BY <1>2, <1>3

LEMMA LayerAtRest ==
    ASSUME StreamInv, LayerInv, AtRest
    PROVE  hid.layers = {}
  BY NothingDue DEF LayerInv, LayersFrom

(* As long as the buffer does not overflow, every momentary layer goes off   *)
(* with its key too: layer_off() in process_action().  An overflow calls     *)
(* clear_keyboard(), which leaves layer_state alone.  A TT() key toggles its *)
(* layer by design and is left out.                                          *)
THEOREM LayersNeverStick ==
    DecidedAlone /\ NoToggles => (Spec /\ [][~Overflowed]_vars => []NothingStuck)
  <1>. SUFFICES ASSUME DecidedAlone, NoToggles
                PROVE  Spec /\ [][~Overflowed]_vars => []NothingStuck
    OBVIOUS
  <1>1. IInv /\ ModeInv /\ StreamInv /\ CountInv /\ LayerInv /\ [Next]_vars
           /\ [~Overflowed]_vars => LayerInv'
    <2>. SUFFICES ASSUME IInv, ModeInv, StreamInv, CountInv, LayerInv, [Next]_vars,
                         [~Overflowed]_vars
                  PROVE  LayerInv'
      OBVIOUS
    <2>1. CASE UNCHANGED vars
      <3>1. LayerInv' <=> LayerInv
        BY <2>1 DEF vars, LayerInv, LayersFrom, DueKeys, TappedKeys, Due, ReleaseWaits,
                    FirstOfKey, Deciding, TappingKeyUndecided, TapDown, TapOf, GivesLayer
      <3>. QED BY <3>1
    <2>2. CASE ~Overflowed
      BY <2>2, KeepsStep DEF Keeps
    <2>. QED BY <2>1, <2>2
  <1>2. StreamInv /\ LayerInv => (AtRest => hid.layers = {})
    BY LayerAtRest
  <1>. QED BY <1>1, <1>2, TapInvariance, ReportNeverSticks, OwnedInitially, PTL
           DEF Spec, NothingStuck

(* A waiting buffer with more slots than the board has keys never            *)
(* overflows: it is drained before a key can be released twice.              *)
THEOREM NothingSticks ==
    TapKeysHold /\ NoToggles /\ RoomForAll => (Spec => []NothingStuck)
  <1>. SUFFICES ASSUME TapKeysHold, NoToggles, RoomForAll PROVE Spec => []NothingStuck
    OBVIOUS
  <1>1. OneRelease /\ IInv /\ ModeInv /\ StreamInv /\ [Next]_vars => OneRelease'
    BY OneReleaseStep
  <1>2. Init => OneRelease
    BY DEF Init, OneRelease
  <1>3. IInv /\ ModeInv /\ OneRelease => ~Overflowed
    BY NeverOverflows
  <1>4. DecidedAlone
    BY DEF DecidedAlone
  <1>5. Spec => [](IInv /\ ModeInv /\ StreamInv /\ CountInv /\ ReportInv)
    BY <1>4, TapInvariance
  <1>6. Spec /\ [][~Overflowed]_vars => []NothingStuck
    BY <1>4, LayersNeverStick
  <1>. QED BY <1>1, <1>2, <1>3, <1>5, <1>6, PTL DEF Spec
==============================================================================
