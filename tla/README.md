# A TLA+ verification of the QMK keyboard firmware

QMK is the firmware of a keyboard: one C program, without an operating system, that
scans a key matrix, decides what each key means and sends reports to a host.  Its core
logic is a set of small state machines that share the main loop, a millisecond timer
and each other's buffers.  They hold few bytes of state, but what they do depends on
the order in which key events, timeouts and failures happen, and that is hard to cover
with tests.  This directory models those state machines in TLA+, checks them with TLC
and proves the invariants that matter most with TLAPS.

All paths below are relative to the repository, as `src/...`.

## 1. The system

`src/` holds 37,000 files, nearly all of them keyboard definitions.  The program is
`src/quantum/` with the timer of `src/platforms/` and the host interface of
`src/tmk_core/protocol/`.

### 1.1 The path of a key event

    matrix pins --> matrix_scan() --> debounce() --> matrix_task()
                                                        |  keyevent_t, or a tick
                                                        v
       pre_process_record_quantum (combos) <---- action_exec()
                                                        |
                                                        v
                             action_tapping_process()   [tap or hold?]
                               |  waiting_buffer        |
                               v                        v
                             process_record()  --> process_record_quantum()
                                                   (tap dance, leader, caps word ...)
                                                        |
                                                        v
                     store_or_get_action() --> process_action()
                       [layers]                 [mods, keys, layer_state]
                                                        |
                                                        v
                                              send_keyboard_report()

Everything runs in one thread of control: `keyboard_task()` is called from the main
loop and calls `matrix_task()`, which hands at most one event for each changed key to
`action_exec()` and generates a *tick event* when no key changed and the millisecond
counter moved on (`src/quantum/keyboard.c:487-560`).  On a split keyboard two
microcontrollers each run this loop, and one polls the other. Settings survive in
EEPROM or, on chips without one, in flash behind the wear leveling layer.

### 1.2 The components

For each: the state it keeps, its operations, whom it interacts with, what is hard
about it and what makes it correct.

**Tap/hold decision** (`src/quantum/action_tapping.c`). *State:* `tapping_key`, the
one dual-role key that is being decided, with its tap count and interrupted flag, and
`waiting_buffer`, a ring of eight records. *Operations:* `action_tapping_process()`
for every event and every tick. *Interacts with* the scan loop above it, the timer,
and `process_record()` below it, whose layer changes feed back into which key counts
as a tap key. *Hard:* 22 branches, each of which keeps, delays or reorders events; a
buffer that overflows; a decision made by time, by another key, or by the release; the
loop over the buffer stops at the first record that is not consumed. *Correct when* no
key is left pressed on the host, each key's press and release arrive in order and are
not lost, presses do not overtake one another, each mode decides for a hold exactly
when its documentation says so, and every decision is made in the end.

**Key actions, layers, modifiers** (`src/quantum/action.c`, `action_layer.c`,
`action_util.c`).  *State:* `layer_state`, the source layer cache, real, weak and
one-shot modifiers, the keys in the report.  *Operations:* `process_action()`,
`layer_on/off/invert`, `register_code`, `clear_keyboard`. *Hard:* a release must undo
what its press did although layers changed in between; weak modifiers belong to one
key but are shared state; one-shot state times out.  *Correct when* the report is
empty once every key is up.

**Debouncing** (`src/quantum/debounce/`, seven algorithms).  *State:* a countdown for
each key or row, and a time stamp.  *Operation:* `debounce()` after every raw scan.
*Hard:* the expiry of a countdown in the very scan in which a switch bounces; a time
stamp that is only kept while countdowns run; several keys that share one countdown.
*Correct when* a deferring algorithm reports a change only after a quiet period, an
eager one reports at once and then locks, and no algorithm ends up disagreeing with
the switches.

**Wear leveling** (`src/quantum/wear_leveling/`).  *State:* a RAM cache, a position in
the log, the lock of the backing store; in flash the consolidated data, its FNV-1a
checksum and the write log.  *Operations:* init, write, read, erase.  *Hard:* power
may be lost between any two flash writes; any flash call may fail; entries of the log
span words.  *Correct when* a restart finds what reads returned before it, or for the
block being written a mixture of its old and new bytes.

**Deferred execution** (`src/quantum/deferred_exec.c`).  *State:* a table of tokens,
trigger times and callbacks.  *Operations:* defer, extend, cancel, the task.  *Hard:*
callbacks call those operations while the task walks over the table; 8-bit tokens
wrap; the 32-bit timer wraps.  *Correct when* a callback runs only while its token is
valid and not before its time.

**Split transport** (`src/quantum/split_common/`, `src/quantum/sync_timer.c`).
*State:* a shared memory block on each half, checksums, an error counter, the
watchdog.  *Operations:* the transactions of each scan cycle.  *Hard:* a transaction
may be lost after it was carried out; a checksum and its data are read by separate
transactions.  *Correct when* the master's copy converges to the slave's matrix, and
never shows a matrix that never was.

**Combos** (`src/quantum/process_keycode/process_combo.c`).  *State:* a key buffer, a
ring of ready combos, a timer, per-combo state bits.  *Hard:* it holds keys back and
then feeds them through the tap/hold machine, which may make them wait again, and it
may re-enter itself.  *Correct when* every key that went into the buffer either takes
part in one combo or comes out once, in order.

**Tap dance** (`src/quantum/process_keycode/process_tap_dance.c`).  *State:* a record
for each dance with its count and the modifiers of its last tap, and `active_td`, the
one dance that is waited for.  *Operations:* a look at every press before it is
processed, the press and release of a dance's key, and the task.  *Hard:* a dance is
decided by a pause, by another key or by its own functions; the modifiers of a tap are
brought back when it is decided, and must go again, while keys that share them come
and go.  *Correct when* each dance is decided once, before the key that interrupts it,
and leaves nothing behind.

**Secure** (`src/quantum/secure.c`), **one-shot keys** (`action_util.c`).  Small
machines with one timer each.  Not modelled, see section 8.

**Other key processors** (leader, caps word, auto shift, key override, repeat key, key
lock, space cadet, dynamic macro, tri layer, autocorrect): filters in the chain of
`process_record_quantum()`, sequential and mostly independent.

**The rest**: keycode dispatch and keymap tables, EEPROM configuration, VIA, encoders
and pointing devices, mouse keys, lighting, displays, sound, haptics, USB and
Bluetooth protocols, platform code.  They are tables, arithmetic, output or I/O;
section 8 gives the reason for each.

## 2. The modules

| Module | Models | Extends |
|---|---|---|
| `KeyAction` | layer lookup, actions, modifiers, report (operators only) | |
| `ActionTapping` | the scan loop and the tap/hold machine on top of `KeyAction` | `KeyAction` |
| `KeyStream` | abstract: what the tap/hold machine promises each key | |
| `ActionTappingProofs` | type correctness and two invariants of `ActionTapping`; in two modes, that no press overtakes, that nothing sticks, that `KeyStream` is implemented and that a hold takes its term | `ActionTapping` |
| `Debounce` | the seven debounce algorithms under `matrix_scan()` | |
| `DebounceProofs` | quiet before a deferred change, lock after an eager one | `Debounce` |
| `DebounceLagProofs` | no change is reported too late, or lost | `DebounceProofs` |
| `WearLeveling` | the API, the backing store, power loss and failures | |
| `EepromStore` | abstract: a memory that survives power loss | |
| `WearLevelingProofs` | the log parses, nothing is lost, `EepromStore` is implemented, the store is locked | `WearLeveling` |
| `DeferredExec` | the table of deferred callbacks and the pass over it | |
| `TimerQueue` | abstract: a queue of timers | |
| `DeferredExecProofs` | type correctness, one entry per token, implements `TimerQueue` | `DeferredExec` |
| `SplitTransport` | two halves and the cable between them | |
| `SplitTransportProofs` | the order of the matrices, the release of a lost half | `SplitTransport` |
| `Combo` | the key buffer, the ring of ready combos, the timer | |
| `ComboProofs` | the types, nothing sticks, every press once and before its release, no ready combo forgotten | `Combo` |
| `TapDance` | dances, with the modifiers and layers they reach | |
| `DanceLife` | abstract: when the functions of one dance are called | |
| `TapDanceProofs` | nothing sticks, `DanceLife` is implemented, keys and modifiers go out in order | `TapDance` |

`MCActionTapping`, `MCDebounce`, `MCWearLeveling`, `MCSplit`, `MCCombo` and
`MCTapDance` give TLC the constants that are functions: keymaps, rows, erase units,
checksums, combos, dances.

Definitions that follow a comment `(* mutant: ... *)` are plausible mistakes in the
code.  Nothing uses them; each stands before the definition it would replace, and
replacing it makes the property it is listed for in `PROJECT.json` fail under that
property's run.  They show that the property depends on the code.

Where a function of the code changes several variables in turn, the module keeps them
in one record and gives each C function as an operator from record to record (`hid` in
`ActionTapping`, `st` in `Combo` and `TapDance`); the names of the operators are those
of the functions.

### 2.1 `KeyAction` and `ActionTapping`

*Composition.*  `KeyAction` is a library of operators on a record `d`, the downstream
state: `keys` (in the report), `mods` (`real_mods`), `weak` (`weak_mods`), `layers`
(`layer_state`), `src` (`source_layers_cache`) and the history `sent`, the keys whose
last processed event was a press.  `ActionTapping` holds one such record in the
variable `hid` and calls `process_record(hid, r)` wherever the code calls
`process_record()`.

| Variable | Code |
|---|---|
| `pc` | where the thread is: in `matrix_task()` (`"scan"`), about to call `process_tapping()` for the event (`"event"`), or in the loop over the buffer (`"drain"`) |
| `now`, `last_tick` | `timer_read()`, the static of `generate_tick_event()` |
| `matrix`, `todo` | `matrix_previous` and the changed keys not handed on yet |
| `event` | the argument of `action_exec()` |
| `tapping_key`, `waiting_buffer` | the same names; the ring is a sequence |

An action is one call of `process_tapping()` with all that follows from its result in
`action_tapping_process()`: the assignment of `tapping_key`, the `process_record()` it
does, and the enqueue, the overflow with `clear_keyboard()`, or the step in the drain
loop.  There is one action for each branch of `process_tapping()`; its name says
which, and `PROJECT.json` gives the lines.  The four ways in which a branch may end
are the operators `Processed` (returned true), `Enqueued`, `Overflow` and
`StopDraining` (returned false). `HandOn` is `action_exec()` up to the call of the
tapping machine, including the clearing of weak modifiers at the arrival of a press.

`IdleScan(dt)` and `ChangedScan(dt, changed)` are the environment: time passes and any
keys change.  A scan is only possible once the loop has ended, because there is a
single thread.  An idle scan generates a tick only when the millisecond counter
differs from the last tick's.

*Per key parameters.*  `TAPPING_TERM`, `QUICK_TAP_TERM`, `PERMISSIVE_HOLD` and
`HOLD_ON_OTHER_KEY_PRESS` are given for each key, as `get_tapping_term()` etc. are in
the code; a mode that is a build-wide constant is the special case where all keys
agree.

*Abstractions.*  Keycodes are model values; a report is a set of keys; the six key
limit, NKRO and the USB layer are left out.  One-shot keys, swap hands, mouse and
media keys, functions and the `process_record_quantum` chain are not modelled.  Code
under `AUTO_SHIFT_ENABLE` with `RETRO_SHIFT`, and under `STRICT_LAYER_RELEASE`, is
compiled out, as in a default build.

### 2.2 `KeyStream`

The abstract specification of the tap/hold machine, seen by one key at a time:
`pending` are the events that the matrix produced and the host side has not processed,
in the order they came, and `sent` the keys whose last processed event was a press.
Events arrive at the end; one may be delivered when no earlier event of its own key is
pending, whatever else is.  They may only be lost when more than `Capacity` of them
are pending, and then all at once, save the oldest, which may be delivered first.  A
release may be delivered early, when a press is pending that takes over as the tapping
key: the made-up release of a repeated tap key
(`src/quantum/action_tapping.c:312-324`).
`ActionTapping!EveryKeyInOrder` is the refinement, under the mapping `Waiting`: the
press that is being decided, what waits in the buffer, and the event in hand.

### 2.3 `Debounce`

One variable `algorithm`, chosen in the initial state, stands for the `DEBOUNCE_TYPE`
of the build.  `matrix_scan(read)` is one call of `matrix_scan()`: the raw matrix
becomes `read`, any set of keys, and `debounce()` computes the cooked matrix.
`counter`, `pressed`, `need_update` and `age` are the statics of the algorithm in use;
a row algorithm keeps a row's counter at the first key of the row.  `Millisecond` is
the timer.  `quiet` and `held` are history: how long ago each raw and each cooked key
changed.  They are read only by properties.

### 2.4 `WearLeveling` and `EepromStore`

`data`, `sum` and `log` are the backing store: the consolidated bytes, the checksum
(of which contents it is the checksum and how many of its words have been written) and
the log, a sequence of words that start out erased.  `cache`, `write_address` and
`unlocked` are the fields of `wear_leveling`.  `pc`, `todo`, `next`, `locks` and
`block` are the local state of a running call.

A step is *one call into the backing store*: `AppendWord`, `EraseSector`, `WriteData`,
`WriteSum`, with `...Fails` where the call may return false.  So `PowerLoss`, enabled
everywhere, falls between any two of them.  `LogWords` is the encoder of
`wear_leveling_write_raw()`, entry by entry.  Its counterpart is
`wear_leveling_playback_log()`: `EntryAt` collects the words of the entry at a slot,
`Decoded` takes its type, address and values apart, `Inside` is the bounds check, and
`Playback` goes through a log from any slot and with any cache until it meets an erased
word, the end of the store or an entry that is refused.  `playback_log` is what
`wear_leveling_init()` does with it: from the first slot and the consolidated copy.
Encoder and decoder are written for bytes of `BYTE` values so that addresses of more
than one byte occur in a small model.

`EepromStore` is what the users of wear leveling rely on: `mem`, what reads return,
and `stored`, what a restart would find, equal between calls; each byte of a write
that is cut short is old or new; only a consolidation or an erase may lose bytes, and
then to zero.

*Assumptions of the model.*  A word is written entirely or not at all; an erase goes
through the erase units in ascending order; FNV-1a has no collisions (the checksum
carries what it is the checksum of); the store programs a word only when it is erased,
as the mock of the tests asserts; reads do not fail.  What a read past the end of the
store returns is one of two values.

### 2.5 `DeferredExec` and `TimerQueue`

`table` is the array of `deferred_executor_t`, `current_token` and
`last_execution_time` are the statics of the file and of the table.  `pc` and `entry`
say where the pass of `deferred_exec_advanced_task()` is: between two passes
(`"idle"`), looking at slot `entry` (`"task"`), or inside the callback it has invoked
from there (`"callback"`).  `defer_exec`, `extend_deferred_exec` and
`cancel_deferred_exec` are enabled both in the main loop and inside a callback, so a
callback may do any number of them, to its own entry as well.  `TIMER_DIFF` is the
signed difference on a timer with `TIMES` values, and `allocate_token` the search from
the last token given out, round to it.  `OtherTableDefers` stands for a second table,
which shares `current_token` and nothing else.

`TimerQueue` says what the users rely on: an entry is due in some number of
milliseconds, runs when that is no more than 0, and is requeued relative to the time
it was due, not the time it ran; only calls that name an entry touch it.
`ImplementsQueue` maps every token in the table to its remaining time.

*Assumptions.*  The main loop comes round at least every `MaxGap` ms, less than half
the range of the timer, and no delay is shorter, so that a callback that repeats is
not left behind for good.  Delays are below a quarter of the range: a callback may
extend its own entry and then return another delay, and the code treats what is 2^31
ms or more away as already due.  With `Replace` FALSE a callback that has cancelled its
own token does not defer anything before it returns; see 3.4.

### 2.6 `SplitTransport`

The slave: `keys`, the matrix it debounced; `smatrix`, `received`, `pinged`, its side
of the shared memory; `mirrored`, what its handlers made of that; `fed` and `uptime`,
the watchdog.  The master: `mmatrix` and `last_matrix`, the copy it reads into and the
last one that was checked; `sent`, its copy of what it wrote; `done`, its side of the
watchdog; the three ages, which are the `last_update` time stamps of the handlers and
of `transport_master_if_connected()`; and `rows`, `matrix + thatHand`, from which key
events are made.

An action of the master is *one transaction*, so that the slave may scan, restart, or
both, between the checksum and the data it belongs to, and between any two tries.
Each may fail on a bad cable: `ReadChecksum` then returns a wrong checksum or an
error, `ReadMatrix` leaves behind the old bytes, the new ones or garbage, and
`WriteSource` and `Ping` may have been carried out although no answer came.  `Retry`
is the loop of `transaction_handler_master()`, `EndScan` the error counter, the
throttle and `matrix_post_scan()`.

The matrices of the slave are numbered in the order in which they come, so that "in
order" and "never replayed" can be said with `<`.

*Abstractions.*  One mirrored datum stands for the handlers that are built on
`send_if_data_mismatch()` (layers, modifiers, LEDs and so on).  The slave's handlers
run in one step with its scan.  Ages stop at the limit they are compared with.  A
garbled matrix never has the checksum that was read, and writes are not garbled in a
way the transport takes for success.  Sync timer, RPC, encoders, haptics, pointing and
the drivers are left out.

### 2.7 `Combo`

`st` holds the statics of `process_combo.c`: for each combo the keys that are down
(`state`), `active` and `disabled`; `key_buffer`; `combo_buffer`, which is what the
ring holds between its read and its write index; `longest_term` and `b_combo_enable`.
`timer` is the time since the static `timer` was set, `NoTimer` when it is 0.  Actions
are the press and the release of a key, `combo_task` and `Tick`.  A press is either
held back (`HoldBack`), when some combo takes it, or settles what is held back and is
handed on (`HandOn`).  `Record`s in the buffer become ticks or combos, as in
`apply_combo()`.

`out` is what a step passes to `action_tapping_process()`, and `reported`, which `st`
carries along, the keys and combos whose press, and not yet the release, was passed
on.  The loops over the ring and over all combos are recursive functions, one step for
each pass.  The properties are about `out` and `reported`: that is the interface to `ActionTapping`, whose model starts where this one
ends.

*Abstractions.*  Every key has one keycode; `COMBO_NO_TIMER`, `COMBO_SHOULD_TRIGGER`
and reference layers are compiled out.

### 2.8 `TapDance` and `DanceLife`

`st.td` holds the `tap_dance_state_t` of every dance, `st.active` is `active_td`; the
rest of `st` is the part of `action_util.c` and `action_layer.c` that dances reach:
real, weak and one-shot modifiers, the codes in the report, `layer_state`.  `elapsed`
is the time since `last_tap_time`.  `Press` goes through the order in which
`process_record()` does things: weak modifiers are cleared, `preprocess_tap_dance` may
finish the dance that is waited for, the key is looked up again, `process_tap_dance`
counts the tap, and `process_action` looks it up once more.  `Release` uses the source
layer cache.

A dance is one of the three ready-made kinds or a `"user"` dance, whose functions may
call `reset_tap_dance()`.  `out` and `calls` are what the last step sent and which
functions it called.  `DanceLife` is the order of those calls that
`src/docs/feature_tap_dance.md` promises; `ImplementsLife` maps each dance to one.

*Abstractions.*  The tap/hold machine in front is left out: every key is one that it
passes on at once.  A one-shot key is one that has been decided as a tap, and its
timeout is left out.

## 3. The runs

Twelve runs: nine that TLC finishes without an error and three that end in a
counterexample which shows a disagreement between the code and what the repository
says of it.  The type invariants of `ActionTapping`, `Debounce`, `DeferredExec` and
`SplitTransport`, and `ReleasedMeansTapped`, are proved for all values of the
constants (section 6) and not listed for these runs again; they hold in them.

### 3.1 Tap/hold

**`tapping_modes`** (`TapModes.cfg`).  `PERMISSIVE_HOLD` for one tap key and the
default mode for the other, on two layers: a layer-tap that its own layer covers by a
plain key, a mod-tap that is a layer-tap on the other layer, and a key that is a
modifier there.  This is where the source layer cache and the release of keys that
were down before the tapping key matter.
- `NothingStuck`: with every key up and nothing left waiting, no keycode, modifier or
  momentary layer is on.
- `HoldOnlyAfterTerm`: a key in the default mode is settled as held only when its term
  has passed (`src/docs/tap_hold.md:121`).
- `EveryKeyInOrder`: the refinement of `KeyStream`.  Three keys do not fill the ring
  here, so this says that no event is lost at all.
- `NothingWaitsAfterTap`: a state the code calls impossible ("should none in buffer")
  is.  (The other one, "invalid state", is `ReleasedMeansTapped`; it is proved.)

**`tapping_liveness`** (`TapLiveness.cfg`).  `HOLD_ON_OTHER_KEY_PRESS`, a tap-toggle
key, a ring that holds one event so that it overflows, and scans with no tick between
them.  `EveryKeyInOrder`, with overflows, which lose events only when three are in
line (the key that is decided, the one in the ring and the one that arrives), and:
- `ReportNeverStuck`: the part of `NothingStuck` that is about the report, here also
  after an overflow.
- `NoPressWaits`: in this mode no press is kept waiting (`src/docs/tap_hold.md:125`).
- `PressesInOrder`: no press is processed while another event waits before it.
- `EventuallyDecided`, `EventuallyReset`: every tapping key is decided, and once all
  keys are up for good the machine empties its buffer and resets.

**`stuck_modes`** (counterexample of `ReportNeverStuck`).  One key with
`PERMISSIVE_HOLD` and one with `HOLD_ON_OTHER_KEY_PRESS`.  Settling a hold inside the
drain loop leaves events in the buffer while `tapping_key` is reset; the next event
finds an idle machine, is processed ahead of them, and a release overtakes its own
press.  In the trace, with one change in a scan, that release comes in the scan after
the one that settled the hold.  The key, here a modifier, stays in the report with
every key up.  `src/docs/tap_hold.md:127` says that key events are delayed "until the
tap-or-hold decision completes"; here all decisions are complete, and the press waits
on, until after its own release.

### 3.2 Debouncing

**`debounce`** (`Debounce.cfg`).  All seven algorithms, three keys in two rows,
`DEBOUNCE` = 2.
- `DeferNeedsQuiet`: a deferred change is reported only after `DEBOUNCE` ms without a
  change of its key, row or matrix (`src/docs/feature_debounce_type.md:75`).
- `EagerLocksOut`: after a reported change, nothing is reported for `DEBOUNCE` ms
  (`:69`).
- `EagerAtOnce`: right after a scan an eager algorithm lags behind only where it is
  locked; `asym_eager_defer_pk` never lags behind with a press.
- `CatchesUp`: after a quiet time of `DEBOUNCE` ms (for `asym_eager_defer_pk`, twice
  that and a scan) a scan leaves each key as its switch is.  This is a
  bounded-response form of "no change is lost", so it needs no fairness.

### 3.3 Wear leveling

**`wear_2byte`** (`Wear2.cfg`).  2-byte words and all three entry formats: the
optimized one for low addresses, the 0/1 word format and the multi-byte format, whose
entries are two words.  `IdleMeansStored`: between two calls a restart finds what
reads return, which is here the statement that playback inverts the encoding, entry by
entry and over consolidations.  `AllOrNothing`: a restart in the middle of a
consolidation finds all of it or nothing.  `WritesOnlyErased`: the log is written only
at erased words, also after a restart from a torn entry.

**`wear_faults`** (`WearFaults.cfg`).  Power is lost before any call, and init,
unlock, erase and write calls fail at will (reads do not).
- `LockedBetweenCalls`: each of the error paths has locked the store again.
- `LogParses`: whatever failed, the log never holds an entry that playback takes for
  corrupt.
- `ImplementsStore`: with all of that the module implements `EepromStore`: a call that
  succeeds after others failed has stored what it says, and a failed or torn one
  leaves each byte old or new.

**`wear_retry`** (counterexample of `SuccessMeansPersistent`).  A write updates the
cache first.  When the append then fails, the same write tried again compares equal to
the cache and returns SUCCESS without writing.

### 3.4 Deferred execution

**`deferred_exec`** (`Deferred.cfg`).  Three slots, two tokens besides the invalid one
so that tokens run out while a slot is free, tokens and timer that wrap, passes that
come late, and callbacks that defer, extend and cancel while the pass goes over the
table.
- `ImplementsQueue`: the refinement of `TimerQueue`.
- `TokensUnique`: a token names one entry, so extending or cancelling by token touches
  the right one.
- `DueRuns`: an entry that is due is run in the end, unless somebody cancels or
  extends it.

### 3.5 Split transport

**`split`** (`Split.cfg`).  Three matrices, two of which have the same checksum, a
cable that loses and garbles, two tries, two errors until the half counts as lost, and
restarts of either half at any time.
- `OnlyForward`: the master's rows are matrices the slave had, in the order it had
  them; only a restart or a lost connection takes them back, to none.
- `DisconnectReleases`: no key of a lost half stays down.
- `MatrixArrives`, `SourceArrives`: once the cable is in order and both halves stay
  up, the slave's matrix reaches the master, also when the checksum did not change,
  and what is mirrored reaches the slave, also when a lost write has made the master
  believe it had.

**`split_watchdog`** (counterexample of `RebootsOnlyUnheard`).  The master stops
pinging once a ping was answered.  A slave that restarts within fewer failed scans
than `SPLIT_MAX_CONNECTION_ERRORS` is never pinged again, and reboots after each
`SPLIT_WATCHDOG_TIMEOUT` though the master reaches it in every scan.

### 3.6 Combos

**`combo`** (`Combo.cfg`).  Four combos over four keys, one inside another and two
that share a key with it, one that must be tapped and one that must be held, and a key
that switches combos on and off.
- `EveryPressOnce`: every press that is kept back is reported once, as itself or as
  part of one combo.
- `PressThenRelease`: nothing is released that is not pressed.
- `NothingSticks`: what is reported as pressed is still held down.
- `ReadyFires`: a complete combo is reported, unless a longer one that overlaps takes
  its place, it had to be held or tapped and was not, or combos are switched off.
- `KeysArrive`: keys are kept back for a limited time.

### 3.7 Tap dance

**`tap_dance`** (`TapDance.cfg`).  One dance of each ready-made kind, a shift, a
one-shot shift and a key that differs on the layer two of the dances move to; up to
three keys down at once and three taps of a dance.
- `NothingSticks`: with every key up and no dance waited for, no code and no modifier
  of a dance is left, and all dances start over.
- `ModsOfTap`: the outcome is sent with the modifiers of the last tap, held or not by
  then.
- `InterruptsLast`: the key that interrupts a dance is sent after it, from the layer
  it leaves behind, and with no modifiers but its own, those of modifier keys that are
  down, a one-shot modifier that no outcome has used up, and the one-shot modifiers
  that a dance has used whose key is still down (3.8).  In particular the weak
  modifiers that the dance brought back do not reach it.
- `ImplementsLife`: each dance's functions are called as in `DanceLife`.
- `DanceDecided`: a dance that has begun is decided.

### 3.8 What else the models show

TLC produced the following with other constants or other properties.  None of it is a
run of its own: either no document of the repository contradicts it, or it needs an
unusual configuration.

*Tap/hold.*
- An overflow of the waiting buffer leaves `layer_state` alone, so a momentary layer
  whose release was lost stays on (the layers are not checked where an overflow
  can happen).
- With all keys in `PERMISSIVE_HOLD`, or with `BackToBack` TRUE and all in the default
  mode, four keys suffice for the violation of `stuck_modes`.  With one key in
  `PERMISSIVE_HOLD` and the others in the default mode, four keys and a tick between
  scans (7.1 million states), nothing sticks, but `PressesInOrder` is violated for the
  same reason: a nested tap is settled while draining.  With all keys in the default
  mode and a tick between scans all properties hold for four keys (6.1 million
  states).
- A single tap key in `PERMISSIVE_HOLD` beside a modifier and a plain key, with
  `BackToBack` TRUE, violates `PressesInOrder` (26 states): a release that stayed in
  the buffer, followed by the next press of the same key, is taken for a nested tap,
  and the tap key is settled while draining.
- Two mod-taps in the default mode with `BackToBack` TRUE violate `HoldOnlyAfterTerm`
  (29 states): a release that `ReleasedTimeout` leaves in the buffer is older than the
  next tapping key, and `TIMER_DIFF()` wraps.
- `send_keyboard_report()` uses the weak modifiers that are left when a key is
  processed, and these are cleared when a press *arrives* (`src/quantum/action.c:84`).
  Two presses that wait behind an undecided tap key are both processed later: with
  `S(KC_B)` and then `KC_C` the host sees `C` with the shift of `B`.

*Debouncing.*  `DEBOUNCE` 0 is documented to disable debouncing
(`src/docs/feature_debounce_type.md:102`).  The other algorithms then compile to
`none.c`; `sym_defer_pr.c` does not test for it, arms a countdown of 0, which means
idle, and never reports a key (`CatchesUp`).

*Wear leveling.*
- On a store of 2-byte words the first word of a multi-byte entry holds only the high
  byte of the address.  After a power loss behind it, playback takes the erased words
  that follow for the rest of the entry and clears bytes at an address that was never
  written.  On a store of 4-byte words the address is in the first word, and the bytes
  of the block that were in the second are cleared.  When every entry is one word, as
  on 8-byte stores, `EepromStore` holds; `wear_faults` has 4-byte words and blocks of
  one byte.
- When the log spans two erase units, a power loss between their erases leaves old
  entries behind, onto which later entries run (with `SectorOf` 1, 2, 2, 3, 3 for
  `Wear2.cfg`, `IdleMeansStored` and `WritesOnlyErased` are violated).
- When an append fails inside an entry of several words, the next write is appended to
  the torn entry, whose missing words it becomes.  If these say an address or a length
  past the end, the next restart refuses the entry and gives up the rest of the log
  (`LogParses` with "write" failures and 2-byte words).
- After a failed erase `write_address` stays past the end.  A torn entry in the last
  slot makes playback read past the end of the store.

*Deferred execution.*  A callback that cancels its own token and then defers again is
given the slot it was called from.  Its return value is then applied to the new entry,
which is moved or freed (`Replace` TRUE: `ImplementsQueue` fails in eight steps).

*Combos.*
- A combo that is overtaken by a longer one and is not the first in the ring is
  disabled but stays in it.  `clear_combos()` then takes the mark away, and a later
  press of one of its keys is turned into a tick and lost (`EveryPressOnce`: combos
  {1,2}, {1,2,3}, {4,5}; 4 and 5 go down first, then 1, 3, 2).
- A combo that must be held and was not may be dropped behind another in the ring, and
  stays in it the same way (`EveryPressOnce`: combos {1,2}, {3,4}, one of them with
  `COMBO_MUST_HOLD_PER_COMBO`, in eight states).
- A key that finds the key buffer full is lost (`EveryPressOnce`: combos {1,2}, {3,4} and
  a buffer of 3, in five states).
- Whether a ready combo is dropped depends on the one that becomes ready just then, and
  the one of the same length that overtook it may be overtaken by a third that does not
  overlap the first: neither is reported (`ReadyFires`: combos {1,4}, {1,3}, {2,3}, in
  five states).
- A combo with `COMBO_MUST_PRESS_IN_ORDER` or one that `process_combo_key_release()`
  ends early is enough for `PressThenRelease` to fail with combos that share no key
  ({1,2}, {3,4}, in four and seven states).
- A ring shorter than the number of combos that become ready meets its own read index
  and is empty: all of them are forgotten, and a key whose release was kept for a
  combo sticks (`NothingSticks`: combos {1,2}, {3,4} and a `BUFFER_LENGTH` of 2; all
  four keys go down and one goes up).
- A combo of one key is applied by the release that completes its tap, which counts as
  the release of a key of the chord: the combo stays pressed (`NothingSticks`, in three
  states).
- A press at the millisecond at which the 16-bit timer reads 0 starts no timer
  (`ZeroTime` TRUE: `KeysArrive` fails in six states).
- With `COMBO_MUST_PRESS_IN_ORDER` a release that ends a tapped combo is handed on
  although the press never was (`PressThenRelease`); so are the releases of the other
  keys when `process_combo_key_release()` ends a combo early.  The other properties
  hold of the combos of the run in both cases, and with `COMBO_STRICT_TIMER`.
- With `COMBO_MUST_PRESS_IN_ORDER` a combo may stick as well, once an entry that was
  overtaken is left in the ring: its keys, pressed in the wrong order, are in the
  buffer when it is applied, but it counts only those that came in order, and no
  release ends it when these are up already (`NothingSticks`: combos {4,5}, <1,2> in
  order, {1,2,7}; the shortest trace has 22 states).  Without the order the same three
  combos satisfy it.

*Tap dance.*
- A layer-move dance whose key means something else on the target layer: the action of
  the second press is looked up on the new layer, and the release goes to that key.
  The dance is never reset, and its next tap does nothing.
- The same dance on two keys counts on while it is finished but held, and resets the
  wrong code, so the first sticks.
- `reset_tap_dance()` from `on_each_tap`: `process_tap_dance()` makes the dance active
  again afterwards, so `on_dance_finished` is called later with a count of 0 and the
  dance is reset twice, where `src/docs/feature_tap_dance.md:45` describes ending a
  dance this way.  From `on_dance_finished` the dance is reset twice; from
  `on_each_release` it clears `active_td` although another dance is active.
- A one-shot modifier that a dance has used reaches the key that interrupts it, if the
  key of the dance is still down.  The dance makes it a real modifier
  (`add_mods()`, `src/quantum/process_keycode/process_tap_dance.c:117`) until the
  reset, and only weak modifiers are cleared before the interrupting key (line 143).
  The comment there speaks of weak modifiers alone, so nothing contradicts it:
  tap a one-shot shift, hold a dance and press a plain key, and both come out shifted.
  `InterruptsLast` without `Lent` is violated in four states.
- A one-shot modifier that is also held down is taken away by the reset
  (`src/quantum/process_keycode/process_tap_dance.c:106`).

## 4. Bounds

| Bound | Value | Why it is enough |
|---|---|---|
| `NumKeys` | 3 | a tapping key, a key before it and one after it; or two tap keys and a plain one; four in the runs of 3.8 |
| `NumLayers` | 2 | a key can be transparent, covered, or something else on the other layer |
| `TAPPING_TERM` | 2, 3 | inside the term, at its end and past it are distinct |
| `TIMER_MOD` | 4, 6 | twice the term: the 16-bit timer wraps in every run, and an age within the term stays unambiguous, as it is in the code |
| `WAITING_BUFFER_SIZE` | 8; 2 | the code's 8, which three keys do not fill when ticks separate the scans; 2 to overflow |
| `MaxDelay` (tapping) | 1 | a longer gap is a sequence of scans that found nothing, and the tick event of each |
| `MaxChanges` | 1 | one key changes in a scan; several keys in one scan are two scans with `BackToBack` TRUE and no time in between |
| `BackToBack` | FALSE, TRUE | FALSE: a tick lies between any two scans with changes (a slow typist, a fast scan loop); TRUE: only the two changes of one key are separated, by debouncing |
| `MaxCount`, `TAPPING_TOGGLE` | 3, 2 | `tap.count` saturates (at 15 in the code); the toggle lies above one tap and below that |
| `DEBOUNCE` | 2 | a countdown can be armed, half gone and expired |
| `MaxDelay` (debounce) | 3 | scans that come within, exactly at and after the debounce time |
| `MaxAge`, `MaxQuiet` | derived | clock values past which no comparison changes |
| `LOGICAL_SIZE`, `WRITE_SIZE` | 4, 2 or 4 | entries of one and of two words |
| `LOG_SLOTS` | 2-4 | an entry of two words fits whole, and is cut by the end of the log |
| `BYTE` | 2, 3 | addresses need their high byte; 0/1 values and others exist |
| `OPTIMIZED_LIMIT`, `WORD_LIMIT` | 0-2 | scaled so that each entry format is used for some addresses and not for others |
| `Value`, `MaxLength` | {0, 1} or {1}, 1-2 | the values the 0/1 format tells apart; `wear_faults` writes 1 over 0, and was run once with both (1.8 million states, no error) |
| `MULTIBYTE_MAX` | 5; 1 | the code's 5; 1 where blocks have one byte anyway, so that each entry is one word and `MCHypotheses` holds |
| `SECTORS` | 2 | the consolidated data and the log are erased by separate steps; the log itself is in one erase unit (3.8) |
| `Faults` | per run | which calls may fail; a call fails any number of times |
| `SLOTS`, `TOKENS` | 3, 3 | a free slot before, at and behind the one that runs; tokens run out before slots do and wrap at once |
| `TIMES` | 18 | just above what the assumption asks for these delays: the timer wraps, and signed differences are needed |
| `Delay`, `MaxGap` | {2, 3}, 2 | entries that come due together, in the wrong order of slots, and one pass late |
| `Data` | 3 matrices | the one shown, the one read and the one the slave has now can all differ |
| `RETRIES`, `MAX_ERRORS`, `UINT8_MAX` | 2 | a retry that works, one that does not; connected after one failed scan and not after two; the counter stops at its limit |
| `SYNC_THROTTLE`, `CHECK_TIMEOUT`, `WATCHDOG` | 1 | before and after the limit |
| `Key`, `Combo` | 5, 4 | combos that contain, share and do not share keys, a key in three of them, a key in none |
| `COMBO_TERM`, `COMBO_HOLD_TERM` | 1-2, 3 | different terms for overlapping combos; a hold term past all of them |
| `KEY_BUFFER_LENGTH`, `BUFFER_LENGTH` | 4, 5 | one slot for each key of a combo; a ring that these combos do not fill (nor one shorter by one, the default), as `NothingEverSticks` requires |
| `MaxTaps`, `MaxDown` | 3 | more taps than any ready-made dance uses; a dance, another dance and a plain key down together |
| `TAPPING_TERM` (dances) | 1 | within and past the term |

No state constraint is used; the models are finite because time and counts are bounded
by the code's own fields, or stop at the limit they are compared with.  `MaxTaps`
makes `DanceDecided` true of dances that are not tapped for ever.  `CHECK_DEADLOCK` is
on in every run: none of the state machines may stop.  No symmetry is declared, since
keys are ordered and keymap entries differ.

## 5. Fairness

- `tapping_liveness`.  *Strong* fairness of idle scans that tick.  `matrix_task()`
  reaches `generate_tick_event()` on every pass on which no key changed, and the timer
  does not stop.  Weak fairness would not do: each scan with a changed key disables
  the tick for that pass.  That passes without a change keep coming is justified by
  the debouncing, which keeps one key's changes apart.  *Weak* fairness of handing on
  the changed keys of a scan, of `process_tapping()` and of the drain loop: the
  firmware does not stop in the middle of a pass.
- `deferred_exec`.  Weak fairness of the timer, of the pass over the table and of the
  return of callbacks.  A callback that does not return stops the keyboard, in the
  code as well.
- `split`.  Weak fairness of time, of the master's next transaction and of the slave's
  main loop.  Nothing is assumed of the cable: `MatrixArrives` and `SourceArrives`
  have its being in order from some time on as their premise, and that both watchdog
  flags stay set, so that neither half restarts.
- `combo`, `tap_dance`.  Weak fairness of the timer and of the task when it is due.

Nothing is assumed about keys: a key may be held for ever, or never pressed.

## 6. Proofs

The eight proof modules hold for every value of the constants that satisfies the named
assumptions (`KeymapAssumption`, `TappingAssumption`, `DebounceAssumption`,
`WearAssumption`, `DeferredAssumption`, `SplitAssumption`, `ComboAssumption`,
`DanceAssumption`), which say what the C types and the configuration guarantee.  Where a property holds only
under more than that, the theorem has a named hypothesis, which is explained below.
`MCTapDance`, `MCCombo` and `MCWearLeveling` state theirs as the assumption
`MCHypotheses`; for tap/hold the text below says which runs satisfy which.

**`ActionTappingProofs`.**  For every keymap, term, mode, buffer size and number of
keys:
- `TypeCorrectness == Spec => []TypeOK`.  Part of it is that the ring never uses its
  last slot and only real key events wait in it.
- `NoInvalidState == Spec => []ReleasedMeansTapped`.
- `NoneInBuffer == Spec => []NothingWaitsAfterTap`.

The inductive invariant `IInv` is the conjunction of the three.  None is inductive
alone, because the branches read the record in hand, the tapping key and the buffer,
and only the types and bounds of all three say what they leave.  A key becomes a
released tapping key only in a branch that returns true, so the drain loop follows,
and that loop ends either with an empty buffer or in a branch that returned false and
left no released tapping key.  The proof goes along the model's structure: a lemma on
each operator of `KeyAction` (it stays in the type), one on each way a branch may end
(`ProcessedInv`, `NotProcessedInv`, `StartTappingInv`), each saying what a branch must
provide, and one step per branch that provides it.

Seven more theorems are about two configurations in which one key at a time is
decided.  `TapKeysHold`: every tap key of the keymap is in hold-on-other-key-press
mode, as in a firmware that is built with `HOLD_ON_OTHER_KEY_PRESS` for all keys; the
run `tapping_liveness` satisfies it.  `OneTapKey`: the keymap has one tap key (on one
layer or on several), in the default mode.  `DecidedAlone` is either.
- `PressesNeverWait == TapKeysHold => (Spec => []NoPressWaits)`.
- `NoPressOvertakes == DecidedAlone => (Spec => PressesInOrder)`.
- `KeysStayInOrder == DecidedAlone => (Spec => EveryKeyInOrder)`: a step simulation of
  `KeyStream`.
- `ReportNeverSticks == DecidedAlone => (Spec => []ReportNeverStuck)`, overflows
  included.
- `LayersNeverStick`: `Spec /\ [][~Overflowed]_vars => []NothingStuck` under
  `DecidedAlone` and `NoToggles`.
- `NothingSticks`: `Spec => []NothingStuck` under `TapKeysHold`, `NoToggles` and
  `RoomForAll`.
- `HoldNeedsTerm`: `Spec /\ [][~Overflowed]_vars => HoldOnlyAfterTerm` under
  `OneTapKey`.

The keymaps of the runs have two tap keys, so none of them satisfies `OneTapKey`:
`tapping_modes` checks the same properties for a key in the default mode beside one in
`PERMISSIVE_HOLD`.  Nor is there `RoomForAll` in
`tapping_liveness`, whose buffer overflows on purpose.  TLC agrees with the theorems on
instances of their own: a layer-tap, a modifier and a plain key, the second layer
holding a mod-tap in the place of the first (288,425 to 438,285 states with a buffer of
8 to 10 slots, 3.3 million with 3 slots, where it overflows), and the same keymap in
hold-on-other-key-press mode with 4 slots (125,205 states).

*Why the hypotheses.*  Otherwise a key can be settled while the buffer is drained, by
a term shorter than its predecessor's or by a nested tap; the loop then stops with
events waiting and no key to decide, and the next event overtakes them (3.8).
`PressesInOrder` is false then; `KeyStream` is still implemented in the runs, but no
theorem says so.  One tap key with `PERMISSIVE_HOLD` is not enough:
`waiting_buffer_typed()` also finds a press that came after the release it is called
for, takes the two for a nested tap and settles the key while draining.  Two tap keys
in the default mode are too many for `HoldOnlyAfterTerm`: both pressed in the same
millisecond, the second tapped and the first released just as its term ends, that last
release stays in the buffer (`ReleasedTimeout` ends the drain); it is looked at again
behind the next tapping key, is older than that key, and `TIMER_DIFF()` makes the
difference a long time, so that the key is held at once.

*Argument.*  In these configurations little can wait, and `ModeInv` says what: the
press of a tap key only as the last event of the buffer with no key to decide; behind
an undecided key only events of other keys, all within its term, and in
hold-on-other-key-press mode no press at all, so that nothing is settled while
draining; nothing after a tap.  `Outcomes` turns the twenty-two branches of
`process_tapping()` into seven kinds of step under this invariant, and three lemmas go
through those: they preserve `ModeInv`, they preserve `StreamInv`, and each is a step
of `KeyStream` or none.  A release that is processed ahead of the buffer is where the
order of one key is at risk: `waiting_buffer_typed()` finds a press of that key, and
`StreamInv` excludes an earlier release without one: the events of a key that wait
alternate (`NextOfKey`), and the last of them tells where the key is in the matrix
unless its next event has just arrived (`NoneEarlier`).  For `HoldNeedsTerm` the seven
kinds are enough by themselves: only `Settled` sends the key that is decided, and in
the default mode it does so because of an event past the term, which is the one that
has just arrived (`EventIsNow`).  An overflow forgets the key that has just been
tapped, which looks like a hold.

That nothing sticks means that every release takes away what its key's press gave.
Two things could go wrong: the release finds another action, or it counts as a hold
where the press counted as a tap.  `ReportInv` says that everything in the report
comes from a key that is *due*, its release still to be processed and its press not
(`Due`: the first of its events that wait), with the action of the source layer cache, and by the tap half of it exactly if the key is down as a tap
(`TapDown`).  `LayerInv` says the same of the layers.  Neither is inductive without
`CountInv`: the only event that waits with a tap count is the release of the tapping
key, and a key that was tapped once waits for a release that is in the buffer, so that
a new tapping key, which takes the place of the old one, finds it released unless it
is held by a repeated tap, whose release is then made up.  `KeepsProcessTapping` goes through the seven kinds
of step; a press adds its key to those that are due (`FromPress`), a release removes
it (`FromRelease`), any other step leaves them (`FromMore`), and an overflow clears
the report (`KeepsOverflow`) but not the layers.  At rest no key is due.
*Hypotheses.*  `NoToggles`: no `TT()` key, which leaves its layer on by design.
`RoomForAll`: more slots than keys, as on a macro pad; `OneRelease` then bounds what
waits (one release of each other key), and no event is lost.  A larger board has
`LayersNeverStick`, up to the first overflow.  `KeymapAssumption` asks for a
`MaxCount` above 1 (it is 15): if a second tap could not be told from the first, its
made-up release would be missed.

**`DebounceProofs`.**  For every matrix, every `DEBOUNCE`, 0 included, and scans as
late as one likes:
- `TypeCorrectness == Spec => []TypeOK`.
- `ChangesHaveSettled == Spec => DeferNeedsQuiet`.
- `LockedForDebounce == Spec => EagerLocksOut`.

Both properties speak of the time since a key changed, and the code keeps no such
time: it has countdowns, which are only brought up to date in a scan, and one time
stamp.  `IInv` says what a countdown `c` *knows*: with `age` the time since it was
last counted down, its key has been quiet (or locked) for at least `DEBOUNCE + age -
c` ms, which is `Covers`.  One conjunct says it for each kind of algorithm, together
with the reason why counting never stops early: a countdown that runs implies
`need_update`.  For `sym_defer_pk` and the release side of `asym_eager_defer_pk` it
adds that a running countdown belongs to a key whose raw and cooked state differ,
since the expiry copies the raw state.  There is one lemma per algorithm that its scan
keeps the conjunct and satisfies both properties.

**`DebounceLagProofs`.**  The other direction, on top of `DebounceProofs`:
- `EagerReportsAtOnce == Spec => []EagerAtOnce`, for every configuration.
- `NoChangeIsLost`: `Spec => []CatchesUp` under `Reports`, which leaves out
  `sym_defer_pr` built with a `DEBOUNCE` of 0 (3.8).

That a change is reported means that something is still counting for it.  `LagInv`
says so for each algorithm: a key whose raw and cooked states differ has a countdown
that started with the last change of its unit or later (`Ends`), a lock that runs
started with a report, and the countdown of `asym_eager_defer_pk` may have had to wait
for the lock of the press before (`Wait`).  `Clock` relates the time since the last
scan to the time since the counters were last counted down.

**`WearLevelingProofs`.**
- `LockedAgain`: if the call that locks does not itself fail, then `Spec =>
  []LockedBetweenCalls`, whatever else of init,
  unlock, erase and write fails and wherever power is lost.
- `TypeCorrectness`, `EntriesParse` (`LogParses`) and `AllOrNothingFound`
  (`AllOrNothing`), under `OneSector` and `WholeEntries`.
- `NothingUnwritten` (`IdleMeansStored`), `OnlyErasedWords` (`WritesOnlyErased`) and
  `SuccessPersists` (`SuccessMeansPersistent`), under `OneSector` and `NoFailures`.
- `StoresAsPromised == Spec => ImplementsStore`, under `OneSector` and
  `OneWordEntries`.

They hold for every size of the log, words of 2, 4 or 8 bytes, every size of the
emulated EEPROM that two bytes can address (the code's entries have three more address
bits, which are not modelled), every limit of the entry formats, and blocks of any
length.  *Hypotheses.*  `OneSector`: the log
lies in one erase unit, as in the mock of the tests, which erases everything in one
call; without it the properties are false (3.8).  `WholeEntries`: the calls that
program a word do not fail, or every entry is one word; otherwise a failed append
leaves a torn entry that the next write continues (3.8).  `OneWordEntries`: an entry
of the longest kind fits into a word, as it does with 8-byte words; otherwise a power
loss inside an entry changes bytes outside the block (3.8), which `EepromStore`
forbids.  `NoFailures`: no call but the one that locks fails; `wear_retry` and the
error paths that leave the cache ahead of the store show what is lost otherwise.

*Argument.*  `LockedBetweenCalls` is not inductive, since whether a return locks
depends on a flag set when the call started; `LockInv` adds `locks = unlocked`.  The
other theorems rest on what the decoder makes of the encoder's words, in four stages.
(1) `Playback` of two logs that agree up to a slot, over a chain of entries, is the
same (`SamePrefix`), so an append does not change how earlier entries are read.
(2) Any part of an entry at the end of a log is read as one entry inside the emulated
EEPROM, whatever a read past the end of the store returns, and a whole entry as its
address and values (`EntryOK`, for each of the three formats): a torn multibyte entry
has its length in its first word, and the words of its address that are missing read
as zeros.  (3) The words of a block, which are several entries of mixed formats,
replay as the overwriting of the cache by the block (`WriteReplays`).  (4) `IInv` is
then about the machine: a `Path` of entries leads from the first slot to the end of
the log, the rest is erased, the write address is that end unless a failure has left
it elsewhere, and no checksum is complete before the data it belongs to.  `StoredInv`
adds what holds when nothing fails: the log has room, a restart finds the cache, and
will find it when the words still to be appended are there.  `StepInv` adds what each
word of a running write does to a restart, when every word is an entry.  (1) and (3)
are inductions over slots and over bytes.  They are done without the library's
theorems on induction, by the least element of a set of natural numbers
(`WellFoundedInduction`), whose parameter is a set.

**`DeferredExecProofs`.**  For every size of the table, number of tokens, timer range
and set of delays:
- `TypeCorrectness == Spec => []TypeOK`.
- `OneEntryPerToken == Spec => []TokensUnique`, with callbacks that cancel themselves
  and defer (`Replace` TRUE) included.
- `QueuesAsPromised`: `Spec => ImplementsQueue` when `Replace` is FALSE, a step
  simulation of `TimerQueue`.

The invariant of the first two adds that a running callback's slot is one of the table's: while the
pass goes on, `entry` may point past the end, and the return of a callback writes to
it.  `defer_exec` keeps tokens unique because the search returns only a token that no
slot has, even after it has gone round.

The refinement needs to know that the signed differences of wrapping times are the
numbers they stand for, wherever the code compares one.  The timer lemmas (`DiffAdd`,
`DiffTake`, `DiffVia`) say when they are, and `Timely` that they are: the last pass is
at most `MaxGap` old, an entry is due in at most two delays, an entry that the pass
under way has left behind lies after it, and any other is at most `MaxGap` late by it.
The pass compares with the time at which it began, which may be earlier than the time
of a comparison, so that "due for the pass" implies "due".  `Holds` says that while a
callback runs, its slot is used unless the callback has cancelled itself; this is what
a `defer_exec` after the cancellation breaks, hence the hypothesis on `Replace`
(section 3.8 shows what happens without it).

**`SplitTransportProofs`.**  For every sequence of matrices, every checksum that tells
a garbled matrix from a good one, and every number of retries and errors:
- `TypeCorrectness == Spec => []TypeOK`: among others, `last_matrix` is never garbage.
- `LostHalfReleased == Spec => []DisconnectReleases`.
- `RowsInOrder == Spec => OnlyForward`.

`DisconnectReleases` compares the counter with the rows, but the code clears the rows
from `last_connected`; `Control` relates the three.  For `OnlyForward`, `Ordered` says
that the matrix moves along a chain, from `keys` over `smatrix`, the master's buffer
and `last_matrix` to `rows`, and that no link is newer than the one before it, or it
is 0 after a restart.  The buffer may also hold garbage, which must not get into
`last_matrix`: that is where the assumption on the checksum is used.

**`TapDanceProofs`.**  For every keymap with any number of dances, layers and keys:
- `TypeCorrectness == Spec => []TypeOK`.
- `NothingStaysDown == Spec => []NothingSticks`.
- `LivesAsPromised == Spec => ImplementsLife`: a step simulation of `DanceLife`.
- `InterruptingKeyIsLast == Spec => InterruptsLast`: `Owned` tells which real
  modifiers there are after the dance, those of keys and of finished dances.
- `OutcomeHasModsOfTap == Spec => ModsOfTap`.

*Hypotheses.*  `NoResets`: the functions of a user's dance do not call
`reset_tap_dance()`.  `OneKeyPerDance`: a dance is on one key, and that key is
transparent or the same dance on all other layers.  Without either a dance is reset
twice or never (3.8).  `OwnOutcomes`, for the last theorem only: the code of a single
tap is sent by no other key, so that it can be recognized in the reports.
*Argument.*  `Lives` says for each dance which functions have been called, given
whether it is counted, pressed, finished or the active one; `Owned` says that each
code and each modifier that is on belongs to a key that is down or to a dance that has
finished and not been reset.  Neither is inductive without the other: a reset
takes back what `Owned` says the dance holds, and `Lives` says that there will be one.

**`ComboProofs`.**  For any combos, which may share keys and contain each other, all
terms and options:
- `TypeCorrect == Spec => []TypeOK`, with nothing but `ComboAssumption`.
- `NothingEverSticks`: `Spec => []NothingSticks` under `TwoKeys`, `RingHolds` and
  `AnyOrder`.
- `NoPressLost`: `Spec => EveryPressOnce` under these three and `BufferHolds`,
  `OvertakesAll` and `HoldMeetsAll`.
- `NothingReleasedTwice`: `Spec => PressThenRelease` under these six, if no combo is
  released early (`RELEASE_EARLY = {}`).
- `NoComboForgotten`: `Spec => ReadyFires` under the six and `MeetsOvertaken`.

*Hypotheses.*  A combo has two different keys (`TwoKeys`); the ring is longer than there
are combos, so that it is never full (`RingHolds`); no combo has to be pressed in order
(`AnyOrder`).  Without any one of them TLC finds a combo or a key that sticks (3.8).
The key buffer has room for the keys of all combos (`BufferHolds`).  A combo that
overtakes another overtakes whatever else may be ready beside that one (`OvertakesAll`),
and one that must be held, so that it may be dropped, has no combo beside it that shares
no key with it (`HoldMeetsAll`): so an entry is only ever dropped with all of the ring,
and none stays behind.  A combo that overtakes another overlaps what that one may have
overtaken (`MeetsOvertaken`).  Combos that share no key satisfy `OvertakesAll` and
`MeetsOvertaken`, and so do combos each of which contains the one before; the run
`combo` satisfies all of them.  Without `BufferHolds`, `OvertakesAll`, `HoldMeetsAll` or
`MeetsOvertaken`, and with an early release, TLC finds a counterexample that satisfies
the other hypotheses (3.8).

*Argument for `NothingSticks`.*  What is
reported leaves `reported` only by a release, and whether a release is passed on
depends on what the combos count, what they take, and what waits in the two buffers.
`Rest` relates these between two steps: combos count keys that are down, and those
keys are not reported (`Counted`); a combo that may still come has counted all its
keys that wait in the buffer (`KeptCounted`); one that is complete is in the ring
(`Fulls`), once (`Distinct`), and will be applied; one that is active counts a key
that it has taken out of the buffer, and only these are reported (`Actives`).  Inside a
step, in the middle of the release of a key `kk`, some of this fails for `kk` alone;
`Core` allows that, and `Taken` says what is owed for it: a combo has taken `kk`, or
one of the ring will, so that a release that is not passed on is of a key that was
never reported.  `ReleaseKeeps` takes `Core` through the release of one combo,
`AppliesAll` through the ring, stale entries included, `DumpSettles` through the
emptying of the buffer, after which `Rest` holds again.  A press only ever counts the
new key (`Pressed`).  The loops are functions, and their values exist by `Recursion`,
which like (1) and (3) above is an induction by least elements.

*Argument for the other three.*  `Neat` says what holds between two steps beside
`Rest`: the combos of the ring are complete, not disabled and share no key; an active
combo is reported; an inactive one counts only keys that are kept back; and each key
that is down is kept back, reported, or counted by an active combo (`Owed`).  `Rest` and `Neat`
with the types are inductive (`CInv`).  Settling goes through the ring: `Working` says
which of the keys that are kept back are taken by combos already applied and which will
be by those to come, each by one, so that the buffer, when it is emptied, hands on each
key alone or with one combo (`Flushed`).  `Mid` keeps `Working` and `Owed` while a
release goes through all combos.  `Picks` says which
entries of a step's output are events of keys (`Events`), and in what order, from which
follows that a release comes after its press.  For `ReadyFires`, `Gone` follows a ring through the
press: what is not in it any more is overlapped by one that is and is no shorter, and
`MeetsOvertaken` is what makes that transitive.

*Only model-checked:* liveness (`EventuallyDecided`, `EventuallyReset`, `DueRuns`,
`MatrixArrives`, `SourceArrives`, `KeysArrive`, `DanceDecided`), which is out of the
prover's reach; `NoPressWaits`, `PressesInOrder`, `EveryKeyInOrder` and `HoldOnlyAfterTerm`
where several tap keys are not all in hold-on-other-key-press mode, or one has
`PERMISSIVE_HOLD`, and so `ReportNeverStuck` and `NothingStuck`, which are violated
for some such keymaps (3.8);
`EveryPressOnce`, `PressThenRelease` and `ReadyFires` of `Combo` where a hypothesis does
not hold; `RebootsOnlyUnheard`, which is violated.

## 7. Plan

In the order in which it was drawn up; what is done is marked.

1. `KeyAction`, `ActionTapping`, `KeyStream`: the path of every key event. *Done.*
2. `WearLeveling`, `EepromStore`: persistence. *Done*, with failing calls in the
   refinement.
3. `Debounce`: everything starts here. *Done.*
4. `DeferredExec`, `TimerQueue`: callbacks while the table is walked. *Done.*
5. `SplitTransport`: two halves, lost and repeated transactions, restarts. *Done* but
   for the parts in section 8.
6. `Combo`: keys held back, released once and in order. *Done.*
7. `TapDance`, `DanceLife`: one start, one finish, one reset. *Done.*
8. `OneShot`: one-shot modifiers and layers with their timeout, on `KeyAction`'s
   state.
9. `Combo` in front of `ActionTapping`: what a combo hands on in a burst, through the
   tap/hold machine.

Theorems: the safety properties of `Debounce`, `SplitTransport`, `WearLeveling`,
`TapDance` and `Combo` are *done*, with all refinements, that of `KeyStream` for two
configurations.  Left: the properties of `ActionTapping` for other configurations in which
they hold, of which 3.8 shows that several do not.

## 8. Not modelled, and why

- *One-shot timeouts and layers* (`src/quantum/action_util.c`): one-shot modifiers are
  in `TapDance`, without their timeout.  The code compares a 16-bit time only when a
  key event or a report looks at it, so a one-shot that has expired is alive again
  after 65.5 s.
- *Secure*: three states, two timeouts and an unlock sequence, in one thread and with
  no buffer.
- *Other key processors*: sequential filters; each could be modelled alone, but they
  share little state with the rest.
- *Keycode dispatch, keymap and VIA*: tables and host I/O; the keymap is a constant.
- *EEPROM configuration*: reads and writes at fixed addresses of the memory that
  `EepromStore` specifies.
- *Encoders, pointing, mouse keys, joysticks*: arithmetic on positions and speeds.
- *Lighting, displays, sound, haptics*: output that no key event depends on.
- *Host protocols and platforms*: report layouts, USB, pin access.
- *Inside modelled components*: the return value of `debounce()`, which nothing uses;
  reads of the backing store that fail, and address bits 16 to 18 of a log entry;
  `QK_COMBO_ON` and `QK_COMBO_OFF` apart from the toggle, and `dump_key_buffer()`
  entered again from the events it feeds back; the report's six-key limit; swap hands, mouse
  and media keys; of the split transport, the sync timer, RPC, encoders, haptics and
  the serial and I2C drivers; features that are compiled out by default.

Measured against all files of the repository the models cover very little: nearly all
of its lines are keyboard definitions, keymaps, vendored libraries and drivers, which
are data or hardware access.  What is modelled is the part of `src/quantum/` in which
key events, timeouts and failures meet.

## 9. Running

    tlc -workers 2 -config TapModes.cfg MCActionTapping
    tlc -workers 2 -config Deferred.cfg DeferredExec
    tlapm DebounceProofs.tla

`PROJECT.json` lists the runs with their modules and configurations, the lines each
definition models, the hazards with the properties that guard them and the theorems.
The longest runs and the longest proof modules (`WearLevelingProofs`,
`TapDanceProofs`) take a few minutes with two workers.
