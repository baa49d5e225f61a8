------------------------- MODULE DeferredExecProofs -------------------------
(* For every size of the table, number of tokens, range of the timer and set  *)
(* of delays: a token names one entry at most, also when the tokens have gone *)
(* round, when another table shares them, and whatever a callback does to the *)
(* table while a pass walks over it; and the table is the queue of timers     *)
(* that TimerQueue promises, while no callback that has cancelled itself      *)
(* defers another.                                                            *)
EXTENDS DeferredExec, TLAPS

Entry == [token : Byte, trigger_time : Time]

(* The slot a callback was invoked from is one of the table's.                *)
IInv ==
    /\ TypeOK /\ TokensUnique
    /\ pc = "callback" => entry \in Slot

(* What the assumption says of the single constants.                          *)
LEMMA Constants ==
    /\ SLOTS \in Nat /\ SLOTS >= 1 /\ TOKENS \in Nat /\ TOKENS >= 2
    /\ TIMES \in Nat /\ TIMES >= 2 /\ \A d \in Delay : d \in Nat
BY DeferredAssumption

(* The timer's values and the tokens wrap into their range.                   *)
LEMMA Wraps == ASSUME NEW n \in Nat, n >= 1, NEW a \in Int PROVE a % n \in 0..(n - 1)
BY SMT

LEMMA AfterType == ASSUME now \in Time, NEW d \in Nat PROVE After(d) \in Time
<1>1. now + d \in Int
    BY Constants DEF Time
<1>. QED BY <1>1, Constants, Wraps DEF After, Time

LEMMA FreeType == Free \in Entry /\ Free.token = INVALID_DEFERRED_TOKEN
<1>1. 0 \in Byte /\ 0 \in Time
    BY Constants DEF Byte, Time
<1>. QED BY <1>1 DEF Free, Entry, INVALID_DEFERRED_TOKEN

LEMMA InitIInv == Init => IInv
<1>. SUFFICES ASSUME Init PROVE IInv
    OBVIOUS
<1>1. table \in [Slot -> Entry] /\ \A s \in Slot : table[s].token = INVALID_DEFERRED_TOKEN
    BY FreeType DEF Init
<1>2. current_token \in Byte /\ now \in Time /\ last_execution_time \in Time
    BY Constants DEF Init, Byte, Time
<1>3. pc = "idle" /\ entry = 1 /\ own = FALSE
    BY DEF Init
<1>4. 1 \in 1..(SLOTS + 1)
    BY Constants
<1>. QED BY <1>1, <1>2, <1>3, <1>4 DEF IInv, TypeOK, TokensUnique, Used, Entry

-----------------------------------------------------------------------------
(* A token that is not in use yet stays unique when it is given to one slot.  *)
LEMMA NewEntry ==
    ASSUME TypeOK, TokensUnique, NEW s \in Slot, NEW e \in Entry,
           e.token = INVALID_DEFERRED_TOKEN \/ e.token = table[s].token \/ token_can_be_used(e.token),
           table' = [table EXCEPT ![s] = e]
    PROVE  table' \in [Slot -> Entry] /\ TokensUnique'
<1>1. table' \in [Slot -> Entry]
    BY DEF TypeOK, Entry
<1>2. ASSUME NEW r \in Slot, NEW q \in Slot, r \in Used', q \in Used',
             table'[r].token = table'[q].token
      PROVE  r = q
  <2>1. \A x \in Slot : table'[x] = IF x = s THEN e ELSE table[x]
      BY DEF TypeOK
  <2>. QED BY <1>2, <2>1 DEF TokensUnique, Used, token_can_be_used
<1>. QED BY <1>1, <1>2 DEF TokensUnique, Used

LEMMA AllocateToken ==
    ASSUME TypeOK, NEW token \in Byte, allocate_token(token)
    PROVE  /\ current_token' \in Byte
           /\ token = INVALID_DEFERRED_TOKEN \/ token_can_be_used(token)
<1>1. \A n \in 1..TOKENS : Candidate(n) \in Byte
  <2>. SUFFICES ASSUME NEW n \in 1..TOKENS PROVE Candidate(n) \in Byte
      OBVIOUS
  <2>1. current_token + n \in Int
      BY Constants DEF TypeOK, Byte
  <2>. QED BY <2>1, Constants, Wraps DEF Candidate, Byte
<1>2. 1 \in 1..TOKENS
    BY Constants
<1>. QED BY <1>1, <1>2 DEF allocate_token

-----------------------------------------------------------------------------
LEMMA StepInv == IInv /\ [Next]_vars => IInv'
<1>. SUFFICES ASSUME IInv, [Next]_vars PROVE IInv'
    OBVIOUS
<1>. USE DEF IInv
<1>1. table \in [Slot -> Entry] /\ now \in Time /\ last_execution_time \in Time
    BY DEF TypeOK, Entry
<1>2. ASSUME NEW d \in Delay, defer_exec(d) PROVE IInv'
  <2>1. PICK s \in Slot, token \in Byte :
           /\ FirstFree(s) /\ allocate_token(token)
           /\ table' = IF token = INVALID_DEFERRED_TOKEN THEN table
                       ELSE [table EXCEPT ![s] = [token |-> token, trigger_time |-> After(d)]]
      BY <1>2 DEF defer_exec
  <2>2. current_token' \in Byte /\ (token = INVALID_DEFERRED_TOKEN \/ token_can_be_used(token))
      BY <2>1, AllocateToken
  <2>3. UNCHANGED <<now, last_execution_time, pc, entry, own>>
      BY <1>2 DEF defer_exec
  <2>4. table' \in [Slot -> Entry] /\ TokensUnique'
    <3>1. CASE token = INVALID_DEFERRED_TOKEN
        BY <1>1, <2>1, <3>1 DEF TokensUnique, Used
    <3>2. CASE token # INVALID_DEFERRED_TOKEN
      <4>. DEFINE e == [token |-> token, trigger_time |-> After(d)]
      <4>1. e \in Entry /\ e.token = token
          BY <1>1, AfterType, Constants DEF Entry
      <4>2. token_can_be_used(e.token) /\ table' = [table EXCEPT ![s] = e]
          BY <2>1, <2>2, <3>2
      <4>. HIDE DEF e
      <4>. QED BY <4>1, <4>2, NewEntry
    <3>. QED BY <3>1, <3>2
  <2>. QED BY <2>2, <2>3, <2>4 DEF TypeOK, Entry
<1>3. ASSUME NEW s \in Slot, NEW d \in Delay, extend_deferred_exec(s, d) PROVE IInv'
  <2>. DEFINE e == [table[s] EXCEPT !.trigger_time = After(d)]
  <2>1. e \in Entry /\ e.token = table[s].token
      BY <1>1, AfterType, Constants DEF Entry
  <2>2. table' = [table EXCEPT ![s] = e]
      BY <1>3 DEF extend_deferred_exec
  <2>3. table' \in [Slot -> Entry] /\ TokensUnique'
    <3>. HIDE DEF e
    <3>. QED BY <2>1, <2>2, NewEntry
  <2>. QED BY <1>3, <2>3 DEF extend_deferred_exec, TypeOK, Entry
<1>4. ASSUME NEW s \in Slot, table' = [table EXCEPT ![s] = Free]
      PROVE  table' \in [Slot -> Entry] /\ TokensUnique'
    BY <1>4, FreeType, NewEntry
<1>5. ASSUME NEW s \in Slot, cancel_deferred_exec(s) PROVE IInv'
  <2>1. table' = [table EXCEPT ![s] = Free] /\ own' \in BOOLEAN
      BY <1>5 DEF cancel_deferred_exec, TypeOK
  <2>. QED BY <1>4, <1>5, <2>1 DEF cancel_deferred_exec, TypeOK, Entry
<1>6. CASE OtherTableDefers
    BY <1>6 DEF OtherTableDefers, TypeOK, TokensUnique, Used
<1>7. CASE BeginPass
    BY <1>7, Constants DEF BeginPass, TypeOK, TokensUnique, Used
<1>8. CASE Invoke
    BY <1>8, Constants DEF Invoke, TypeOK, TokensUnique, Used, Slot
<1>9. CASE EndPass
    BY <1>9, Constants DEF EndPass, TypeOK, TokensUnique, Used
<1>10. ASSUME NEW d \in Delay \cup {0}, CallbackReturns(d) PROVE IInv'
  <2>1. entry \in Slot /\ d \in Nat
      BY <1>10, Constants DEF CallbackReturns
  <2>2. table' \in [Slot -> Entry] /\ TokensUnique'
    <3>1. CASE d > 0
      <4>. DEFINE e == [table[entry] EXCEPT !.trigger_time = (@ + d) % TIMES]
      <4>1. table[entry].trigger_time + d \in Int
          BY <1>1, <2>1, Constants DEF Entry, Time
      <4>2. (table[entry].trigger_time + d) % TIMES \in Time
          BY <4>1, Constants, Wraps DEF Time
      <4>3. e \in Entry /\ e.token = table[entry].token
          BY <1>1, <2>1, <4>2 DEF Entry
      <4>4. table' = [table EXCEPT ![entry] = e]
          BY <1>10, <3>1 DEF CallbackReturns, Requeued
      <4>. HIDE DEF e
      <4>. QED BY <2>1, <4>3, <4>4, NewEntry
    <3>2. CASE ~(d > 0)
        BY <1>4, <1>10, <2>1, <3>2 DEF CallbackReturns
    <3>. QED BY <3>1, <3>2
  <2>3. pc' = "task" /\ entry' = entry + 1 /\ own' = FALSE
      BY <1>10 DEF CallbackReturns
  <2>4. entry + 1 \in 1..(SLOTS + 1)
      BY <2>1, Constants DEF Slot
  <2>. QED BY <1>10, <2>2, <2>3, <2>4 DEF CallbackReturns, TypeOK, Entry
<1>11. CASE Tick
  <2>1. now' \in Time
      BY <1>1, <1>11, AfterType DEF Tick
  <2>. QED BY <1>11, <2>1 DEF Tick, TypeOK, TokensUnique, Used
<1>12. CASE UNCHANGED vars
    BY <1>12 DEF vars, TypeOK, TokensUnique, Used
<1>. QED BY <1>2, <1>3, <1>5, <1>6, <1>7, <1>8, <1>9, <1>10, <1>11, <1>12 DEF Next, Returns

LEMMA Inductive == Spec => []IInv
<1>. QED BY InitIInv, StepInv, PTL DEF Spec

(* Every variable keeps its type: the pass never leaves the table, whatever   *)
(* its callbacks do (deferred_exec.c:126).                                    *)
THEOREM TypeCorrectness == Spec => []TypeOK
<1>. QED BY Inductive, PTL DEF IInv

(* No two entries of a table ever have the same token (deferred_exec.c:28),   *)
(* so extending or cancelling by token never reaches somebody else's entry    *)
(* while one's own is there.                                                  *)
THEOREM OneEntryPerToken == Spec => []TokensUnique
<1>. QED BY Inductive, PTL DEF IInv
-----------------------------------------------------------------------------
(* How late and how early an entry is.  Differences of the timer wrap, so     *)
(* that the code may compare them is a fact about every entry of the table.   *)

(* Multiples, for the provers: what is left of a division by n.              *)
LEMMA Multiple ==
    ASSUME NEW n \in Nat, n >= 1, NEW q \in Int
    PROVE  (q >= 1 => n * q >= n) /\ (q <= -1 => n * q <= -n) /\ (q = 0 => n * q = 0)
           /\ (q >= 2 => n * q >= 2 * n) /\ (q <= -2 => n * q <= -2 * n)
BY SMT

(* A number less than n outside 0..(n - 1) wraps by n, once.                 *)
LEMMA WrapsOnce ==
    ASSUME NEW n \in Nat, n >= 1, NEW x \in Int, -n <= x, x < 2 * n
    PROVE  x % n = IF x < 0 THEN x + n ELSE IF x < n THEN x ELSE x - n
<1>. DEFINE q == x \div n
            r == x % n
<1>1. q \in Int /\ r \in 0..(n - 1) /\ x = n * q + r
    BY SMT
<1>. DEFINE p == n * q
<1>2. /\ q >= 1 => p >= n
      /\ q <= -1 => p <= -n
      /\ q = 0 => p = 0 
      /\ q = 1 => p = n
      /\ q = -1 => p = -n
      /\ q >= 2 => p >= 2 * n
      /\ q <= -2 => p <= -2 * n
      /\ p \in Int
   BY <1>1, Multiple, SMT
<1>3. x = p + r
   BY <1>1
<1>. HIDE DEF p, q, r
<1>. QED BY <1>1, <1>2, <1>3 DEF r

(* What a signed difference of two times can be.                            *)
Half(x) == -TIMES <= 2 * x /\ 2 * x < TIMES

LEMMA TimesType == TIMES \in Nat /\ TIMES >= 2 /\ Time = 0..(TIMES - 1)
BY Constants DEF Time

LEMMA WrapsTime ==
    ASSUME NEW x \in Int, -TIMES <= x, x < 2 * TIMES
    PROVE  x % TIMES = IF x < 0 THEN x + TIMES ELSE IF x < TIMES THEN x ELSE x - TIMES
<1>1. TIMES \in Nat /\ TIMES >= 1
    BY Constants
<1>. QED BY <1>1, WrapsOnce, Zenon

(* A difference of times is signed, and right up to a turn of the timer.     *)
LEMMA Diff ==
    ASSUME NEW a \in Time, NEW b \in Time
    PROVE  /\ TIMER_DIFF(a, b) \in Int /\ Half(TIMER_DIFF(a, b))
           /\ \E k \in {-1, 0, 1} : TIMER_DIFF(a, b) = a - b + (IF k = 1 THEN TIMES ELSE IF k = 0 THEN 0 ELSE -TIMES)
<1>1. a - b \in Int /\ -TIMES <= a - b /\ a - b < 2 * TIMES /\ a \in Int /\ b \in Int
    BY TimesType
<1>. DEFINE d == (a - b) % TIMES
<1>2. d = IF a - b < 0 THEN a - b + TIMES ELSE a - b
  <2>. DEFINE x == a - b
  <2>1. x \in Int /\ -TIMES <= x /\ x < 2 * TIMES /\ x < TIMES
      BY <1>1, TimesType
  <2>. HIDE DEF x
  <2>2. x % TIMES = IF x < 0 THEN x + TIMES ELSE IF x < TIMES THEN x ELSE x - TIMES
      BY <2>1, WrapsTime, Zenon
  <2>3. x % TIMES = IF x < 0 THEN x + TIMES ELSE x
      BY <2>1, <2>2
  <2>. QED BY <2>3 DEF x
<1>3. TIMER_DIFF(a, b) = IF 2 * d >= TIMES THEN d - TIMES ELSE d
    BY DEF TIMER_DIFF
<1>. HIDE DEF d
<1>. QED BY <1>1, <1>2, <1>3, TimesType DEF Half

(* ... and the only such number in the signed half.                          *)
LEMMA DiffIs ==
    ASSUME NEW a \in Time, NEW b \in Time, NEW x \in Int, Half(x),
           a = b + x \/ a = b + x + TIMES \/ a = b + x - TIMES
    PROVE  TIMER_DIFF(a, b) = x
<1>. DEFINE d == TIMER_DIFF(a, b)
<1>1. d \in Int /\ (d = a - b \/ d = a - b + TIMES \/ d = a - b - TIMES) /\ Half(d)
    BY Diff, TimesType
<1>. HIDE DEF d
<1>2. a \in Int /\ b \in Int /\ TIMES \in Nat
    BY TimesType
<1>3. d = x
    BY <1>1, <1>2 DEF Half
<1>. QED BY <1>3 DEF d

LEMMA AddTime ==
    ASSUME NEW a \in Time, NEW x \in Nat, x < TIMES
    PROVE  (a + x) % TIMES \in Time /\ ((a + x) % TIMES = a + x \/ (a + x) % TIMES = a + x - TIMES)
<1>1. a + x \in Int /\ a \in Int /\ -TIMES <= a + x /\ a + x < 2 * TIMES
    BY TimesType
<1>. DEFINE y == (a + x) % TIMES
<1>2. y = IF a + x < TIMES THEN a + x ELSE a + x - TIMES
  <2>. DEFINE z == a + x
  <2>1. z \in Int /\ -TIMES <= z /\ z < 2 * TIMES /\ 0 <= z
      BY <1>1, TimesType
  <2>5. y = z % TIMES
      OBVIOUS
  <2>. HIDE DEF z, y
  <2>2. z % TIMES = IF z < 0 THEN z + TIMES ELSE IF z < TIMES THEN z ELSE z - TIMES
      BY <2>1, WrapsTime, Zenon
  <2>3. z % TIMES = IF z < TIMES THEN z ELSE z - TIMES
      BY <2>1, <2>2
  <2>4. y = IF z < TIMES THEN z ELSE z - TIMES
      BY <2>5, <2>3, Zenon
  <2>. QED BY <1>1, <2>4, TimesType DEF z
<1>. HIDE DEF y
<1>3. y \in Time /\ (y = a + x \/ y = a + x - TIMES)
    BY <1>1, <1>2, TimesType
<1>. QED BY <1>3 DEF y

(* Time added to the first, taken from the second, and seen through a third: *)
(* as with numbers, as long as the result is in the signed half.              *)
LEMMA DiffAdd ==
    ASSUME NEW a \in Time, NEW b \in Time, NEW x \in Nat, x < TIMES, Half(TIMER_DIFF(a, b) + x)
    PROVE  TIMER_DIFF((a + x) % TIMES, b) = TIMER_DIFF(a, b) + x
<1>. DEFINE y == (a + x) % TIMES
            d == TIMER_DIFF(a, b)
<1>1. y \in Time /\ (y = a + x \/ y = a + x - TIMES)
    BY AddTime
<1>2. d \in Int /\ (d = a - b \/ d = a - b + TIMES \/ d = a - b - TIMES) /\ Half(d) /\ Half(d + x)
    BY Diff, TimesType
<1>. HIDE DEF y, d
<1>3. \/ y = b + (d + x) \/ y = b + (d + x) + TIMES \/ y = b + (d + x) - TIMES
    BY <1>1, <1>2, TimesType DEF Half
<1>4. TIMER_DIFF(y, b) = d + x
    BY <1>1, <1>2, <1>3, DiffIs
<1>. QED BY <1>4 DEF y, d

LEMMA DiffTake ==
    ASSUME NEW a \in Time, NEW b \in Time, NEW x \in Nat, x < TIMES, Half(TIMER_DIFF(a, b) - x)
    PROVE  TIMER_DIFF(a, (b + x) % TIMES) = TIMER_DIFF(a, b) - x
<1>. DEFINE y == (b + x) % TIMES
            d == TIMER_DIFF(a, b)
<1>1. y \in Time /\ (y = b + x \/ y = b + x - TIMES)
    BY AddTime
<1>2. d \in Int /\ (d = a - b \/ d = a - b + TIMES \/ d = a - b - TIMES) /\ Half(d) /\ Half(d - x)
    BY Diff, TimesType
<1>. HIDE DEF y, d
<1>3. \/ a = y + (d - x) \/ a = y + (d - x) + TIMES \/ a = y + (d - x) - TIMES
    BY <1>1, <1>2, TimesType DEF Half
<1>4. TIMER_DIFF(a, y) = d - x
    BY <1>1, <1>2, <1>3, DiffIs
<1>. QED BY <1>4 DEF y, d

LEMMA DiffVia ==
    ASSUME NEW a \in Time, NEW b \in Time, NEW c \in Time, Half(TIMER_DIFF(a, b) + TIMER_DIFF(b, c))
    PROVE  TIMER_DIFF(a, c) = TIMER_DIFF(a, b) + TIMER_DIFF(b, c)
<1>. DEFINE d == TIMER_DIFF(a, b)
            e == TIMER_DIFF(b, c)
<1>1. d \in Int /\ (d = a - b \/ d = a - b + TIMES \/ d = a - b - TIMES) /\ Half(d)
    BY Diff, TimesType
<1>2. e \in Int /\ (e = b - c \/ e = b - c + TIMES \/ e = b - c - TIMES) /\ Half(e) /\ Half(d + e)
    BY Diff, TimesType
<1>. HIDE DEF d, e
<1>3. \/ a = c + (d + e) \/ a = c + (d + e) + TIMES \/ a = c + (d + e) - TIMES
    BY <1>1, <1>2, TimesType DEF Half
<1>4. TIMER_DIFF(a, c) = d + e
    BY <1>1, <1>2, <1>3, DiffIs
<1>. QED BY <1>4 DEF d, e

LEMMA DiffSelf == ASSUME NEW a \in Time PROVE TIMER_DIFF(a, a) = 0
<1>1. Half(0) /\ a = a + 0
    BY TimesType DEF Half
<1>. QED BY <1>1, DiffIs

(* The age of the last pass, or of the one under way.                        *)
Gap == TIMER_DIFF(now, last_execution_time)

(* The slots that the pass under way has left behind, all when none is.      *)
Behind(s) == pc = "idle" \/ s < entry

(* No pass is older than MaxGap, no entry is further away than two delays     *)
(* (what is left of one and what its callback adds), and every entry lies     *)
(* after the last pass: one the pass under way has yet to look at may be late *)
(* by the time since the pass before it.  A callback's own entry was due when *)
(* it ran, or has been extended since.                                         *)
Timely ==
    /\ Gap \in 0..MaxGap
    /\ \A s \in Used : \E d, e \in Delay : DueIn(s) <= d + e
    /\ \A s \in Used : DueIn(s) + Gap > IF Behind(s) THEN 0 ELSE -MaxGap
    /\ pc = "callback" /\ entry \in Used => \E d \in Delay : DueIn(entry) <= d

(* While a callback runs its slot is used unless it has cancelled itself, and *)
(* that is what own remembers.                                                *)
Holds ==
    /\ own => pc = "callback" /\ entry \in Used
    /\ pc = "callback" /\ ~own => entry \notin Used

QInv == IInv /\ Timely /\ Holds

(* The ranges of the numbers below.                                          *)
LEMMA Bounds ==
    ASSUME TypeOK
    PROVE /\ now \in Time /\ last_execution_time \in Time /\ Gap \in Int
          /\ MaxGap \in Nat /\ MaxGap >= 1 /\ 2 * MaxGap < TIMES
          /\ \A s \in Slot : table[s].trigger_time \in Time /\ DueIn(s) \in Int
          /\ \A d \in Delay : d \in Nat /\ MaxGap <= d /\ 4 * d + 2 * MaxGap < TIMES /\ d < TIMES
<1>1. now \in Time /\ last_execution_time \in Time /\ \A s \in Slot : table[s].trigger_time \in Time
    BY DEF TypeOK
<1>2. Gap \in Int /\ \A s \in Slot : DueIn(s) \in Int
    BY <1>1, Diff DEF Gap, DueIn
<1>3. \A d \in Delay : d \in Nat /\ MaxGap <= d /\ 4 * d + 2 * MaxGap < TIMES /\ d < TIMES
    BY DeferredAssumption
<1>. QED BY <1>1, <1>2, <1>3, DeferredAssumption

(* The pass compares with the time it began: that is DueIn, moved by Gap.    *)
LEMMA SeenFromPass ==
    ASSUME TypeOK, Timely, NEW s \in Used
    PROVE  /\ TIMER_DIFF(table[s].trigger_time, last_execution_time) = DueIn(s) + Gap
           /\ -2 * MaxGap < DueIn(s) /\ Half(DueIn(s) - 1)
           /\ \A d \in Delay : d \in Nat /\ Half(d)
<1>1. s \in Slot
    BY DEF Used
<1>2. PICK d \in Delay, e \in Delay : DueIn(s) <= d + e
    BY DEF Timely
<1>3. DueIn(s) + Gap > -MaxGap /\ Gap \in 0..MaxGap
  <2>1. Gap \in 0..MaxGap
      BY DEF Timely
  <2>2. DueIn(s) + Gap > IF Behind(s) THEN 0 ELSE -MaxGap
      BY DEF Timely
  <2>. QED BY <1>1, <2>1, <2>2, Bounds
<1>4. /\ DueIn(s) \in Int /\ Gap \in Int /\ MaxGap \in Nat /\ TIMES \in Nat /\ MaxGap >= 1
      /\ d \in Nat /\ e \in Nat /\ MaxGap <= d /\ 4 * d + 2 * MaxGap < TIMES
      /\ 4 * e + 2 * MaxGap < TIMES
    BY <1>1, <1>2, Bounds, TimesType
<1>. DEFINE x == DueIn(s)
            g == Gap
<1>5. x \in Int /\ g \in Int /\ x <= d + e /\ x + g > -MaxGap /\ g >= 0 /\ g <= MaxGap
    BY <1>2, <1>3, <1>4
<1>. HIDE DEF x, g
<1>6. /\ Half(x + g) /\ Half(x - 1) /\ -2 * MaxGap < x
    BY <1>4, <1>5 DEF Half
<1>7. TIMER_DIFF(table[s].trigger_time, last_execution_time) = x + g
    BY <1>1, <1>6, Bounds, DiffVia DEF x, g, DueIn, Gap
<1>8. ASSUME NEW f \in Delay PROVE f \in Nat /\ Half(f)
  <2>1. f \in Nat /\ 4 * f + 2 * MaxGap < TIMES
      BY Bounds
  <2>. QED BY <2>1, <1>4 DEF Half
<1>. QED BY <1>6, <1>7, <1>8 DEF x, g

(* What is deferred or extended by d is due in d.                            *)
LEMMA Fresh ==
    ASSUME TypeOK, NEW d \in Delay
    PROVE  TIMER_DIFF(After(d), now) = d /\ After(d) \in Time
<1>1. d \in Nat /\ d < TIMES /\ now \in Time /\ 4 * d + 2 * MaxGap < TIMES /\ MaxGap \in Nat
    BY Bounds
<1>2. TIMER_DIFF(now, now) = 0
    BY <1>1, DiffSelf
<1>3. Half(d) /\ 0 + d = d
    BY <1>1, TimesType DEF Half
<1>4. TIMER_DIFF((now + d) % TIMES, now) = d
    BY <1>1, <1>2, <1>3, DiffAdd
<1>. QED BY <1>1, <1>4, AddTime DEF After

(* The main loop and the callbacks change one entry at a time.             *)
LEMMA TimelyChange ==
    ASSUME TypeOK, Timely, NEW s \in Slot, NEW e,
           table' = [table EXCEPT ![s] = e], UNCHANGED <<now, last_execution_time, pc, entry>>,
           e.token = INVALID_DEFERRED_TOKEN \/ \E d \in Delay : e.trigger_time = After(d)
    PROVE  Timely'
<1>1. \A r \in Slot : table'[r] = IF r = s THEN e ELSE table[r]
    BY DEF TypeOK
<1>2. Gap' = Gap /\ \A r : Behind(r)' = Behind(r)
    BY DEF Gap, Behind
<1>3. Gap \in 0..MaxGap /\ MaxGap \in Nat /\ MaxGap >= 1
    BY Bounds DEF Timely
<1>4. ASSUME NEW r \in Slot, r \in Used', r # s
      PROVE  r \in Used /\ DueIn(r)' = DueIn(r)
    BY <1>1, <1>4 DEF Used, DueIn
<1>5. ASSUME s \in Used' PROVE \E d \in Delay : DueIn(s)' = d /\ d \in Nat /\ d >= 1
  <2>1. PICK d \in Delay : e.trigger_time = After(d)
      BY <1>1, <1>5 DEF Used
  <2>2. DueIn(s)' = d
      BY <1>1, <2>1, Fresh DEF DueIn
  <2>3. d \in Nat /\ d >= 1
      BY Bounds
  <2>. QED BY <2>2, <2>3
<1>6. ASSUME NEW r \in Slot, r \in Used'
      PROVE  /\ \E c, d \in Delay : DueIn(r)' <= c + d
             /\ DueIn(r)' + Gap > IF Behind(r) THEN 0 ELSE -MaxGap
  <2>1. CASE r = s
    <3>1. PICK d \in Delay : DueIn(s)' = d /\ d \in Nat /\ d >= 1
        BY <1>5, <1>6, <2>1
    <3>2. d <= d + d /\ d + Gap > 0 /\ d + Gap > -MaxGap
        BY <1>3, <3>1
    <3>. QED BY <2>1, <3>1, <3>2
  <2>2. CASE r # s
      BY <1>4, <1>6, <2>2 DEF Timely
  <2>. QED BY <2>1, <2>2
<1>7. ASSUME pc = "callback", entry \in Used' PROVE \E d \in Delay : DueIn(entry)' <= d
  <2>1. CASE entry = s
    <3>1. PICK d \in Delay : DueIn(s)' = d /\ d \in Nat
        BY <1>5, <1>7, <2>1
    <3>. QED BY <2>1, <3>1
  <2>2. CASE entry # s
    <3>1. entry \in Slot
        BY <1>7 DEF Used
    <3>. QED BY <1>4, <1>7, <2>2, <3>1 DEF Timely
  <2>. QED BY <2>1, <2>2
<1>8. Used' \subseteq Slot
    BY DEF Used
<1>9. /\ Gap' \in 0..MaxGap
      /\ \A r \in Used' : \E c, d \in Delay : DueIn(r)' <= c + d
      /\ \A r \in Used' : DueIn(r)' + Gap' > IF Behind(r)' THEN 0 ELSE -MaxGap
    BY <1>2, <1>3, <1>6, <1>8
<1>10. pc' = "callback" /\ entry' \in Used' => \E d \in Delay : DueIn(entry)' <= d
  <2>1. pc' = pc /\ entry' = entry
      OBVIOUS
  <2>. QED BY <1>7, <2>1
<1>. QED BY <1>9, <1>10 DEF Timely

(* At the end of its callback an entry is requeued or freed.               *)
LEMMA TimelyReturn ==
    ASSUME IInv, Timely, NEW d \in Delay \cup {0}, CallbackReturns(d)
    PROVE  /\ Timely'
           /\ entry \in Used /\ d > 0 => DueIn(entry) + d = TIMER_DIFF(Requeued(d)[entry].trigger_time, now)
<1>1. entry \in Slot /\ TypeOK /\ pc = "callback"
    BY DEF IInv, CallbackReturns
<1>2. /\ table' = IF d > 0 THEN Requeued(d) ELSE [table EXCEPT ![entry] = Free]
      /\ pc' = "task" /\ entry' = entry + 1 /\ UNCHANGED <<now, last_execution_time>>
    BY DEF CallbackReturns
<1>3. Gap \in 0..MaxGap /\ MaxGap \in Nat /\ MaxGap >= 1 /\ Gap' = Gap
    BY <1>1, <1>2, Bounds DEF Timely, Gap
<1>4. /\ \A r \in Slot : r # entry => table'[r] = table[r]
      /\ d > 0 => /\ Requeued(d)[entry].token = table[entry].token
                  /\ Requeued(d)[entry].trigger_time = (table[entry].trigger_time + d) % TIMES
      /\ ~(d > 0) => table'[entry] = Free
    BY <1>1, <1>2 DEF TypeOK, Requeued
<1>5. ASSUME entry \in Used, d > 0
      PROVE  /\ TIMER_DIFF(Requeued(d)[entry].trigger_time, now) = DueIn(entry) + d
             /\ DueIn(entry) + d + Gap > 0
             /\ \E b, c \in Delay : DueIn(entry) + d <= b + c
  <2>1. PICK c \in Delay : DueIn(entry) <= c
      BY <1>1, <1>5 DEF Timely
  <2>2. d \in Delay
      BY <1>5
  <2>3. /\ c \in Nat /\ 4 * c + 2 * MaxGap < TIMES /\ TIMES \in Nat
        /\ d \in Nat /\ MaxGap <= d /\ 4 * d + 2 * MaxGap < TIMES /\ d < TIMES
        /\ DueIn(entry) \in Int /\ table[entry].trigger_time \in Time /\ now \in Time
      BY <1>1, <2>2, Bounds, TimesType
  <2>4. -2 * MaxGap < DueIn(entry)
      BY <1>1, <1>5, SeenFromPass
  <2>5. DueIn(entry) + Gap > -MaxGap
    <3>1. ~Behind(entry)
      <4>1. entry \in Nat
          BY <1>1 DEF Slot
      <4>. QED BY <1>1, <4>1 DEF Behind
    <3>. QED BY <1>5, <3>1 DEF Timely
  <2>. DEFINE x == DueIn(entry)
  <2>6. x \in Int /\ x <= c /\ -2 * MaxGap < x /\ x + Gap > -MaxGap
      BY <2>1, <2>3, <2>4, <2>5
  <2>7. x = TIMER_DIFF(table[entry].trigger_time, now)
      BY DEF DueIn
  <2>. HIDE DEF x
  <2>8. Half(x + d)
      BY <1>3, <2>3, <2>6 DEF Half
  <2>9. TIMER_DIFF((table[entry].trigger_time + d) % TIMES, now) = x + d
      BY <2>3, <2>7, <2>8, DiffAdd
  <2>10. x + d + Gap > 0 /\ x + d <= c + d
      BY <1>3, <2>3, <2>6
  <2>11. TIMER_DIFF(Requeued(d)[entry].trigger_time, now) = x + d
      BY <1>4, <1>5, <2>9
  <2>. QED BY <2>2, <2>10, <2>11 DEF x
<1>6. ASSUME NEW r \in Slot, r \in Used', r # entry
      PROVE  r \in Used /\ DueIn(r)' = DueIn(r) /\ Behind(r)' = Behind(r)
  <2>1. r \in Used /\ DueIn(r)' = DueIn(r)
      BY <1>2, <1>4, <1>6 DEF Used, DueIn
  <2>2. r \in Int /\ entry \in Int
      BY <1>1 DEF Slot
  <2>3. (r < entry + 1) = (r < entry)
      BY <1>6, <2>2
  <2>. QED BY <1>1, <1>2, <2>1, <2>3 DEF Behind
<1>7. ASSUME NEW r \in Slot, r \in Used', r = entry
      PROVE  /\ d > 0 /\ entry \in Used /\ DueIn(r)' = DueIn(entry) + d
             /\ DueIn(r)' + Gap > 0
             /\ \E b, c \in Delay : DueIn(r)' <= b + c
  <2>1. d > 0
      BY <1>4, <1>7, FreeType DEF Used
  <2>2. entry \in Used
      BY <1>1, <1>2, <1>4, <1>7, <2>1 DEF Used
  <2>3. DueIn(r)' = DueIn(entry) + d
      BY <1>2, <1>5, <1>7, <2>1, <2>2 DEF DueIn
  <2>. QED BY <1>5, <2>1, <2>2, <2>3
<1>8. ASSUME NEW r \in Slot, r \in Used'
      PROVE  /\ \E b, c \in Delay : DueIn(r)' <= b + c
             /\ DueIn(r)' + Gap > IF Behind(r)' THEN 0 ELSE -MaxGap
  <2>1. CASE r = entry
    <3>1. DueIn(r)' + Gap > 0
        BY <1>7, <1>8, <2>1
    <3>2. DueIn(r)' \in Int
      <4>1. DueIn(entry) \in Int /\ d \in Int
          BY <1>1, Bounds
      <4>. QED BY <1>7, <1>8, <2>1, <4>1
    <3>3. DueIn(r)' + Gap > -MaxGap
        BY <1>3, <3>1, <3>2
    <3>. QED BY <1>7, <1>8, <2>1, <3>1, <3>3
  <2>2. CASE r # entry
      BY <1>6, <1>8, <2>2 DEF Timely
  <2>. QED BY <2>1, <2>2
<1>9. Used' \subseteq Slot /\ pc' # "callback"
    BY <1>2 DEF Used
<1>10. Timely'
    BY <1>3, <1>8, <1>9 DEF Timely
<1>. QED BY <1>5, <1>10

(* A pass that begins, goes on or ends moves nothing.  *)
LEMMA TimelyPass ==
    ASSUME IInv, Timely, BeginPass \/ Invoke \/ EndPass
    PROVE  Timely'
<1>1. UNCHANGED <<table, now>> /\ Used' = Used /\ TypeOK
    BY DEF BeginPass, Invoke, EndPass, Used, IInv
<1>2. \A s \in Slot : s \in Used => DueIn(s) \in Int
    BY <1>1, Bounds
<1>3. /\ Gap \in 0..MaxGap /\ MaxGap \in Nat /\ MaxGap >= 1 /\ Used \subseteq Slot
      /\ now \in Time /\ \A s \in Slot : s \in Int
    BY <1>1, Bounds DEF Timely, Used, Slot
<1>4. \A s \in Slot : DueIn(s)' = DueIn(s)
    BY <1>1 DEF DueIn
<1>5. \A s \in Used' : \E d, e \in Delay : DueIn(s)' <= d + e
    BY <1>1, <1>3, <1>4 DEF Timely
<1>6. ASSUME NEW s \in Used
      PROVE  DueIn(s) + Gap > -MaxGap /\ (Behind(s) => DueIn(s) + Gap > 0)
  <2>1. DueIn(s) + Gap > IF Behind(s) THEN 0 ELSE -MaxGap
      BY <1>6 DEF Timely
  <2>2. DueIn(s) \in Int
      BY <1>2, <1>3
  <2>. QED BY <1>3, <2>1, <2>2
<1>7. ASSUME NEW s \in Used
      PROVE  Triggers(s) <=> DueIn(s) + Gap <= 0
    BY <1>1, <1>7, SeenFromPass DEF Triggers
<1>8. CASE BeginPass
  <2>1. pc = "idle" /\ pc' = "task" /\ last_execution_time' = now /\ entry' = 1
      BY <1>8 DEF BeginPass
  <2>2. Gap' = 0
      BY <1>1, <1>3, <2>1, DiffSelf DEF Gap
  <2>3. ASSUME NEW s \in Used
        PROVE  DueIn(s)' + Gap' > -MaxGap /\ ~Behind(s)'
    <3>1. Behind(s) /\ DueIn(s) \in Int /\ DueIn(s)' = DueIn(s)
        BY <1>2, <1>3, <1>4, <2>1 DEF Behind
    <3>2. s \in Slot
        BY <1>3
    <3>3. ~Behind(s)'
        BY <2>1, <3>2 DEF Behind, Slot
    <3>. QED BY <1>3, <1>6, <2>2, <3>1, <3>3
  <2>4. \A s \in Used' : DueIn(s)' + Gap' > IF Behind(s)' THEN 0 ELSE -MaxGap
      BY <1>1, <2>3
  <2>5. Gap' \in 0..MaxGap
      BY <1>3, <2>2
  <2>. QED BY <1>5, <2>1, <2>4, <2>5 DEF Timely
<1>9. ASSUME pc = "task", UNCHANGED last_execution_time
      PROVE  /\ Gap' = Gap
             /\ \A s \in Used : ~ToRun(s) => DueIn(s) + Gap > 0
  <2>1. Gap' = Gap
      BY <1>1, <1>9 DEF Gap
  <2>2. ASSUME NEW s \in Used, ~ToRun(s) PROVE DueIn(s) + Gap > 0
    <3>1. s < entry \/ ~Triggers(s)
      <4>1. entry \in Int /\ s \in Int
          BY <1>1, <1>3, Constants DEF TypeOK
      <4>. QED BY <2>2, <4>1 DEF ToRun, Used
    <3>2. CASE s < entry
        BY <1>6, <3>2 DEF Behind
    <3>3. CASE ~Triggers(s)
      <4>1. DueIn(s) \in Int
          BY <1>2, <1>3
      <4>. QED BY <1>3, <1>7, <3>3, <4>1
    <3>. QED BY <3>1, <3>2, <3>3
  <2>. QED BY <2>1, <2>2
<1>10. CASE Invoke
  <2>1. PICK q \in Slot : /\ ToRun(q) /\ \A r \in 1..(q - 1) : ~ToRun(r)
                          /\ entry' = q /\ pc' = "callback"
      BY <1>10 DEF Invoke
  <2>2. pc = "task" /\ UNCHANGED last_execution_time
      BY <1>10 DEF Invoke
  <2>3. ASSUME NEW s \in Used
        PROVE  DueIn(s)' + Gap' > IF Behind(s)' THEN 0 ELSE -MaxGap
    <3>1. DueIn(s)' + Gap' = DueIn(s) + Gap
        BY <1>3, <1>4, <1>9, <2>2
    <3>2. CASE s < q
      <4>1. s \in 1..(q - 1)
          BY <1>3, <3>2 DEF Slot
      <4>. QED BY <1>6, <1>9, <2>1, <2>2, <3>1, <4>1
    <3>3. CASE ~(s < q)
      <4>1. ~Behind(s)'
          BY <2>1, <3>3 DEF Behind
      <4>. QED BY <1>6, <3>1, <4>1
    <3>. QED BY <3>2, <3>3
  <2>4. q \in Used
      BY <2>1 DEF ToRun, Used
  <2>5. \E d \in Delay : DueIn(q) <= d
    <3>1. PICK d \in Delay : TRUE
        BY <2>4 DEF Timely
    <3>2. d \in Nat /\ DueIn(q) \in Int /\ DueIn(q) + Gap <= 0
        BY <1>1, <1>2, <1>7, <2>1, <2>4, Bounds DEF ToRun
    <3>3. DueIn(q) <= d
        BY <1>3, <3>2
    <3>. QED BY <3>3
  <2>6. DueIn(entry)' = DueIn(q)
      BY <1>1, <2>1 DEF DueIn
  <2>7. Gap' \in 0..MaxGap
      BY <1>3, <1>9, <2>2
  <2>. QED BY <1>1, <1>5, <2>3, <2>5, <2>6, <2>7 DEF Timely
<1>11. CASE EndPass
  <2>1. pc = "task" /\ UNCHANGED last_execution_time /\ pc' = "idle" /\ \A s \in Slot : ~ToRun(s)
      BY <1>11 DEF EndPass
  <2>2. ASSUME NEW s \in Used
        PROVE  DueIn(s)' + Gap' > IF Behind(s)' THEN 0 ELSE -MaxGap
      BY <1>3, <1>4, <1>9, <2>1 DEF Behind
  <2>3. Gap' \in 0..MaxGap
      BY <1>3, <1>9, <2>1
  <2>. QED BY <1>1, <1>5, <2>1, <2>2, <2>3 DEF Timely
<1>. QED BY <1>8, <1>10, <1>11

(* A millisecond passes for all entries and for the pass.                  *)
LEMMA TimelyTick ==
    ASSUME TypeOK, Timely, Tick
    PROVE  Timely' /\ Used' = Used /\ \A s \in Used : DueIn(s)' = DueIn(s) - 1
<1>1. /\ UNCHANGED <<table, last_execution_time, pc, entry>> /\ now' = After(1)
      /\ Gap < MaxGap
    BY DEF Tick, Gap
<1>2. /\ Gap \in 0..MaxGap /\ MaxGap \in Nat /\ 2 * MaxGap < TIMES /\ TIMES \in Nat /\ TIMES >= 2
      /\ now \in Time /\ last_execution_time \in Time
    BY Bounds, TimesType DEF Timely
<1>3. Half(Gap + 1)
    BY <1>1, <1>2 DEF Half
<1>4. Gap' = Gap + 1
    BY <1>1, <1>2, <1>3, DiffAdd DEF Gap, After
<1>5. ASSUME NEW s \in Used PROVE DueIn(s)' = DueIn(s) - 1 /\ DueIn(s) \in Int
  <2>1. s \in Slot /\ Half(DueIn(s) - 1)
      BY <1>5, SeenFromPass DEF Used
  <2>2. table[s].trigger_time \in Time /\ DueIn(s) \in Int
      BY <2>1, Bounds
  <2>3. TIMER_DIFF(table[s].trigger_time, (now + 1) % TIMES) = DueIn(s) - 1
      BY <1>2, <2>1, <2>2, DiffTake DEF DueIn
  <2>. QED BY <1>1, <2>2, <2>3 DEF DueIn, After
<1>6. Used' = Used /\ \A s : Behind(s)' = Behind(s)
    BY <1>1 DEF Used, Behind
<1>7. Gap' \in 0..MaxGap
    BY <1>1, <1>2, <1>4
<1>8. ASSUME NEW s \in Used
      PROVE  /\ \E d, e \in Delay : DueIn(s)' <= d + e
             /\ DueIn(s)' + Gap' = DueIn(s) + Gap
  <2>1. PICK d \in Delay, e \in Delay : DueIn(s) <= d + e
      BY <1>8 DEF Timely
  <2>2. d \in Nat /\ e \in Nat
      BY Bounds
  <2>3. DueIn(s)' <= d + e
      BY <1>5, <1>8, <2>1, <2>2
  <2>4. DueIn(s)' + Gap' = DueIn(s) + Gap
      BY <1>2, <1>4, <1>5, <1>8
  <2>. QED BY <2>3, <2>4
<1>9. pc = "callback" /\ entry \in Used => \E d \in Delay : DueIn(entry)' <= d
  <2>. SUFFICES ASSUME pc = "callback", entry \in Used
                PROVE  \E d \in Delay : DueIn(entry)' <= d
      OBVIOUS
  <2>1. PICK d \in Delay : DueIn(entry) <= d
      BY DEF Timely
  <2>2. DueIn(entry)' = DueIn(entry) - 1 /\ DueIn(entry) \in Int
      BY <1>1, <1>5 DEF DueIn
  <2>3. d \in Nat
      BY Bounds
  <2>4. DueIn(entry)' <= d
      BY <2>1, <2>2, <2>3
  <2>. QED BY <2>4
<1>10. \A s \in Used' : DueIn(s)' + Gap' > IF Behind(s)' THEN 0 ELSE -MaxGap
    BY <1>6, <1>8 DEF Timely
<1>11. Timely'
    BY <1>1, <1>6, <1>7, <1>8, <1>9, <1>10 DEF Timely
<1>. QED BY <1>5, <1>6, <1>11

(* One step per action.  Replace = FALSE: nothing takes a slot whose callback *)
(* is still to return.                                                        *)
LEMMA QInvStep ==
    ASSUME Replace = FALSE, QInv, [Next]_vars
    PROVE  QInv'
<1>. USE DEF QInv
<1>0. IInv' /\ TypeOK
    BY StepInv DEF IInv
<1>. SUFFICES Timely' /\ Holds'
    BY <1>0
<1>1. ASSUME NEW d \in Delay, defer_exec(d) PROVE Timely' /\ Holds'
  <2>1. PICK s \in Slot, token \in Byte :
           /\ FirstFree(s)
           /\ table' = IF token = INVALID_DEFERRED_TOKEN THEN table
                       ELSE [table EXCEPT ![s] = [token |-> token, trigger_time |-> After(d)]]
      BY <1>1 DEF defer_exec
  <2>2. UNCHANGED <<now, last_execution_time, pc, entry, own>> /\ (pc = "callback" => own)
      BY <1>1 DEF defer_exec
  <2>3. CASE token = INVALID_DEFERRED_TOKEN
    <3>1. UNCHANGED <<table, now, last_execution_time, pc, entry, own>>
        BY <2>1, <2>2, <2>3
    <3>. QED BY <3>1 DEF Timely, Holds, Gap, Used, DueIn, Behind
  <2>4. CASE token # INVALID_DEFERRED_TOKEN
    <3>. DEFINE e == [token |-> token, trigger_time |-> After(d)]
    <3>1. table' = [table EXCEPT ![s] = e] /\ e.trigger_time = After(d) /\ e.token # INVALID_DEFERRED_TOKEN
        BY <2>1, <2>4
    <3>. HIDE DEF e
    <3>2. Timely'
        BY <1>0, <2>2, <3>1, TimelyChange
    <3>3. Used \subseteq Used'
        BY <1>0, <3>1 DEF Used, TypeOK
    <3>. QED BY <2>2, <3>2, <3>3 DEF Holds
  <2>. QED BY <2>3, <2>4
<1>2. ASSUME NEW s \in Slot, NEW d \in Delay, extend_deferred_exec(s, d) PROVE Timely' /\ Holds'
  <2>. DEFINE e == [table[s] EXCEPT !.trigger_time = After(d)]
  <2>1. table' = [table EXCEPT ![s] = e] /\ UNCHANGED <<now, last_execution_time, pc, entry, own>>
      BY <1>2 DEF extend_deferred_exec
  <2>2. e.trigger_time = After(d) /\ e.token = table[s].token
      BY <1>0 DEF TypeOK
  <2>. HIDE DEF e
  <2>3. Timely'
      BY <1>0, <2>1, <2>2, TimelyChange
  <2>4. Used' = Used
      BY <1>0, <2>1, <2>2 DEF Used, TypeOK
  <2>. QED BY <2>1, <2>3, <2>4 DEF Holds
<1>3. ASSUME NEW s \in Slot, cancel_deferred_exec(s) PROVE Timely' /\ Holds'
  <2>1. /\ table' = [table EXCEPT ![s] = Free] /\ UNCHANGED <<now, last_execution_time, pc, entry>>
        /\ own' = (own /\ s # entry)
      BY <1>3 DEF cancel_deferred_exec
  <2>2. Timely'
      BY <1>0, <2>1, FreeType, TimelyChange
  <2>3. Used' = Used \ {s}
      BY <1>0, <2>1, FreeType DEF Used, TypeOK
  <2>. QED BY <2>1, <2>2, <2>3 DEF Holds
<1>4. CASE OtherTableDefers
    BY <1>4 DEF OtherTableDefers, Timely, Holds, Gap, Used, DueIn, Behind
<1>5. CASE BeginPass \/ Invoke \/ EndPass
  <2>1. Timely' /\ Used' = Used
      BY <1>5, TimelyPass DEF BeginPass, Invoke, EndPass, Used
  <2>2. CASE BeginPass
      BY <2>1, <2>2 DEF BeginPass, Holds
  <2>3. CASE Invoke
      BY <2>1, <2>3 DEF Invoke, Holds, ToRun, Used
  <2>4. CASE EndPass
      BY <2>1, <2>4 DEF EndPass, Holds
  <2>. QED BY <1>5, <2>1, <2>2, <2>3, <2>4
<1>6. ASSUME NEW d \in Delay \cup {0}, CallbackReturns(d) PROVE Timely' /\ Holds'
    BY <1>6, TimelyReturn DEF CallbackReturns, Holds
<1>7. CASE Tick
    BY <1>0, <1>7, TimelyTick DEF Tick, Holds
<1>8. CASE UNCHANGED vars
    BY <1>8 DEF vars, Timely, Holds, Gap, Used, DueIn, Behind
<1>. QED BY <1>0, <1>1, <1>2, <1>3, <1>4, <1>5, <1>6, <1>7, <1>8 DEF Next, Returns

LEMMA QInvInit == Init => QInv
<1>. SUFFICES ASSUME Init PROVE QInv
    OBVIOUS
<1>1. IInv
    BY InitIInv
<1>2. Used = {} /\ pc = "idle" /\ own = FALSE
    BY FreeType DEF Init, Used
<1>3. Gap = 0
  <2>1. 0 \in Time /\ now = 0 /\ last_execution_time = 0
      BY TimesType DEF Init
  <2>. QED BY <2>1, DiffSelf DEF Gap
<1>4. 0 \in 0..MaxGap
    BY DeferredAssumption
<1>. QED BY <1>1, <1>2, <1>3, <1>4 DEF QInv, Timely, Holds

-----------------------------------------------------------------------------
(* The queue: the refinement mapping of DeferredExec, by name.               *)
Pending == [t \in {table[s].token : s \in Used} |-> DueIn(SlotOf(t))]
Running == IF own THEN table[entry].token ELSE INVALID_DEFERRED_TOKEN

(* A token stands for one slot, so that its entry is due when the slot is.   *)
LEMMA PendingAt ==
    ASSUME NEW tb, NEW U, NEW n, \A s, r \in U : tb[s].token = tb[r].token => s = r
    PROVE  LET P == [t \in {tb[s].token : s \in U} |->
                        TIMER_DIFF(tb[CHOOSE s \in U : tb[s].token = t].trigger_time, n)]
           IN  /\ DOMAIN P = {tb[s].token : s \in U}
               /\ \A s \in U : P[tb[s].token] = TIMER_DIFF(tb[s].trigger_time, n)
<1>1. ASSUME NEW s \in U PROVE (CHOOSE r \in U : tb[r].token = tb[s].token) = s
  <2>. DEFINE c == CHOOSE r \in U : tb[r].token = tb[s].token
  <2>1. c \in U /\ tb[c].token = tb[s].token
      BY Zenon
  <2>. QED BY <2>1
<1>2. ASSUME NEW s \in U PROVE tb[s].token \in {tb[r].token : r \in U}
    OBVIOUS
<1>. QED BY <1>1, <1>2

LEMMA PendingIs ==
    ASSUME TokensUnique
    PROVE  /\ DOMAIN Pending = {table[s].token : s \in Used}
           /\ Pending = [t \in DOMAIN Pending |-> Pending[t]]
           /\ \A s \in Used : Pending[table[s].token] = DueIn(s)
<1>1. \A s, r \in Used : table[s].token = table[r].token => s = r
    BY DEF TokensUnique
<1>2. \A s \in Used : Pending[table[s].token] = DueIn(s)
    BY <1>1, PendingAt DEF Pending, SlotOf, DueIn
<1>. QED BY <1>2 DEF Pending

LEMMA PendingNext ==
    ASSUME TokensUnique'
    PROVE  /\ DOMAIN Pending' = {table'[s].token : s \in Used'}
           /\ Pending' = [t \in DOMAIN Pending' |-> Pending'[t]]
           /\ \A s \in Used' : Pending'[table'[s].token] = DueIn(s)'
<1>1. \A s, r \in Used' : table'[s].token = table'[r].token => s = r
    BY DEF TokensUnique
<1>2. \A s \in Used' : Pending'[table'[s].token] = DueIn(s)'
    BY <1>1, PendingAt DEF Pending, SlotOf, DueIn
<1>. QED BY <1>2 DEF Pending

(* Every call is one step of the queue, and a pass that does not invoke a     *)
(* callback is none.                                                          *)
QStep == Queue!Next \/ (Pending' = Pending /\ Running' = Running)

LEMMA QueueNext ==
    ASSUME Replace = FALSE, QInv, QInv', Next
    PROVE  QStep
<1>0. /\ TypeOK /\ TokensUnique /\ TokensUnique' /\ Timely /\ Holds
      /\ INVALID_DEFERRED_TOKEN = 0 /\ Queue!NoToken = 0
      /\ \A s \in Used : s \in Slot /\ table[s].token \in Token
  <2>1. \A s \in Used : s \in Slot /\ table[s].token \in Token
      BY Constants DEF QInv, IInv, TypeOK, Used, Byte, Token, INVALID_DEFERRED_TOKEN
  <2>. QED BY <2>1 DEF QInv, IInv, INVALID_DEFERRED_TOKEN, Queue!NoToken
<1>1. /\ DOMAIN Pending = {table[s].token : s \in Used}
      /\ Pending = [t \in DOMAIN Pending |-> Pending[t]]
      /\ \A s \in Used : Pending[table[s].token] = DueIn(s)
    BY <1>0, PendingIs
<1>2. /\ DOMAIN Pending' = {table'[s].token : s \in Used'}
      /\ Pending' = [t \in DOMAIN Pending' |-> Pending'[t]]
      /\ \A s \in Used' : Pending'[table'[s].token] = DueIn(s)'
    BY <1>0, PendingNext
<1>3. ASSUME UNCHANGED <<table, now>> PROVE Pending' = Pending
    BY <1>3 DEF Pending, SlotOf, Used, DueIn
<1>4. ASSUME NEW d \in Delay, defer_exec(d) PROVE QStep
  <2>1. PICK s \in Slot, token \in Byte :
           /\ FirstFree(s) /\ allocate_token(token)
           /\ table' = IF token = INVALID_DEFERRED_TOKEN THEN table
                       ELSE [table EXCEPT ![s] = [token |-> token, trigger_time |-> After(d)]]
      BY <1>4 DEF defer_exec
  <2>2. UNCHANGED <<now, last_execution_time, pc, entry, own>>
      BY <1>4 DEF defer_exec
  <2>3. CASE token = INVALID_DEFERRED_TOKEN
    <3>1. table' = table
        BY <2>1, <2>3
    <3>2. Running' = Running
        BY <2>2, <3>1 DEF Running
    <3>. QED BY <1>3, <2>2, <3>1, <3>2 DEF QStep
  <2>4. CASE token # INVALID_DEFERRED_TOKEN
    <3>1. token \in Token \ DOMAIN Pending
      <4>1. token_can_be_used(token)
          BY <1>0, <2>1, <2>4, AllocateToken
      <4>2. token \in Token
          BY <1>0, <2>4, Constants DEF Byte, Token
      <4>. QED BY <1>0, <1>1, <4>1, <4>2 DEF token_can_be_used
    <3>2. /\ \A r \in Slot : r # s => table'[r] = table[r]
          /\ table'[s].token = token /\ table'[s].trigger_time = After(d)
        BY <1>0, <2>1, <2>4 DEF TypeOK
    <3>3. s \notin Used /\ Used' = Used \cup {s}
        BY <2>1, <2>4, <3>2 DEF FirstFree, Used
    <3>4. DueIn(s)' = d /\ \A r \in Used : DueIn(r)' = DueIn(r)
        BY <1>0, <2>2, <3>2, <3>3, Fresh DEF DueIn
    <3>5. DOMAIN Pending' = DOMAIN Pending \cup {token}
      <4>1. {table'[r].token : r \in Used'} = {table[r].token : r \in Used} \cup {token}
          BY <1>0, <3>2, <3>3
      <4>. QED BY <1>1, <1>2, <4>1
    <3>6. ASSUME NEW u \in DOMAIN Pending' PROVE Pending'[u] = IF u = token THEN d ELSE Pending[u]
      <4>1. PICK r \in Used' : u = table'[r].token
          BY <1>2
      <4>2. CASE r = s
          BY <1>2, <3>2, <3>4, <4>1, <4>2
      <4>3. CASE r # s
        <5>1. r \in Used /\ u = table[r].token /\ u # token
            BY <1>0, <1>1, <3>1, <3>2, <3>3, <4>1, <4>3
        <5>. QED BY <1>1, <1>2, <3>4, <4>1, <5>1
      <4>. QED BY <4>2, <4>3
    <3>7. Pending' = [u \in DOMAIN Pending \cup {token} |-> IF u = token THEN d ELSE Pending[u]]
        BY <1>2, <3>5, <3>6
    <3>8. Running' = Running
      <4>1. own => entry \in Used
          BY <1>0 DEF Holds
      <4>. QED BY <1>0, <2>2, <3>2, <3>3, <4>1 DEF Running
    <3>9. Queue!Defer(d)
        BY <3>1, <3>7, <3>8 DEF Queue!Defer, Pending, Running
    <3>. QED BY <3>9 DEF QStep, Queue!Next
  <2>. QED BY <2>3, <2>4
<1>5. ASSUME NEW s \in Slot, NEW d \in Delay, extend_deferred_exec(s, d) PROVE QStep
  <2>1. s \in Used /\ UNCHANGED <<now, pc, entry, own>>
      BY <1>5 DEF extend_deferred_exec, Used
  <2>2. /\ \A r \in Slot : r # s => table'[r] = table[r]
        /\ table'[s].token = table[s].token /\ table'[s].trigger_time = After(d)
      BY <1>0, <1>5 DEF TypeOK, extend_deferred_exec
  <2>3. Used' = Used /\ \A r \in Slot : table'[r].token = table[r].token
      BY <2>1, <2>2 DEF Used
  <2>4. DueIn(s)' = d /\ \A r \in Used : r # s => DueIn(r)' = DueIn(r)
      BY <1>0, <2>1, <2>2, Fresh DEF DueIn
  <2>5. DOMAIN Pending' = DOMAIN Pending
    <3>1. {table'[r].token : r \in Used'} = {table[r].token : r \in Used}
        BY <1>0, <2>3
    <3>. QED BY <1>1, <1>2, <3>1
  <2>. DEFINE t == table[s].token
  <2>6. ASSUME NEW u \in DOMAIN Pending PROVE Pending'[u] = IF u = t THEN d ELSE Pending[u]
    <3>1. PICK r \in Used : u = table[r].token
        BY <1>1
    <3>2. Pending'[u] = DueIn(r)' /\ Pending[u] = DueIn(r)
        BY <1>0, <1>1, <1>2, <2>3, <3>1
    <3>3. r = s <=> u = t
        BY <1>0, <2>1, <3>1 DEF TokensUnique
    <3>. QED BY <2>4, <3>2, <3>3
  <2>7. Pending' = [Pending EXCEPT ![t] = d]
      BY <1>1, <1>2, <2>5, <2>6
  <2>8. Running' = Running
    <3>1. own => entry \in Slot
        BY <1>0 DEF Holds
    <3>. QED BY <2>1, <2>3, <3>1 DEF Running
  <2>9. t \in DOMAIN Pending
      BY <1>1, <2>1
  <2>10. Queue!Extend(t, d)
    <3>. HIDE DEF t
    <3>. QED BY <2>7, <2>8 DEF Queue!Extend, Pending, Running
  <2>. HIDE DEF t
  <2>. QED BY <2>9, <2>10 DEF QStep, Queue!Next, Pending
<1>6. ASSUME NEW s \in Slot, table[s].token # INVALID_DEFERRED_TOKEN,
             table' = [table EXCEPT ![s] = Free], UNCHANGED now
      PROVE  /\ s \in Used /\ table[s].token \in DOMAIN Pending
             /\ \A r \in Slot : r # s => table'[r] = table[r]
             /\ Pending' = [u \in DOMAIN Pending \ {table[s].token} |-> Pending[u]]
  <2>1. s \in Used /\ table[s].token \in DOMAIN Pending
      BY <1>1, <1>6 DEF Used
  <2>2. /\ \A r \in Slot : r # s => table'[r] = table[r]
        /\ table'[s].token = INVALID_DEFERRED_TOKEN
      BY <1>0, <1>6, FreeType DEF TypeOK
  <2>3. Used' = Used \ {s}
      BY <2>1, <2>2 DEF Used
  <2>4. \A r \in Used' : DueIn(r)' = DueIn(r) /\ table'[r].token = table[r].token
                         /\ table[r].token # table[s].token /\ r \in Used
      BY <1>0, <1>6, <2>1, <2>2, <2>3 DEF DueIn, TokensUnique
  <2>5. \A r \in Used : table[r].token # table[s].token => r \in Used'
      BY <2>3
  <2>6. DOMAIN Pending' = DOMAIN Pending \ {table[s].token}
    <3>1. {table'[r].token : r \in Used'} = {table[r].token : r \in Used} \ {table[s].token}
        BY <2>4, <2>5
    <3>. QED BY <1>1, <1>2, <3>1
  <2>7. ASSUME NEW u \in DOMAIN Pending' PROVE Pending'[u] = Pending[u]
    <3>1. PICK r \in Used' : u = table'[r].token
        BY <1>2
    <3>. QED BY <1>1, <1>2, <2>4, <3>1
  <2>. QED BY <1>2, <2>1, <2>2, <2>6, <2>7
<1>7. ASSUME NEW s \in Slot, cancel_deferred_exec(s) PROVE QStep
  <2>. DEFINE t == table[s].token
  <2>1. /\ t # INVALID_DEFERRED_TOKEN /\ table' = [table EXCEPT ![s] = Free]
        /\ own' = (own /\ s # entry) /\ UNCHANGED <<now, entry>>
      BY <1>7 DEF cancel_deferred_exec
  <2>2. /\ s \in Used /\ t \in DOMAIN Pending
        /\ \A r \in Slot : r # s => table'[r] = table[r]
        /\ Pending' = [u \in DOMAIN Pending \ {t} |-> Pending[u]]
      BY <1>6, <2>1
  <2>3. Running' = IF Running = t THEN 0 ELSE Running
    <3>1. CASE own
      <4>1. entry \in Used
          BY <1>0, <3>1 DEF Holds
      <4>2. entry = s <=> table[entry].token = t
          BY <1>0, <2>2, <4>1 DEF TokensUnique
      <4>3. CASE entry = s
          BY <1>0, <2>1, <3>1, <4>3 DEF Running
      <4>4. CASE entry # s
        <5>1. table'[entry] = table[entry] /\ Running = table[entry].token
            BY <1>0, <2>2, <3>1, <4>1, <4>4 DEF Running
        <5>2. Running' = table'[entry].token
            BY <2>1, <3>1, <4>4 DEF Running
        <5>3. Running # t
            BY <4>2, <4>4, <5>1
        <5>. QED BY <5>1, <5>2, <5>3
      <4>. QED BY <4>3, <4>4
    <3>2. CASE ~own
        BY <1>0, <2>1, <3>2 DEF Running
    <3>. QED BY <3>1, <3>2 DEF QInv, IInv, TypeOK
  <2>4. PICK c \in DOMAIN Pending : c = t
      BY <2>2
  <2>. HIDE DEF t
  <2>5. /\ Pending' = [u \in DOMAIN Pending \ {c} |-> Pending[u]]
        /\ Running' = IF Running = c THEN 0 ELSE Running
      BY <2>2, <2>3, <2>4
  <2>6. Queue!Cancel(c)
      BY <2>5 DEF Queue!Cancel, Queue!Without, Queue!NoToken, Pending, Running
  <2>7. Queue!Next
      BY <2>6 DEF Queue!Next, Pending
  <2>. QED BY <2>7 DEF QStep
<1>8. CASE OtherTableDefers
    BY <1>3, <1>8 DEF OtherTableDefers, QStep, Running
<1>9. CASE BeginPass
    BY <1>0, <1>3, <1>9 DEF BeginPass, QStep, Running, Holds
<1>10. CASE Invoke
  <2>1. PICK s \in Slot : ToRun(s) /\ entry' = s /\ own' = TRUE
      BY <1>10 DEF Invoke
  <2>2. UNCHANGED <<table, now>> /\ pc = "task"
      BY <1>10 DEF Invoke
  <2>. DEFINE t == table[s].token
  <2>3. s \in Used /\ t \in DOMAIN Pending /\ Pending[t] = DueIn(s)
      BY <1>1, <2>1 DEF ToRun, Used
  <2>4. DueIn(s) <= 0
    <3>1. DueIn(s) + Gap <= 0
        BY <1>0, <2>1, <2>3, SeenFromPass DEF ToRun, Triggers
    <3>2. Gap \in 0..MaxGap /\ DueIn(s) \in Int /\ MaxGap \in Nat
        BY <1>0, Bounds DEF Timely
    <3>. QED BY <3>1, <3>2
  <2>5. Running = 0 /\ Running' = t /\ Pending' = Pending
      BY <1>0, <1>3, <2>1, <2>2 DEF Running, Holds
  <2>. HIDE DEF t
  <2>6. Queue!Run(t)
      BY <1>0, <2>3, <2>4, <2>5 DEF Queue!Run, Queue!NoToken, Pending, Running
  <2>. QED BY <2>3, <2>6 DEF QStep, Queue!Next, Pending
<1>11. CASE EndPass
    BY <1>0, <1>3, <1>11 DEF EndPass, QStep, Running, Holds
<1>12. ASSUME NEW d \in Delay \cup {0}, CallbackReturns(d) PROVE QStep
  <2>1. /\ pc = "callback" /\ own' = FALSE /\ UNCHANGED now
        /\ table' = IF d > 0 THEN Requeued(d) ELSE [table EXCEPT ![entry] = Free]
      BY <1>12 DEF CallbackReturns
  <2>2. entry \in Slot /\ Running' = 0
      BY <1>0, <2>1 DEF QInv, IInv, Running
  <2>3. d > 0 => /\ table'[entry].token = table[entry].token
                 /\ \A r \in Slot : r # entry => table'[r] = table[r]
      BY <1>0, <2>1, <2>2 DEF Requeued, TypeOK
  <2>4. CASE own /\ d > 0
    <3>. DEFINE t == table[entry].token
    <3>1. entry \in Used /\ t \in DOMAIN Pending /\ Running = t /\ t # 0
        BY <1>0, <1>1, <2>4 DEF Holds, Running, Used
    <3>2. Used' = Used /\ \A r \in Slot : table'[r].token = table[r].token
        BY <2>2, <2>3, <2>4 DEF Used
    <3>3. DueIn(entry) + d = TIMER_DIFF(table'[entry].trigger_time, now)
      <4>1. table' = Requeued(d)
          BY <2>1, <2>4
      <4>. QED BY <1>0, <1>12, <2>4, <3>1, <4>1, TimelyReturn DEF QInv
    <3>4. \A r \in Used : r # entry => DueIn(r)' = DueIn(r)
        BY <1>0, <2>1, <2>3, <2>4 DEF DueIn
    <3>5. DOMAIN Pending' = DOMAIN Pending
      <4>1. {table'[r].token : r \in Used'} = {table[r].token : r \in Used}
          BY <1>0, <3>2
      <4>. QED BY <1>1, <1>2, <4>1
    <3>6. ASSUME NEW u \in DOMAIN Pending PROVE Pending'[u] = IF u = t THEN Pending[u] + d ELSE Pending[u]
      <4>1. PICK r \in Used : u = table[r].token
          BY <1>1
      <4>2. Pending'[u] = TIMER_DIFF(table'[r].trigger_time, now) /\ Pending[u] = DueIn(r)
          BY <1>0, <1>1, <1>2, <2>1, <3>2, <4>1 DEF DueIn
      <4>3. r = entry <=> u = t
          BY <1>0, <3>1, <4>1 DEF TokensUnique
      <4>4. CASE r = entry
          BY <3>3, <4>2, <4>3, <4>4
      <4>5. CASE r # entry
        <5>1. table'[r] = table[r]
            BY <1>0, <2>3, <2>4, <4>5
        <5>. QED BY <4>2, <4>3, <4>5, <5>1 DEF DueIn
      <4>. QED BY <4>4, <4>5
    <3>. HIDE DEF t
    <3>7. Pending' = [Pending EXCEPT ![t] = @ + d]
        BY <1>1, <1>2, <3>1, <3>5, <3>6
    <3>8. Running # Queue!NoToken /\ Running' = Queue!NoToken /\ ~(d = 0)
        BY <1>0, <2>2, <2>4, <3>1
    <3>9. Pending' = [Pending EXCEPT ![Running] = @ + d]
        BY <3>1, <3>7
    <3>10. Queue!Return(d)
        BY <3>8, <3>9 DEF Queue!Return, Pending, Running
    <3>. QED BY <3>10 DEF QStep, Queue!Next
  <2>5. CASE own /\ ~(d > 0)
    <3>. DEFINE t == table[entry].token
    <3>1. entry \in Used /\ Running = t /\ t # INVALID_DEFERRED_TOKEN
        BY <1>0, <2>5 DEF Holds, Running, Used
    <3>2. Pending' = [u \in DOMAIN Pending \ {t} |-> Pending[u]]
        BY <1>6, <2>1, <2>2, <2>5, <3>1
    <3>3. d = 0
        BY <2>5, Bounds, <1>0
    <3>. HIDE DEF t
    <3>4. Queue!Return(d)
        BY <1>0, <2>2, <3>1, <3>2, <3>3
           DEF Queue!Return, Queue!Without, Queue!NoToken, Pending, Running
    <3>. QED BY <3>4 DEF QStep, Queue!Next
  <2>6. CASE ~own
    <3>1. entry \notin Used /\ table[entry].token = INVALID_DEFERRED_TOKEN
        BY <1>0, <2>1, <2>2, <2>6 DEF Holds, Used
    <3>2. \A r \in Slot : table'[r].token = table[r].token
                          /\ (r # entry => table'[r] = table[r])
      <4>1. CASE d > 0
          BY <2>3, <4>1
      <4>2. CASE ~(d > 0)
          BY <1>0, <2>1, <2>2, <3>1, <4>2, FreeType DEF TypeOK
      <4>. QED BY <4>1, <4>2
    <3>3. Used' = Used /\ \A r \in Used : table'[r] = table[r] /\ DueIn(r)' = DueIn(r)
        BY <2>1, <3>1, <3>2 DEF Used, DueIn
    <3>4. DOMAIN Pending' = DOMAIN Pending
      <4>1. {table'[r].token : r \in Used'} = {table[r].token : r \in Used}
          BY <3>3
      <4>. QED BY <1>1, <1>2, <4>1
    <3>5. ASSUME NEW u \in DOMAIN Pending PROVE Pending'[u] = Pending[u]
      <4>1. PICK r \in Used : u = table[r].token
          BY <1>1
      <4>. QED BY <1>1, <1>2, <3>3, <4>1
    <3>6. Pending' = Pending
        BY <1>1, <1>2, <3>4, <3>5
    <3>7. Running' = Running
        BY <1>0, <2>2, <2>6 DEF Running
    <3>. QED BY <3>6, <3>7 DEF QStep
  <2>. QED BY <2>4, <2>5, <2>6
<1>13. CASE Tick
  <2>1. /\ Used' = Used /\ UNCHANGED <<table, entry, own>>
        /\ \A s \in Used : DueIn(s)' = DueIn(s) - 1
      BY <1>0, <1>13, TimelyTick DEF Tick
  <2>2. DOMAIN Pending' = DOMAIN Pending
      BY <1>1, <1>2, <2>1
  <2>3. ASSUME NEW u \in DOMAIN Pending PROVE Pending'[u] = Pending[u] - 1
    <3>1. PICK r \in Used : u = table[r].token
        BY <1>1
    <3>. QED BY <1>1, <1>2, <2>1, <3>1
  <2>4. Pending' = [t \in DOMAIN Pending |-> Pending[t] - 1]
      BY <1>2, <2>2, <2>3
  <2>5. Running' = Running
      BY <2>1 DEF Running
  <2>6. Queue!Tick
      BY <2>4, <2>5 DEF Queue!Tick, Pending, Running
  <2>. QED BY <2>6 DEF QStep, Queue!Next
<1>. QED BY <1>4, <1>5, <1>7, <1>8, <1>9, <1>10, <1>11, <1>12, <1>13 DEF Next, Returns

(* deferred_exec.c keeps the promise of TimerQueue: a callback never runs     *)
(* before its time (:130), what it returns is added to the time it was meant  *)
(* for and not to the time it ran at (:140), 0 ends it (:142), and neither a  *)
(* pass nor a call about one entry disturbs another (:63, :84, :104), for as   *)
(* long as no callback cancels itself and defers something into the slot      *)
(* before it returns.                                                         *)
THEOREM QueuesAsPromised == ASSUME Replace = FALSE PROVE Spec => ImplementsQueue
<1>1. Init => Queue!Init
  <2>. SUFFICES ASSUME Init PROVE Queue!Init
      OBVIOUS
  <2>1. Used = {} /\ own = FALSE
      BY FreeType DEF Init, Used
  <2>2. Pending = [t \in {} |-> 0]
      BY <2>1 DEF Pending
  <2>3. Running = Queue!NoToken
      BY <2>1 DEF Running, Queue!NoToken, INVALID_DEFERRED_TOKEN
  <2>. QED BY <2>2, <2>3 DEF Queue!Init, Pending, Running
<1>2. QInv /\ QInv' /\ [Next]_vars => [Queue!Next]_(Queue!qvars)
  <2>. SUFFICES ASSUME QInv, QInv', [Next]_vars PROVE [Queue!Next]_(Queue!qvars)
      OBVIOUS
  <2>1. CASE Next
    <3>1. QStep
        BY <2>1, QueueNext
    <3>. QED BY <3>1 DEF QStep, Queue!qvars, Pending, Running
  <2>2. CASE UNCHANGED vars
      BY <2>2 DEF vars, Queue!qvars, SlotOf, Used, DueIn
  <2>. QED BY <2>1, <2>2
<1>3. Init => QInv
    BY QInvInit
<1>4. QInv /\ [Next]_vars => QInv'
    BY QInvStep
<1>. QED BY <1>1, <1>2, <1>3, <1>4, PTL DEF Spec, ImplementsQueue, Queue!Spec
=============================================================================
