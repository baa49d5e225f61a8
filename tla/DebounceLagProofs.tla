------------------------- MODULE DebounceLagProofs -------------------------
(* The other half of DebounceProofs: no algorithm reports too late.  For     *)
(* every matrix, every DEBOUNCE and every rhythm of the scans, an eager      *)
(* algorithm lags behind the switches only where it is locked, and no        *)
(* algorithm leaves a change unreported for longer than its latency.         *)
EXTENDS DebounceProofs

Lagging == Delta(raw, cooked)

(* A countdown that runs ends before the time t, which began with it or      *)
(* later, passes d.                                                          *)
Ends(t, c, d) == c # 0 /\ t + c <= d + since

(* Between two scans the time since the counters were last counted down is   *)
(* the time since the last scan, as far as it is looked at.                  *)
Clock ==
    algorithm = "sym_defer_pr" \/ (need_update /\ algorithm \notin {"none", "sym_defer_g"})
        => age = since \/ (age = DEBOUNCE /\ since >= DEBOUNCE)

NoLag == algorithm = "none" \/ (DEBOUNCE = 0 /\ algorithm # "sym_defer_pr") => Lagging = {}

(* A change that is not reported yet has a countdown, which started with the *)
(* last change of its switches.                                              *)
GlobalLag ==
    algorithm = "sym_defer_g" =>
        /\ Lagging # {} => need_update
        /\ need_update => age >= DEBOUNCE \/ \E j \in Key : quiet[j] <= age
        /\ need_update /\ since = 0 /\ DEBOUNCE > 0 => age < DEBOUNCE
RowLag ==
    algorithm = "sym_defer_pr" /\ DEBOUNCE > 0 =>
        \A k \in Lagging : \E j \in Key : RowOf[j] = RowOf[k] /\ Ends(quiet[j], counter[RowOf[k]], DEBOUNCE)
KeyLag ==
    algorithm = "sym_defer_pk" \/ Eager =>
        \A k \in Lagging : Ends(quiet[k], counter[Unit(k)], DEBOUNCE)
(* A lock that runs started with a report of one of its keys.                *)
LockLag ==
    Eager => \A u \in Key : counter[u] # 0 =>
                 \E j \in Key : Unit(j) = u /\ Ends(held[j], counter[u], DEBOUNCE)
(* A release may first wait for the lock of its press, and only then for its *)
(* own countdown.                                                            *)
Wait(k) == IF k \in pressed THEN DEBOUNCE ELSE 2 * DEBOUNCE + MaxDelay - 1
AsymLag ==
    Asym => /\ raw \subseteq cooked
            /\ \A k \in Key : counter[k] # 0 => k \in cooked
            /\ \A k \in Lagging : Ends(quiet[k], counter[k], Wait(k))

LagInv == Clock /\ NoLag /\ GlobalLag /\ RowLag /\ KeyLag /\ LockLag /\ AsymLag

-----------------------------------------------------------------------------
LEMMA LagTypes ==
    ASSUME TypeOK
    PROVE  /\ since \in Nat /\ since <= MaxDelay /\ MaxDelay >= 1 /\ DEBOUNCE \in Nat
           /\ MaxQuiet = 2 * DEBOUNCE + MaxDelay
           /\ \A k \in Lagging : k \in Key
<1>1. /\ since \in Nat /\ since <= MaxDelay /\ MaxDelay >= 1 /\ DEBOUNCE \in Nat
    BY DebounceAssumption DEF TypeOK
<1>. QED BY <1>1 DEF MaxQuiet, TypeOK, Lagging, Delta

(* A countdown that goes on has lost the time since the last scan.           *)
LEMMA GoesOn ==
    ASSUME IInv, Clock, algorithm \notin {"none", "sym_defer_g", "sym_defer_pr"},
           NEW u \in Key, counter[u] # 0 => need_update
    PROVE  /\ Counted[u] \in Nat /\ Counted[u] <= DEBOUNCE
           /\ Counted[u] # 0 => counter[u] = Counted[u] + since
           /\ u \in Expired <=> counter[u] # 0 /\ Counted[u] = 0
<1>1. /\ DEBOUNCE \in Nat /\ age \in Nat /\ age <= DEBOUNCE /\ since \in Nat
      /\ counter[u] \in Nat /\ counter[u] <= DEBOUNCE
      /\ elapsed_time = IF need_update THEN age ELSE 0
    BY Types, LagTypes DEF IInv, elapsed_time
<1>2. Counted[u] = IF counter[u] <= elapsed_time THEN 0 ELSE counter[u] - elapsed_time
    BY DEF Counted
<1>3. CASE counter[u] = 0
    BY <1>1, <1>2, <1>3 DEF Expired
<1>4. CASE counter[u] # 0
  <2>1. need_update /\ elapsed_time = age /\ (age = since \/ age = DEBOUNCE)
      BY <1>1, <1>4 DEF Clock
  <2>. QED BY <1>1, <1>2, <1>4, <2>1 DEF Expired
<1>. QED BY <1>3, <1>4

LEMMA OnlyWhileNeeded == CountsOn => need_update
<1>1. elapsed_time > 0 => need_update
  <2>1. ~need_update => elapsed_time = 0
      BY DEF elapsed_time
  <2>. QED BY <2>1
<1>. QED BY <1>1 DEF CountsOn

LEMMA NoneLag ==
    ASSUME IInv, NEW read \in SUBSET Key, Scanned(read), none(read), IInv',
           algorithm = "none" \/ (DEBOUNCE = 0 /\ algorithm # "sym_defer_pr")
    PROVE  LagInv'
<1>1. Lagging' = {} /\ raw' = cooked'
    BY DEF none, Scanned, Lagging, Delta
<1>2. algorithm' = algorithm /\ since' = 0
    BY DEF Scanned
<1>3. CASE algorithm = "none"
    BY <1>1, <1>2, <1>3 DEF LagInv, Clock, NoLag, GlobalLag, RowLag, KeyLag, LockLag, AsymLag, Eager, Asym
<1>4. CASE DEBOUNCE = 0 /\ algorithm # "sym_defer_pr"
  <2>1. age' = 0 /\ \A k \in Key : counter'[k] = 0
      BY <1>4, Types DEF IInv, TypeOK, MaxAge
  <2>. QED BY <1>1, <1>2, <1>4, <2>1
       DEF LagInv, Clock, NoLag, GlobalLag, RowLag, KeyLag, LockLag, AsymLag
<1>. QED BY <1>3, <1>4

LEMMA DeferGlobalLag ==
    ASSUME IInv, LagInv, NEW read \in SUBSET Key, Scanned(read), sym_defer_g(read), IInv',
           DEBOUNCE > 0, algorithm = "sym_defer_g"
    PROVE  LagInv'
<1>. DEFINE time == IF read # raw THEN 0 ELSE age
            debouncing == need_update \/ read # raw
            push == debouncing /\ time >= DEBOUNCE
<1>1. /\ cooked' = IF push THEN read ELSE cooked
      /\ need_update' = (debouncing /\ ~push) /\ age' = time
      /\ raw' = read /\ algorithm' = algorithm /\ cooked' \in SUBSET Key
    BY DEF sym_defer_g, Scanned, IInv, TypeOK
<1>2. Lagging' # {} => need_update'
  <2>1. CASE debouncing
      BY <1>1, <2>1 DEF Lagging, Delta
  <2>2. CASE ~debouncing
    <3>1. Lagging = {}
        BY <2>2 DEF LagInv, GlobalLag
    <3>. QED BY <1>1, <2>2, <3>1 DEF Lagging
  <2>. QED BY <2>1, <2>2
<1>3. ASSUME need_update' PROVE age' >= DEBOUNCE \/ \E j \in Key : quiet'[j] <= age'
  <2>1. \A k \in Key : quiet'[k] = IF k \in Delta(read, raw) THEN 0 ELSE quiet[k]
      BY <1>1, ScannedTypes DEF IInv
  <2>2. CASE read # raw
    <3>1. PICK k \in Key : k \in Delta(read, raw)
        BY <2>2 DEF Delta, IInv, TypeOK
    <3>. QED BY <1>1, <2>1, <2>2, <3>1
  <2>3. CASE read = raw
    <3>1. need_update /\ age' = age /\ \A k \in Key : quiet'[k] = quiet[k]
        BY <1>1, <1>3, <2>1, <2>3 DEF Delta
    <3>. QED BY <3>1 DEF LagInv, GlobalLag
  <2>. QED BY <2>2, <2>3
<1>4. ASSUME need_update' PROVE age' < DEBOUNCE
  <2>1. ~(age' >= DEBOUNCE)
      BY <1>1, <1>4
  <2>. QED BY <1>1, <2>1, Types DEF IInv
<1>5. GlobalLag'
    BY <1>2, <1>3, <1>4 DEF GlobalLag
<1>. QED BY <1>1, <1>5 DEF LagInv, Clock, NoLag, RowLag, KeyLag, LockLag, AsymLag, Eager, Asym

LEMMA DeferRowLag ==
    ASSUME IInv, LagInv, NEW read \in SUBSET Key, Scanned(read), sym_defer_pr(read), IInv',
           algorithm = "sym_defer_pr"
    PROVE  LagInv'
<1>. DEFINE moved(u)  == \E k \in Delta(read, raw) : RowOf[k] = u
            expired(u) == ~moved(u) /\ counter[u] # 0 /\ counter[u] <= age
<1>1. /\ counter' = [u \in Key |-> IF moved(u) THEN DEBOUNCE
                                   ELSE IF counter[u] > age THEN counter[u] - age ELSE 0]
      /\ cooked' = {k \in Key : k \in IF expired(RowOf[k]) THEN read ELSE cooked}
      /\ age' = 0
    BY DEF sym_defer_pr
<1>2. /\ raw' = read /\ since' = 0 /\ algorithm' = algorithm
      /\ \A k \in Key : quiet'[k] = IF k \in Delta(read, raw) THEN 0 ELSE quiet[k]
  <2>1. cooked' \in SUBSET Key
      BY <1>1
  <2>. QED BY <2>1, ScannedTypes DEF IInv, Scanned
<1>3. ASSUME DEBOUNCE > 0, NEW k \in Key, k \in Lagging'
      PROVE  \E j \in Key : /\ RowOf[j] = RowOf[k] /\ counter'[RowOf[k]] # 0
                            /\ quiet'[j] + counter'[RowOf[k]] <= DEBOUNCE + since'
  <2>. DEFINE u == RowOf[k]
  <2>1. /\ u \in Key /\ DEBOUNCE \in Nat /\ age \in Nat /\ age <= DEBOUNCE /\ since \in Nat
        /\ counter[u] \in Nat /\ counter[u] <= DEBOUNCE
        /\ \A j \in Key : quiet[j] \in Nat
        /\ age = since \/ age = DEBOUNCE
      BY Types, LagTypes DEF IInv, LagInv, Clock
  <2>2. counter'[u] = IF moved(u) THEN DEBOUNCE
                      ELSE IF counter[u] > age THEN counter[u] - age ELSE 0
      BY <1>1, <2>1
  <2>3. CASE moved(u)
    <3>1. PICK j \in Delta(read, raw) : RowOf[j] = u
        BY <2>3
    <3>2. j \in Key /\ quiet'[j] = 0
        BY <1>2, <3>1 DEF Delta, IInv, TypeOK
    <3>3. counter'[u] = DEBOUNCE
        BY <2>2, <2>3
    <3>. QED BY <1>2, <1>3, <2>1, <3>1, <3>2, <3>3
  <2>4. CASE ~moved(u)
    <3>1. ~expired(u) /\ k \in Lagging
        BY <1>1, <1>2, <1>3, <2>4 DEF Lagging, Delta
    <3>2. PICK j \in Key : RowOf[j] = u /\ counter[u] # 0 /\ quiet[j] + counter[u] <= DEBOUNCE + since
        BY <1>3, <3>1 DEF LagInv, RowLag, Ends
    <3>3. counter[u] > age /\ age = since /\ counter'[u] = counter[u] - age
        BY <2>1, <2>2, <2>4, <3>1, <3>2
    <3>4. quiet'[j] = quiet[j]
        BY <1>2, <2>4, <3>2
    <3>. QED BY <1>2, <2>1, <3>2, <3>3, <3>4
  <2>. QED BY <2>3, <2>4
<1>4. \A k \in Lagging' : k \in Key
    BY LagTypes DEF IInv, Lagging, Delta, TypeOK
<1>5. RowLag'
    BY <1>3, <1>4 DEF RowLag, Ends
<1>. QED BY <1>1, <1>2, <1>5 DEF LagInv, Clock, NoLag, GlobalLag, KeyLag, LockLag, AsymLag, Eager, Asym

LEMMA DeferKeyLag ==
    ASSUME IInv, LagInv, NEW read \in SUBSET Key, Scanned(read), sym_defer_pk(read), IInv',
           DEBOUNCE > 0, algorithm = "sym_defer_pk"
    PROVE  LagInv'
<1>. DEFINE kept    == (cooked \ Expired) \cup (read \cap Expired)
            delta   == Delta(read, kept)
            changed == read # raw
<1>1. /\ cooked' = kept
      /\ counter' = IF changed THEN start_debounce_counters(Counted, delta) ELSE Counted
      /\ need_update' = (CountsOn \/ (changed /\ \E k \in delta : Counted[k] = 0))
      /\ age' = AgeAfter(changed)
    BY DEF sym_defer_pk
<1>2. /\ raw' = read /\ since' = 0 /\ algorithm' = algorithm
      /\ \A k \in Key : quiet'[k] = IF k \in Delta(read, raw) THEN 0 ELSE quiet[k]
  <2>1. cooked' \in SUBSET Key
      BY <1>1 DEF IInv, TypeOK, Expired
  <2>. QED BY <2>1, ScannedTypes DEF IInv, Scanned
<1>3. need_update' => age' = 0
    BY <1>1, OnlyWhileNeeded DEF AgeAfter
<1>4. ASSUME NEW k \in Key, k \in Lagging'
      PROVE  counter'[k] # 0 /\ quiet'[k] + counter'[k] <= DEBOUNCE + since'
  <2>1. /\ DEBOUNCE \in Nat /\ since \in Nat /\ quiet[k] \in Nat /\ counter[k] \in Nat
        /\ Unit(k) = k /\ (counter[k] # 0 => need_update)
      BY Types, LagTypes DEF IInv, KeyInv, Unit
  <2>2. /\ Counted[k] \in Nat /\ Counted[k] <= DEBOUNCE
        /\ Counted[k] # 0 => counter[k] = Counted[k] + since
        /\ k \in Expired <=> counter[k] # 0 /\ Counted[k] = 0
      BY <2>1, GoesOn DEF LagInv
  <2>3. k \in Lagging => counter[k] # 0 /\ quiet[k] + counter[k] <= DEBOUNCE + since
      BY <2>1 DEF LagInv, KeyLag, Ends
  <2>4. k \in delta /\ k \notin Expired
      BY <1>1, <1>2, <1>4 DEF Lagging, Delta
  <2>5. counter'[k] = IF changed /\ Counted[k] = 0 THEN DEBOUNCE ELSE Counted[k]
      BY <1>1, <2>4 DEF start_debounce_counters
  <2>6. CASE k \in Delta(read, raw)
      BY <1>2, <2>1, <2>2, <2>5, <2>6 DEF Delta
  <2>7. CASE k \notin Delta(read, raw)
    <3>1. k \in Lagging
        BY <2>4, <2>7 DEF Lagging, Delta
    <3>. QED BY <1>2, <2>1, <2>2, <2>3, <2>4, <2>5, <2>7, <3>1
  <2>. QED BY <2>6, <2>7
<1>5. \A k \in Lagging' : k \in Key /\ Unit(k)' = k
    BY <1>2 DEF IInv, Lagging, Delta, TypeOK, Unit
<1>6. KeyLag'
    BY <1>4, <1>5 DEF KeyLag, Ends
<1>7. Clock'
    BY <1>2, <1>3 DEF Clock
<1>. QED BY <1>2, <1>6, <1>7 DEF LagInv, NoLag, GlobalLag, RowLag, LockLag, AsymLag, Eager, Asym

LEMMA EagerLag ==
    ASSUME IInv, LagInv, NEW read \in SUBSET Key, Scanned(read), sym_eager(read), IInv',
           DEBOUNCE > 0, Eager
    PROVE  LagInv'
<1>. DEFINE transfer == read # raw \/ Expired # {}
            flips    == IF transfer THEN Flips(read) ELSE {}
<1>1. /\ cooked' = Delta(cooked, flips)
      /\ counter' = [u \in Key |-> IF \E k \in flips : Unit(k) = u THEN DEBOUNCE ELSE Counted[u]]
      /\ need_update' = (CountsOn \/ flips # {})
      /\ age' = AgeAfter(transfer)
    BY DEF sym_eager
<1>2. flips \subseteq Key /\ \A k \in flips : k \in Delta(read, cooked) /\ Counted[Unit(k)] = 0
    BY DEF Flips, Delta, IInv, TypeOK
<1>3. /\ raw' = read /\ since' = 0 /\ algorithm' = algorithm
      /\ \A k \in Key : quiet'[k] = IF k \in Delta(read, raw) THEN 0 ELSE quiet[k]
      /\ \A k \in Key : held'[k] = IF k \in flips THEN 0 ELSE held[k]
  <2>1. cooked' \in SUBSET Key
      BY <1>1, <1>2 DEF IInv, TypeOK, Delta
  <2>2. \A k \in Key : Changes(k) <=> k \in flips
      BY <1>1, <1>2 DEF Changes, Delta
  <2>. QED BY <2>1, <2>2, ScannedTypes DEF IInv, Scanned
<1>4. need_update' => age' = 0
    BY <1>1, OnlyWhileNeeded DEF AgeAfter
<1>5. \A k \in Key : Unit(k)' = Unit(k) /\ Unit(k) \in Key
    BY <1>3, Types DEF Unit, IInv
<1>6. ASSUME NEW j \in Key
      PROVE  LET u == Unit(j) IN
             /\ Counted[u] \in Nat /\ Counted[u] <= DEBOUNCE
             /\ Counted[u] # 0 => counter[u] = Counted[u] + since
             /\ u \in Expired <=> counter[u] # 0 /\ Counted[u] = 0
  <2>1. Unit(j) \in Key /\ (counter[Unit(j)] # 0 => need_update)
      BY <1>5 DEF IInv, LockInv
  <2>. QED BY <2>1, GoesOn DEF LagInv, Eager
<1>7. ASSUME NEW k \in Key, k \in Lagging'
      PROVE  /\ counter'[Unit(k)] # 0
             /\ quiet'[k] + counter'[Unit(k)] <= DEBOUNCE + since'
  <2>. DEFINE u == Unit(k)
  <2>1. /\ DEBOUNCE \in Nat /\ since \in Nat /\ quiet[k] \in Nat /\ u \in Key /\ counter[u] \in Nat
      BY <1>5, Types, LagTypes DEF IInv
  <2>2. k \in Lagging => counter[u] # 0 /\ quiet[k] + counter[u] <= DEBOUNCE + since
      BY DEF LagInv, KeyLag, Ends
  <2>3. k \in Delta(read, cooked) /\ k \notin flips
      BY <1>1, <1>2, <1>3, <1>7 DEF Lagging, Delta
  <2>4. Counted[u] # 0
    <3>1. CASE transfer
        BY <2>3, <3>1 DEF Flips
    <3>2. CASE ~transfer
      <4>1. k \in Lagging /\ u \notin Expired
          BY <2>3, <3>2 DEF Lagging
      <4>. QED BY <1>6, <2>2, <4>1
    <3>. QED BY <3>1, <3>2
  <2>5. counter'[u] = Counted[u]
      BY <1>1, <1>2, <2>1, <2>4
  <2>6. CASE k \in Delta(read, raw)
      BY <1>3, <1>6, <2>1, <2>4, <2>5, <2>6
  <2>7. CASE k \notin Delta(read, raw)
    <3>1. k \in Lagging
        BY <2>3, <2>7 DEF Lagging, Delta
    <3>. QED BY <1>3, <1>6, <2>1, <2>2, <2>4, <2>5, <2>7, <3>1
  <2>. QED BY <2>6, <2>7
<1>8. ASSUME NEW u \in Key, counter'[u] # 0
      PROVE  \E j \in Key : Unit(j) = u /\ held'[j] + counter'[u] <= DEBOUNCE + since'
  <2>1. /\ DEBOUNCE \in Nat /\ since \in Nat /\ \A j \in Key : held[j] \in Nat
      BY Types, LagTypes DEF IInv
  <2>2. CASE \E k \in flips : Unit(k) = u
    <3>1. PICK k \in flips : Unit(k) = u
        BY <2>2
    <3>2. k \in Key /\ held'[k] = 0 /\ counter'[u] = DEBOUNCE
        BY <1>1, <1>2, <1>3, <2>2, <3>1
    <3>. QED BY <1>3, <2>1, <3>1, <3>2
  <2>3. CASE ~\E k \in flips : Unit(k) = u
    <3>1. counter'[u] = Counted[u]
        BY <1>1, <2>3
    <3>2. counter[u] # 0
        BY <1>8, <3>1, Types DEF Counted, IInv
    <3>3. PICK j \in Key : Unit(j) = u /\ held[j] + counter[u] <= DEBOUNCE + since
        BY <3>2 DEF LagInv, LockLag, Ends
    <3>4. held'[j] = held[j]
        BY <1>3, <2>3, <3>3
    <3>. QED BY <1>3, <1>6, <1>8, <2>1, <3>1, <3>3, <3>4
  <2>. QED BY <2>2, <2>3
<1>9. \A k \in Lagging' : k \in Key
    BY DEF IInv, Lagging, Delta, TypeOK
<1>10. KeyLag' /\ LockLag'
    BY <1>5, <1>7, <1>8, <1>9 DEF KeyLag, LockLag, Ends
<1>11. Clock'
  <2>1. algorithm' # "sym_defer_pr"
      BY <1>3 DEF Eager
  <2>. QED BY <1>3, <1>4, <2>1 DEF Clock
<1>. QED BY <1>3, <1>10, <1>11 DEF LagInv, NoLag, GlobalLag, RowLag, AsymLag, Eager, Asym

LEMMA AsymEagerLag ==
    ASSUME IInv, LagInv, NEW read \in SUBSET Key, Scanned(read), asym_eager_defer_pk(read), IInv',
           DEBOUNCE > 0, Asym
    PROVE  LagInv'
<1>. DEFINE up       == Expired \ pressed
            kept     == (cooked \ up) \cup (read \cap up)
            transfer == read # raw \/ Expired \cap pressed # {}
            delta    == Delta(read, kept)
            starts   == {k \in delta : transfer /\ Counted[k] = 0}
            bounced  == {k \in Key \ delta : transfer /\ k \notin pressed}
<1>1. /\ cooked' = kept \cup (starts \cap read)
      /\ pressed' = (pressed \ starts) \cup (starts \cap read)
      /\ counter' = [k \in Key |-> IF k \in starts THEN DEBOUNCE
                                   ELSE IF k \in bounced THEN 0 ELSE Counted[k]]
      /\ need_update' = (CountsOn \/ starts # {})
      /\ age' = AgeAfter(transfer)
    BY DEF asym_eager_defer_pk
<1>2. /\ raw' = read /\ since' = 0 /\ algorithm' = algorithm
      /\ \A k \in Key : quiet'[k] = IF k \in Delta(read, raw) THEN 0 ELSE quiet[k]
  <2>1. cooked' \in SUBSET Key
      BY <1>1 DEF IInv, TypeOK, Expired, Delta
  <2>. QED BY <2>1, ScannedTypes DEF IInv, Scanned
<1>3. need_update' => age' = 0
    BY <1>1, OnlyWhileNeeded DEF AgeAfter
<1>4. ASSUME NEW k \in Key
      PROVE  /\ DEBOUNCE \in Nat /\ since \in Nat /\ since <= MaxDelay /\ MaxDelay \in Nat
             /\ quiet[k] \in Nat /\ counter[k] \in Nat
             /\ Counted[k] \in Nat /\ Counted[k] <= DEBOUNCE
             /\ Counted[k] # 0 => counter[k] = Counted[k] + since
             /\ k \in Expired <=> counter[k] # 0 /\ Counted[k] = 0
             /\ counter[k] # 0 => k \in cooked
             /\ k \in Lagging => counter[k] # 0 /\ quiet[k] + counter[k] <= Wait(k) + since
  <2>1. Unit(k) = k
      BY DEF Unit, Asym
  <2>2. counter[k] # 0 => need_update
      BY <2>1 DEF IInv, LockInv
  <2>3. /\ DEBOUNCE \in Nat /\ since \in Nat /\ since <= MaxDelay /\ MaxDelay \in Nat
        /\ quiet[k] \in Nat /\ counter[k] \in Nat
      BY Types, LagTypes DEF IInv
  <2>4. /\ counter[k] # 0 => k \in cooked
        /\ k \in Lagging => counter[k] # 0 /\ quiet[k] + counter[k] <= Wait(k) + since
      BY <2>3 DEF LagInv, AsymLag, Ends
  <2>. QED BY <2>2, <2>3, <2>4, GoesOn DEF LagInv, Asym
<1>5. raw \subseteq cooked /\ raw \subseteq Key /\ cooked \subseteq Key
    BY DEF LagInv, AsymLag, IInv, TypeOK
<1>6. raw' \subseteq cooked'
  <2>. SUFFICES ASSUME NEW k \in read, k \notin kept PROVE k \in starts
      BY <1>1, <1>2
  <2>1. k \in Key /\ k \notin cooked /\ k \in delta
      BY DEF Delta
  <2>2. counter[k] = 0 /\ Counted[k] = 0
      BY <1>4, <2>1
  <2>3. transfer
      BY <1>5, <2>1
  <2>. QED BY <2>1, <2>2, <2>3
<1>7. ASSUME NEW k \in Key, counter'[k] # 0 PROVE k \in cooked'
  <2>1. counter'[k] = IF k \in starts THEN DEBOUNCE ELSE IF k \in bounced THEN 0 ELSE Counted[k]
      BY <1>1
  <2>2. CASE k \in starts
      BY <1>1, <2>2 DEF Delta
  <2>3. CASE k \notin starts
    <3>1. Counted[k] # 0
        BY <1>7, <2>1, <2>3
    <3>. QED BY <1>1, <1>4, <3>1
  <2>. QED BY <2>2, <2>3
<1>8. ASSUME NEW k \in Key, k \in Lagging'
      PROVE  counter'[k] # 0 /\ quiet'[k] + counter'[k] <= Wait(k)' + since'
  <2>1. k \in delta /\ k \notin read /\ k \in kept /\ (k \in starts => k \notin pressed')
      BY <1>1, <1>2, <1>6, <1>8 DEF Lagging, Delta
  <2>2. k \notin up /\ k \notin bounced
      BY <2>1
  <2>3. counter'[k] = IF k \in starts THEN DEBOUNCE ELSE Counted[k]
      BY <1>1, <2>2
  <2>4. k \in pressed' <=> k \in pressed /\ k \notin starts
      BY <1>1, <2>1
  <2>5. k \notin Delta(read, raw) => k \in Lagging
      BY <2>1, <2>2 DEF Lagging, Delta
  <2>6. Wait(k)' = IF k \in pressed' THEN DEBOUNCE ELSE 2 * DEBOUNCE + MaxDelay - 1
      BY DEF Wait
  <2>7. /\ DEBOUNCE <= 2 * DEBOUNCE + MaxDelay - 1 /\ DEBOUNCE # 0
        /\ Wait(k) = IF k \in pressed THEN DEBOUNCE ELSE 2 * DEBOUNCE + MaxDelay - 1
    <3>1. MaxDelay \in Nat /\ MaxDelay >= 1 /\ DEBOUNCE \in Nat
        BY <1>4, LagTypes DEF IInv
    <3>. QED BY <3>1 DEF Wait
  <2>8. CASE k \in starts
    <3>1. k \notin Delta(read, raw) => quiet[k] <= DEBOUNCE + MaxDelay - 1
      <4>. SUFFICES ASSUME k \notin Delta(read, raw) PROVE quiet[k] <= DEBOUNCE + MaxDelay - 1
          OBVIOUS
      <4>1. k \in Lagging /\ counter[k] # 0 /\ Counted[k] = 0
          BY <1>4, <2>5, <2>8
      <4>2. k \in pressed
          BY <1>4, <2>2, <4>1
      <4>. QED BY <1>4, <2>7, <4>1, <4>2
    <3>. QED BY <1>2, <1>4, <2>3, <2>4, <2>6, <2>7, <2>8, <3>1
  <2>9. CASE k \notin starts
    <3>1. Counted[k] # 0
      <4>1. CASE transfer
          BY <2>1, <2>9, <4>1
      <4>2. CASE ~transfer
        <5>1. k \in Lagging /\ counter[k] # 0
            BY <1>4, <2>5, <4>2 DEF Delta
        <5>. QED BY <1>4, <2>2, <4>2, <5>1
      <4>. QED BY <4>1, <4>2
    <3>2. CASE k \in Delta(read, raw)
        BY <1>2, <1>4, <2>3, <2>6, <2>7, <2>9, <3>1, <3>2
    <3>3. CASE k \notin Delta(read, raw)
      <4>1. quiet[k] + counter[k] <= Wait(k) + since /\ Wait(k)' = Wait(k)
          BY <1>4, <2>4, <2>5, <2>6, <2>7, <2>9, <3>3
      <4>2. Wait(k) \in Int /\ quiet'[k] = quiet[k] /\ counter'[k] = Counted[k]
          BY <1>2, <1>4, <2>3, <2>7, <2>9, <3>3
      <4>. QED BY <1>2, <1>4, <3>1, <4>1, <4>2
    <3>. QED BY <3>2, <3>3
  <2>. QED BY <2>8, <2>9
<1>9. \A k \in Lagging' : k \in Key
    BY DEF IInv, Lagging, Delta, TypeOK
<1>10. AsymLag'
    BY <1>6, <1>7, <1>8, <1>9 DEF AsymLag, Ends
<1>11. Clock'
    BY <1>2, <1>3 DEF Clock, Asym
<1>. QED BY <1>2, <1>10, <1>11 DEF LagInv, NoLag, GlobalLag, RowLag, KeyLag, LockLag, Eager, Asym

-----------------------------------------------------------------------------
LEMMA InitLag == Init => LagInv
<1>. SUFFICES ASSUME Init PROVE LagInv
    OBVIOUS
<1>1. Lagging = {} /\ raw = {} /\ age = since /\ ~need_update
    BY DEF Init, Lagging, Delta
<1>2. \A k \in Key : counter[k] = 0
    BY DEF Init
<1>. QED BY <1>1, <1>2 DEF LagInv, Clock, NoLag, GlobalLag, RowLag, KeyLag, LockLag, AsymLag

(* Time passes alike for the histories and for since.                        *)
LEMMA MillisecondLag == ASSUME IInv, LagInv, Millisecond, IInv' PROVE LagInv'
<1>1. UNCHANGED <<algorithm, raw, cooked, counter, pressed, need_update>>
    BY DEF Millisecond, algo
<1>2. /\ DEBOUNCE \in Nat /\ age \in Nat /\ since \in Nat /\ since' = since + 1
      /\ age' = IF age < DEBOUNCE THEN age + 1 ELSE DEBOUNCE
    BY Types, LagTypes DEF IInv, Millisecond, Older, MaxAge
<1>3. ASSUME NEW k \in Key
      PROVE  /\ quiet[k] \in Nat /\ held[k] \in Nat /\ counter[k] \in Nat
             /\ quiet'[k] \in Nat /\ quiet'[k] <= quiet[k] + 1
             /\ held'[k] \in Nat /\ held'[k] <= held[k] + 1
  <2>1. quiet'[k] = Older(quiet[k], MaxQuiet) /\ held'[k] = Older(held[k], DEBOUNCE)
      BY DEF Millisecond
  <2>2. /\ quiet[k] \in Nat /\ held[k] \in Nat /\ counter[k] \in Nat /\ MaxDelay \in Nat
        /\ quiet[k] <= MaxQuiet /\ held[k] <= DEBOUNCE
        /\ MaxQuiet \in Nat
    <3>1. MaxDelay \in Nat /\ MaxQuiet \in Nat
        BY Types DEF IInv, MaxQuiet
    <3>. QED BY <1>2, <3>1, Types DEF IInv, TypeOK
  <2>. QED BY <1>2, <2>1, <2>2 DEF Older
<1>4. /\ Lagging' = Lagging /\ Eager' = Eager /\ Asym' = Asym
      /\ \A k \in Key : Unit(k)' = Unit(k) /\ Unit(k) \in Key /\ RowOf[k] \in Key
      /\ \A k \in Key : Wait(k)' = Wait(k) /\ Wait(k) \in Int
      /\ \A k \in Lagging : k \in Key
  <2>1. MaxDelay \in Nat /\ \A k \in Key : Unit(k) \in Key /\ RowOf[k] \in Key
      BY Types DEF IInv
  <2>. QED BY <1>1, <1>2, <2>1, LagTypes DEF IInv, Lagging, Delta, Eager, Asym, Unit, Wait
<1>5. ASSUME NEW k \in Key, NEW u \in Key, NEW d \in Int
      PROVE  /\ Ends(quiet[k], counter[u], d) => Ends(quiet[k], counter[u], d)'
             /\ Ends(held[k], counter[u], d) => Ends(held[k], counter[u], d)'
  <2>1. counter'[u] = counter[u] /\ counter[u] \in Nat
      BY <1>1, <1>3
  <2>. QED BY <1>2, <1>3, <2>1 DEF Ends
<1>6. Clock'
    BY <1>1, <1>2 DEF LagInv, Clock
<1>7. NoLag' /\ GlobalLag'
    BY <1>1, <1>2, <1>3, <1>4 DEF LagInv, NoLag, GlobalLag
<1>8. RowLag'
    BY <1>1, <1>2, <1>4, <1>5 DEF LagInv, RowLag
<1>9. KeyLag' /\ LockLag'
    BY <1>1, <1>2, <1>4, <1>5 DEF LagInv, KeyLag, LockLag
<1>10. AsymLag'
    BY <1>1, <1>2, <1>4, <1>5 DEF LagInv, AsymLag
<1>. QED BY <1>6, <1>7, <1>8, <1>9, <1>10 DEF LagInv

LEMMA StepLag ==
    ASSUME IInv, LagInv, [Next]_vars, IInv' PROVE LagInv'
<1>1. CASE Millisecond
    BY <1>1, MillisecondLag
<1>2. ASSUME NEW read \in SUBSET Key, matrix_scan(read) PROVE LagInv'
  <2>1. Scanned(read) /\ debounce(read)
      BY <1>2 DEF matrix_scan, Scanned
  <2>. QED BY <2>1, NoneLag, DeferGlobalLag, DeferRowLag, DeferKeyLag, EagerLag, AsymEagerLag
       DEF debounce, Eager, Asym
<1>3. CASE UNCHANGED vars
  <2>1. UNCHANGED <<algorithm, raw, cooked, counter, pressed, need_update, age, since, quiet, held>>
      BY <1>3 DEF vars, algo, history
  <2>. QED BY <2>1 DEF LagInv, Clock, NoLag, GlobalLag, RowLag, KeyLag, LockLag, AsymLag, Ends, Wait,
           Lagging, Delta, Unit, Eager, Asym
<1>. QED BY <1>1, <1>2, <1>3 DEF Next

LEMMA LagAlways == Spec => []LagInv
<1>1. IInv /\ LagInv /\ [Next]_vars /\ IInv' => LagInv'
    BY StepLag
<1>. QED BY <1>1, InitLag, Inductive, PTL DEF Spec

-----------------------------------------------------------------------------
LEMMA LagMeansAtOnce == IInv /\ LagInv => EagerAtOnce
<1>. SUFFICES ASSUME IInv, LagInv, since = 0 PROVE EagerAtOnce
    BY DEF EagerAtOnce
<1>1. ASSUME Eager, NEW k \in Lagging PROVE \E j \in Peers(k) : held[j] < DEBOUNCE
  <2>1. k \in Key /\ Unit(k) \in Key /\ counter[Unit(k)] # 0 /\ counter[Unit(k)] \in Nat
      BY <1>1, Types, LagTypes DEF IInv, LagInv, KeyLag, Ends
  <2>2. PICK j \in Key : Unit(j) = Unit(k) /\ held[j] + counter[Unit(k)] <= DEBOUNCE
      BY <1>1, <2>1, LagTypes DEF IInv, LagInv, LockLag, Ends
  <2>3. j \in Peers(k)
      BY <1>1, <2>2 DEF Peers, Eager
  <2>. QED BY <2>1, <2>2, <2>3, Types DEF IInv
<1>2. Asym => raw \subseteq cooked
    BY DEF LagInv, AsymLag
<1>. QED BY <1>1, <1>2 DEF EagerAtOnce, Asym, Lagging

(* DEBOUNCE 0 never ends a countdown of sym_defer_pr.c, which does not fall  *)
(* back to none.c as the others do.                                          *)
Reports == DEBOUNCE > 0 \/ "sym_defer_pr" \notin Algorithms

LEMMA LagMeansCatchesUp == ASSUME Reports, IInv, LagInv PROVE CatchesUp
<1>. SUFFICES ASSUME since = 0, NEW k \in Lagging PROVE \E j \in Peers(k) : quiet[j] < Latency
    BY DEF CatchesUp, Lagging
<1>1. /\ k \in Key /\ Unit(k) \in Key /\ RowOf[k] \in Key /\ DEBOUNCE \in Nat /\ age \in Nat
      /\ \A j \in Key : quiet[j] \in Nat /\ counter[j] \in Nat
      /\ MaxDelay \in Nat /\ MaxDelay >= 1 /\ MaxQuiet = 2 * DEBOUNCE + MaxDelay
      /\ \A j \in Key : j \in Key /\ Unit(j) = Unit(k) => j \in Peers(k)
    BY Types, LagTypes DEF IInv, Peers
<1>2. Latency = IF Asym THEN MaxQuiet ELSE DEBOUNCE
    BY DEF Latency, Asym
<1>3. algorithm \in {"none", "sym_defer_g", "sym_defer_pr", "sym_defer_pk",
                     "sym_eager_pr", "sym_eager_pk", "asym_eager_defer_pk"}
    BY DebounceAssumption DEF IInv, TypeOK
<1>4. algorithm # "none" /\ (DEBOUNCE = 0 => algorithm = "sym_defer_pr")
    BY DEF LagInv, NoLag
<1>5. CASE algorithm = "sym_defer_g"
  <2>1. age < DEBOUNCE /\ \E j \in Key : quiet[j] <= age
      BY <1>1, <1>4, <1>5 DEF LagInv, GlobalLag
  <2>. QED BY <1>1, <1>2, <1>5, <2>1 DEF Peers, Asym
<1>6. CASE algorithm = "sym_defer_pr"
  <2>1. PICK j \in Key : RowOf[j] = RowOf[k] /\ counter[RowOf[k]] # 0
                         /\ quiet[j] + counter[RowOf[k]] <= DEBOUNCE
      BY <1>1, <1>6 DEF LagInv, RowLag, Ends, Reports, IInv, TypeOK
  <2>2. j \in Peers(k)
      BY <1>1, <1>6, <2>1 DEF Unit
  <2>. QED BY <1>1, <1>2, <1>6, <2>1, <2>2 DEF Asym
<1>7. CASE algorithm = "sym_defer_pk" \/ Eager
  <2>1. counter[Unit(k)] # 0 /\ quiet[k] + counter[Unit(k)] <= DEBOUNCE
      BY <1>1, <1>7 DEF LagInv, KeyLag, Ends
  <2>2. ~Asym /\ k \in Peers(k)
      BY <1>1, <1>7 DEF Asym, Eager
  <2>. QED BY <1>1, <1>2, <2>1, <2>2
<1>8. CASE Asym
  <2>1. Wait(k) <= MaxQuiet /\ Wait(k) \in Int
      BY <1>1 DEF Wait
  <2>2. counter[k] # 0 /\ quiet[k] + counter[k] <= Wait(k) /\ k \in Peers(k)
      BY <1>1, <1>8, <2>1 DEF LagInv, AsymLag, Ends
  <2>. QED BY <1>1, <1>2, <1>8, <2>1, <2>2
<1>. QED BY <1>3, <1>4, <1>5, <1>6, <1>7, <1>8 DEF Eager, Asym

(* Just after a scan an eager algorithm lags behind the switches only where   *)
(* it is locked, and a press never waits for asym_eager_defer_pk: for every   *)
(* matrix, DEBOUNCE and rhythm of the scans.                                  *)
THEOREM EagerReportsAtOnce == Spec => []EagerAtOnce
<1>. QED BY LagAlways, Inductive, LagMeansAtOnce, PTL

(* No algorithm loses a change: a scan leaves a key as its switch is once the *)
(* key, its row or the matrix has been quiet for the algorithm's latency:     *)
(* unless sym_defer_pr.c is built with a DEBOUNCE of 0, which the code allows *)
(* and under which it never reports a key at all.                             *)
THEOREM NoChangeIsLost == ASSUME Reports PROVE Spec => []CatchesUp
<1>1. IInv /\ LagInv => CatchesUp
    BY LagMeansCatchesUp
<1>. QED BY <1>1, LagAlways, Inductive, PTL
=============================================================================
