--------------------------- MODULE DebounceProofs ---------------------------
(* For every matrix, every DEBOUNCE and every rhythm of the scans: a deferring *)
(* algorithm reports only what has been quiet for DEBOUNCE ms, and an eager   *)
(* one reports nothing while it is locked.                                    *)
EXTENDS Debounce, TLAPS

Asym == algorithm = "asym_eager_defer_pk"

(* What a running countdown knows: t is at least the time it has run, when    *)
(* age is the time since it was last counted down.                            *)
Covers(t, c) == t >= DEBOUNCE \/ t + c >= DEBOUNCE + age

(* A locked key, or row, has a countdown that covers the time since its keys  *)
(* were reported; countdowns only run while need_update says so.              *)
LockInv ==
    Eager \/ Asym =>
        \A k \in Key : IF counter[Unit(k)] = 0 THEN Eager => held[k] >= DEBOUNCE
                       ELSE need_update /\ Covers(held[k], counter[Unit(k)])

(* The countdown of a change that is held back covers the time for which its  *)
(* switches have been quiet.                                                  *)
GlobalInv == algorithm = "sym_defer_g" => \A k \in Key : need_update => quiet[k] >= age
RowInv ==
    algorithm = "sym_defer_pr" =>
        \A k \in Key : counter[RowOf[k]] # 0 => Covers(quiet[k], counter[RowOf[k]])
KeyInv ==
    algorithm = "sym_defer_pk" =>
        \A k \in Key : counter[k] # 0 =>
            need_update /\ k \in Delta(raw, cooked) /\ Covers(quiet[k], counter[k])
AsymInv ==
    Asym => \A k \in Key \ pressed : counter[k] # 0 =>
                k \in Delta(raw, cooked) /\ Covers(quiet[k], counter[k])

IInv == TypeOK /\ LockInv /\ GlobalInv /\ RowInv /\ KeyInv /\ AsymInv

(* What a step may change; the two properties are [][...]_vars of these.      *)
LocksOut == \A k \in Key : Changes(k) /\ Locks(k) => \A j \in Peers(k) : held[j] >= DEBOUNCE
NeedsQuiet == \A k \in Key : Changes(k) /\ Defers(k) => \A j \in Peers(k) : quiet'[j] >= DEBOUNCE

(* matrix_scan() but for the algorithm.                                       *)
Scanned(read) ==
    /\ raw' = read /\ since' = 0
    /\ quiet' = [k \in Key |-> IF k \in Delta(read, raw) THEN 0 ELSE quiet[k]]
    /\ held' = [k \in Key |-> IF k \in Delta(cooked, cooked') THEN 0 ELSE held[k]]
    /\ UNCHANGED algorithm

Result == IInv' /\ LocksOut /\ NeedsQuiet

-----------------------------------------------------------------------------
LEMMA Types ==
    ASSUME TypeOK
    PROVE  /\ DEBOUNCE \in Nat /\ MaxDelay \in Nat /\ age \in Nat /\ age <= DEBOUNCE
           /\ elapsed_time \in Nat /\ elapsed_time <= DEBOUNCE
           /\ \A k \in Key : /\ counter[k] \in Nat /\ counter[k] <= DEBOUNCE
                             /\ held[k] \in Nat /\ held[k] <= DEBOUNCE
                             /\ quiet[k] \in Nat /\ RowOf[k] \in Key /\ Unit(k) \in Key
<1>1. DEBOUNCE \in Nat /\ MaxDelay \in Nat /\ \A k \in Key : RowOf[k] \in Key
    BY DebounceAssumption
<1>2. age \in Nat /\ age <= DEBOUNCE
    BY <1>1 DEF TypeOK, MaxAge
<1>3. ASSUME NEW k \in Key
      PROVE  /\ counter[k] \in Nat /\ counter[k] <= DEBOUNCE
             /\ held[k] \in Nat /\ held[k] <= DEBOUNCE
    BY <1>1, <1>3 DEF TypeOK
<1>4. ASSUME NEW k \in Key PROVE quiet[k] \in Nat
    BY <1>1, <1>4 DEF TypeOK, MaxQuiet
<1>. QED BY <1>1, <1>2, <1>3, <1>4 DEF elapsed_time, Unit

(* A countdown stays in its range.                                            *)
LEMMA CountedType ==
    ASSUME TypeOK
    PROVE  \A k \in Key : Counted[k] \in 0..DEBOUNCE
<1>. SUFFICES ASSUME NEW k \in Key PROVE Counted[k] \in 0..DEBOUNCE
    OBVIOUS
<1>1. Counted[k] = IF counter[k] <= elapsed_time THEN 0 ELSE counter[k] - elapsed_time
    BY DEF Counted
<1>2. /\ DEBOUNCE \in Nat /\ elapsed_time \in Nat
      /\ counter[k] \in Nat /\ counter[k] <= DEBOUNCE
    BY Types
<1>. QED BY <1>1, <1>2

(* A countdown that has ended has covered DEBOUNCE ms; one that goes on keeps *)
(* covering the time since, and the flag that lets it run.                    *)
LEMMA RunsDown ==
    ASSUME TypeOK, NEW u \in Key, NEW t \in Nat,
           counter[u] # 0 => need_update /\ Covers(t, counter[u])
    PROVE  /\ counter[u] # 0 /\ Counted[u] = 0 => t >= DEBOUNCE
           /\ Counted[u] # 0 => /\ counter[u] # 0 /\ need_update /\ CountsOn
                                /\ t >= DEBOUNCE \/ t + Counted[u] >= DEBOUNCE
           /\ u \in Expired <=> counter[u] # 0 /\ Counted[u] = 0
<1>1. /\ DEBOUNCE \in Nat /\ age \in Nat /\ counter[u] \in Nat
      /\ elapsed_time \in Nat /\ elapsed_time = IF need_update THEN age ELSE 0
    BY Types DEF elapsed_time
<1>2. Counted[u] = IF counter[u] <= elapsed_time THEN 0 ELSE counter[u] - elapsed_time
    BY DEF Counted
<1>3. CASE counter[u] = 0
    BY <1>1, <1>2, <1>3 DEF Expired
<1>4. CASE counter[u] # 0
  <2>1. need_update /\ elapsed_time = age
      BY <1>1, <1>4
  <2>2. Counted[u] # 0 => CountsOn
      BY <2>1 DEF CountsOn
  <2>. QED BY <1>1, <1>2, <1>4, <2>1, <2>2 DEF Covers, Expired
<1>. QED BY <1>3, <1>4

(* What the scan does to the raw matrix and the histories.                    *)
LEMMA ScannedTypes ==
    ASSUME TypeOK, NEW read \in SUBSET Key, Scanned(read), cooked' \in SUBSET Key
    PROVE  /\ raw' \in SUBSET Key /\ since' \in 0..MaxDelay /\ algorithm' = algorithm
           /\ quiet' \in [Key -> 0..MaxQuiet] /\ held' \in [Key -> 0..DEBOUNCE]
           /\ \A k \in Key : quiet'[k] = IF k \in Delta(read, raw) THEN 0 ELSE quiet[k]
           /\ \A k \in Key : held'[k] = IF Changes(k) THEN 0 ELSE held[k]
<1>1. DEBOUNCE \in Nat /\ MaxDelay \in Nat /\ MaxQuiet \in Nat
    BY Types DEF MaxQuiet
<1>2. quiet' \in [Key -> 0..MaxQuiet]
    BY <1>1 DEF TypeOK, Scanned
<1>3. held' \in [Key -> 0..DEBOUNCE]
    BY <1>1 DEF TypeOK, Scanned
<1>. QED BY <1>1, <1>2, <1>3 DEF Scanned, Changes

-----------------------------------------------------------------------------
LEMMA NoneResult ==
    ASSUME IInv, NEW read \in SUBSET Key, Scanned(read), none(read),
           algorithm = "none" \/ (DEBOUNCE = 0 /\ algorithm # "sym_defer_pr")
    PROVE  Result
<1>1. cooked' = read /\ UNCHANGED <<counter, pressed, need_update, age>>
    BY DEF none, algo
<1>2. TypeOK'
    BY <1>1, ScannedTypes DEF IInv, TypeOK, MaxAge, MaxQuiet
<1>3. CASE algorithm = "none"
    BY <1>1, <1>2, <1>3, ScannedTypes DEF Result, IInv, LockInv, GlobalInv, RowInv, KeyInv, AsymInv,
       Asym, Eager, LocksOut, NeedsQuiet, Locks, Defers
<1>4. CASE DEBOUNCE = 0 /\ algorithm # "sym_defer_pr"
  <2>1. \A k \in Key : counter'[k] = 0 /\ held'[k] >= 0 /\ quiet'[k] >= 0 /\ held[k] >= 0
      BY <1>1, <1>2, <1>4, Types DEF IInv, TypeOK, MaxQuiet
  <2>2. age' = 0
      BY <1>1, <1>4, Types DEF IInv
  <2>3. \A k \in Key : Unit(k)' \in Key
      BY DebounceAssumption DEF Unit
  <2>4. algorithm' = algorithm
      BY DEF Scanned
  <2>5. LockInv' /\ GlobalInv'
      BY <1>4, <2>1, <2>2, <2>3 DEF LockInv, GlobalInv
  <2>6. RowInv' /\ KeyInv' /\ AsymInv'
      BY <1>4, <2>1, <2>4 DEF RowInv, KeyInv, AsymInv
  <2>7. LocksOut /\ NeedsQuiet
      BY <1>4, <2>1 DEF LocksOut, NeedsQuiet, Peers
  <2>. QED BY <1>2, <2>5, <2>6, <2>7 DEF Result, IInv
<1>. QED BY <1>3, <1>4

(* sym_defer_g: one time stamp for the whole matrix.                          *)
LEMMA DeferGlobalResult ==
    ASSUME IInv, NEW read \in SUBSET Key, Scanned(read), sym_defer_g(read),
           DEBOUNCE > 0, algorithm = "sym_defer_g"
    PROVE  Result
<1>. DEFINE time == IF read # raw THEN 0 ELSE age
            debouncing == need_update \/ read # raw
            push == debouncing /\ time >= DEBOUNCE
<1>1. /\ cooked' = IF push THEN read ELSE cooked
      /\ need_update' = (debouncing /\ ~push) /\ age' = time
      /\ UNCHANGED <<counter, pressed>>
    BY DEF sym_defer_g
<1>2. cooked' \in SUBSET Key /\ need_update' \in BOOLEAN /\ age' \in 0..MaxAge
    BY <1>1, Types DEF IInv, TypeOK, MaxAge
<1>3. TypeOK'
    BY <1>1, <1>2, ScannedTypes DEF IInv, TypeOK, MaxAge, MaxQuiet
<1>4. ASSUME NEW k \in Key, need_update' PROVE quiet'[k] >= age'
  <2>1. CASE read # raw
      BY <1>1, <1>3, <2>1, Types DEF TypeOK, MaxQuiet
  <2>2. CASE read = raw
    <3>1. need_update /\ age' = age /\ quiet'[k] = quiet[k]
        BY <1>1, <1>2, <1>4, <2>2, ScannedTypes DEF IInv, Delta
    <3>. QED BY <3>1 DEF IInv, GlobalInv
  <2>. QED BY <2>1, <2>2
<1>5. ASSUME NEW k \in Key, Changes(k), NEW j \in Key PROVE quiet'[j] >= DEBOUNCE
  <2>1. push
      BY <1>1, <1>5 DEF Changes, Delta
  <2>2. read = raw /\ need_update /\ age >= DEBOUNCE
      BY <2>1, Types DEF IInv
  <2>3. quiet'[j] = quiet[j] /\ quiet[j] >= age /\ quiet[j] \in Nat /\ age \in Nat /\ DEBOUNCE \in Nat
      BY <1>2, <2>2, ScannedTypes, Types DEF IInv, GlobalInv, Delta
  <2>. QED BY <2>2, <2>3
<1>6. GlobalInv'
    BY <1>4 DEF GlobalInv
<1>7. algorithm' = algorithm
    BY DEF Scanned
<1>8. LockInv' /\ RowInv' /\ KeyInv' /\ AsymInv'
    BY <1>7 DEF LockInv, RowInv, KeyInv, AsymInv, Eager, Asym
<1>9. LocksOut
    BY DEF LocksOut, Locks, Eager
<1>10. NeedsQuiet
    BY <1>5 DEF NeedsQuiet, Peers
<1>. QED BY <1>3, <1>6, <1>8, <1>9, <1>10 DEF Result, IInv

(* sym_defer_pr: a countdown for each row, wound up by each of its changes.   *)
LEMMA DeferRowResult ==
    ASSUME IInv, NEW read \in SUBSET Key, Scanned(read), sym_defer_pr(read),
           algorithm = "sym_defer_pr"
    PROVE  Result
<1>. DEFINE moved(u)  == \E k \in Delta(read, raw) : RowOf[k] = u
            expired(u) == ~moved(u) /\ counter[u] # 0 /\ counter[u] <= age
<1>1. /\ counter' = [u \in Key |-> IF moved(u) THEN DEBOUNCE
                                   ELSE IF counter[u] > age THEN counter[u] - age ELSE 0]
      /\ cooked' = {k \in Key : k \in IF expired(RowOf[k]) THEN read ELSE cooked}
      /\ age' = 0 /\ UNCHANGED <<pressed, need_update>>
    BY DEF sym_defer_pr
<1>2. ASSUME NEW u \in Key
      PROVE  /\ counter'[u] = IF moved(u) THEN DEBOUNCE
                              ELSE IF counter[u] > age THEN counter[u] - age ELSE 0
             /\ counter'[u] \in 0..DEBOUNCE
  <2>1. counter'[u] = IF moved(u) THEN DEBOUNCE
                      ELSE IF counter[u] > age THEN counter[u] - age ELSE 0
      BY <1>1
  <2>2. DEBOUNCE \in Nat /\ age \in Nat /\ counter[u] \in Nat /\ counter[u] <= DEBOUNCE
      BY Types DEF IInv
  <2>. HIDE DEF moved
  <2>. QED BY <2>1, <2>2
<1>3. cooked' \in SUBSET Key /\ counter' \in [Key -> 0..DEBOUNCE] /\ age' \in 0..MaxAge
  <2>1. cooked' \in SUBSET Key
      BY <1>1
  <2>2. age' \in 0..MaxAge
      BY <1>1, Types DEF IInv, MaxAge
  <2>3. DOMAIN counter' = Key /\ counter' = [u \in Key |-> counter'[u]]
      BY <1>1
  <2>. QED BY <1>2, <2>1, <2>2, <2>3
<1>4. TypeOK'
    BY <1>1, <1>3, ScannedTypes DEF IInv, TypeOK, MaxAge, MaxQuiet
<1>5. ASSUME NEW k \in Key, counter'[RowOf[k]] # 0
      PROVE  quiet'[k] >= DEBOUNCE \/ quiet'[k] + counter'[RowOf[k]] >= DEBOUNCE + age'
  <2>1. RowOf[k] \in Key /\ DEBOUNCE \in Nat /\ age \in Nat /\ age' = 0 /\ quiet[k] \in Nat
        /\ counter[RowOf[k]] \in Nat
      BY <1>1, Types DEF IInv
  <2>2. quiet'[k] \in Nat
      BY <1>4, Types DEF TypeOK, MaxQuiet
  <2>3. CASE moved(RowOf[k])
      BY <1>2, <2>1, <2>2, <2>3
  <2>4. CASE ~moved(RowOf[k])
    <3>1. quiet'[k] = quiet[k]
        BY <1>3, <2>4, ScannedTypes DEF IInv
    <3>2. counter[RowOf[k]] > age /\ counter'[RowOf[k]] = counter[RowOf[k]] - age
        BY <1>2, <1>5, <2>1, <2>4
    <3>3. Covers(quiet[k], counter[RowOf[k]])
        BY <2>1, <3>2 DEF IInv, RowInv
    <3>. QED BY <2>1, <3>1, <3>2, <3>3 DEF Covers
  <2>. QED BY <2>3, <2>4
<1>6. ASSUME NEW k \in Key, Changes(k), NEW j \in Key, RowOf[j] = RowOf[k]
      PROVE  quiet'[j] >= DEBOUNCE
  <2>1. expired(RowOf[k])
      BY <1>1, <1>6 DEF Changes, Delta
  <2>2. quiet'[j] = quiet[j]
      BY <1>3, <1>6, <2>1, ScannedTypes DEF IInv
  <2>3. Covers(quiet[j], counter[RowOf[j]]) /\ counter[RowOf[j]] <= age
      BY <1>6, <2>1 DEF IInv, RowInv
  <2>4. RowOf[j] \in Key /\ DEBOUNCE \in Nat /\ age \in Nat /\ quiet[j] \in Nat /\ counter[RowOf[j]] \in Nat
      BY Types DEF IInv
  <2>. QED BY <2>2, <2>3, <2>4 DEF Covers
<1>7. algorithm' = algorithm
    BY DEF Scanned
<1>8. RowInv'
    BY <1>5 DEF RowInv, Covers
<1>9. LockInv' /\ GlobalInv' /\ KeyInv' /\ AsymInv'
    BY <1>7 DEF LockInv, GlobalInv, KeyInv, AsymInv, Eager, Asym
<1>10. LocksOut
    BY DEF LocksOut, Locks, Eager
<1>11. NeedsQuiet
    BY <1>6 DEF NeedsQuiet, Peers, Unit
<1>. QED BY <1>4, <1>8, <1>9, <1>10, <1>11 DEF Result, IInv

(* sym_defer_pk: a countdown for each key that differs from what is reported. *)
LEMMA DeferKeyResult ==
    ASSUME IInv, NEW read \in SUBSET Key, Scanned(read), sym_defer_pk(read),
           DEBOUNCE > 0, algorithm = "sym_defer_pk"
    PROVE  Result
<1>. DEFINE kept    == (cooked \ Expired) \cup (read \cap Expired)
            delta   == Delta(read, kept)
            changed == read # raw
<1>1. /\ cooked' = kept
      /\ counter' = IF changed THEN start_debounce_counters(Counted, delta) ELSE Counted
      /\ need_update' = (CountsOn \/ (changed /\ \E k \in delta : Counted[k] = 0))
      /\ age' = AgeAfter(changed) /\ UNCHANGED pressed
    BY DEF sym_defer_pk
<1>2. ASSUME NEW k \in Key
      PROVE  /\ Counted[k] \in Nat /\ Counted[k] <= DEBOUNCE /\ DEBOUNCE \in Nat
             /\ counter'[k] = IF ~changed THEN Counted[k] ELSE IF k \notin delta THEN 0
                              ELSE IF Counted[k] = 0 THEN DEBOUNCE ELSE Counted[k]
  <2>1. Counted[k] \in 0..DEBOUNCE /\ DEBOUNCE \in Nat
      BY CountedType, Types DEF IInv
  <2>. QED BY <1>1, <2>1 DEF start_debounce_counters
<1>3. counter' \in [Key -> 0..DEBOUNCE]
  <2>1. counter' = [k \in Key |-> counter'[k]]
      BY <1>1 DEF start_debounce_counters, Counted
  <2>2. \A k \in Key : counter'[k] \in 0..DEBOUNCE
      BY <1>2
  <2>. QED BY <2>1, <2>2
<1>4. cooked' \in SUBSET Key /\ need_update' \in BOOLEAN /\ age' \in 0..MaxAge
  <2>1. need_update' \in BOOLEAN
      BY <1>1 DEF CountsOn, IInv, TypeOK
  <2>2. age' \in 0..MaxAge
      BY <1>1, Types DEF IInv, AgeAfter, MaxAge
  <2>3. cooked' \in SUBSET Key
      BY <1>1 DEF IInv, TypeOK, Expired
  <2>. QED BY <2>1, <2>2, <2>3
<1>5. TypeOK'
    BY <1>1, <1>3, <1>4, ScannedTypes DEF IInv, TypeOK, MaxAge, MaxQuiet
<1>6. ASSUME NEW k \in Key
      PROVE  /\ counter[k] # 0 /\ Counted[k] = 0 => quiet[k] >= DEBOUNCE
             /\ Counted[k] # 0 => /\ counter[k] # 0 /\ need_update /\ CountsOn
                                  /\ quiet[k] >= DEBOUNCE \/ quiet[k] + Counted[k] >= DEBOUNCE
             /\ k \in Expired <=> counter[k] # 0 /\ Counted[k] = 0
             /\ counter[k] # 0 => k \in Delta(raw, cooked)
  <2>1. quiet[k] \in Nat /\ (counter[k] # 0 => need_update /\ Covers(quiet[k], counter[k]))
      BY Types DEF IInv, KeyInv
  <2>. QED BY <2>1, RunsDown DEF IInv, KeyInv
<1>7. ASSUME NEW k \in Key, counter'[k] # 0
      PROVE  /\ need_update' /\ k \in Delta(raw', cooked')
             /\ quiet'[k] >= DEBOUNCE \/ quiet'[k] + counter'[k] >= DEBOUNCE + age'
  <2>1. quiet'[k] = IF k \in Delta(read, raw) THEN 0 ELSE quiet[k]
      BY <1>4, ScannedTypes DEF IInv
  <2>2. quiet[k] \in Nat /\ raw' = read
      BY Types DEF IInv, Scanned
  <2>3. CASE changed /\ k \in delta /\ Counted[k] = 0
    <3>1. need_update' /\ age' = 0 /\ counter'[k] = DEBOUNCE
        BY <1>1, <1>2, <2>3 DEF AgeAfter
    <3>. QED BY <1>1, <1>2, <2>1, <2>2, <2>3, <3>1 DEF Delta
  <2>4. CASE Counted[k] # 0
    <3>1. counter'[k] = Counted[k] /\ (changed => k \in delta)
        BY <1>2, <1>7, <2>4
    <3>2. need_update' /\ age' = 0
        BY <1>1, <1>6, <2>4 DEF AgeAfter
    <3>3. k \notin Expired /\ k \in Delta(raw, cooked)
        BY <1>6, <2>4
    <3>4. k \in Delta(read, cooked') /\ k \notin Delta(read, raw)
        BY <1>1, <3>1, <3>3 DEF Delta
    <3>. QED BY <1>2, <1>6, <2>1, <2>2, <2>4, <3>1, <3>2, <3>4
  <2>. QED BY <1>2, <1>7, <2>3, <2>4
<1>8. ASSUME NEW k \in Key, Changes(k) PROVE quiet'[k] >= DEBOUNCE
  <2>1. k \in Expired /\ k \in Delta(read, cooked)
      BY <1>1, <1>8 DEF Changes, Delta
  <2>2. quiet[k] >= DEBOUNCE /\ k \in Delta(raw, cooked)
      BY <1>6, <2>1
  <2>. QED BY <1>4, <2>1, <2>2, ScannedTypes DEF Delta, IInv
<1>9. algorithm' = algorithm
    BY DEF Scanned
<1>10. KeyInv'
    BY <1>7 DEF KeyInv, Covers
<1>11. LockInv' /\ GlobalInv' /\ RowInv' /\ AsymInv'
    BY <1>9 DEF LockInv, GlobalInv, RowInv, AsymInv, Eager, Asym
<1>12. LocksOut
    BY DEF LocksOut, Locks, Eager
<1>13. NeedsQuiet
    BY <1>8 DEF NeedsQuiet, Peers, Unit
<1>. QED BY <1>5, <1>10, <1>11, <1>12, <1>13 DEF Result, IInv

(* sym_eager_pr and sym_eager_pk: a countdown locks the row or the key.       *)
LEMMA EagerResult ==
    ASSUME IInv, NEW read \in SUBSET Key, Scanned(read), sym_eager(read), DEBOUNCE > 0, Eager
    PROVE  Result
<1>. DEFINE transfer == read # raw \/ Expired # {}
            flips    == IF transfer THEN Flips(read) ELSE {}
<1>1. /\ cooked' = Delta(cooked, flips)
      /\ counter' = [u \in Key |-> IF \E k \in flips : Unit(k) = u THEN DEBOUNCE ELSE Counted[u]]
      /\ need_update' = (CountsOn \/ flips # {})
      /\ age' = AgeAfter(transfer) /\ UNCHANGED pressed
    BY DEF sym_eager
<1>2. flips \subseteq Key /\ \A k \in flips : Counted[Unit(k)] = 0
    BY DEF Flips, Delta, IInv, TypeOK
<1>3. \A k \in Key : Changes(k) <=> k \in flips
    BY <1>1, <1>2 DEF Changes, Delta
<1>4. cooked' \in SUBSET Key /\ need_update' \in BOOLEAN /\ age' \in 0..MaxAge
  <2>1. need_update' \in BOOLEAN
      BY <1>1 DEF CountsOn, IInv, TypeOK
  <2>2. age' \in 0..MaxAge
      BY <1>1, Types DEF IInv, AgeAfter, MaxAge
  <2>3. cooked' \in SUBSET Key
      BY <1>1, <1>2 DEF IInv, TypeOK, Delta
  <2>. QED BY <2>1, <2>2, <2>3
<1>5. counter' \in [Key -> 0..DEBOUNCE]
  <2>1. DEBOUNCE \in 0..DEBOUNCE
      BY Types DEF IInv
  <2>. QED BY <1>1, <2>1, CountedType DEF IInv
<1>6. TypeOK'
    BY <1>1, <1>4, <1>5, ScannedTypes DEF IInv, TypeOK, MaxAge, MaxQuiet
<1>7. algorithm' = algorithm /\ \A k \in Key : Unit(k)' = Unit(k) /\ Unit(k) \in Key
    BY Types DEF Scanned, Unit, IInv
<1>8. ASSUME NEW k \in Key
      PROVE  /\ Counted[Unit(k)] = 0 => held[k] >= DEBOUNCE
             /\ Counted[Unit(k)] # 0 =>
                    /\ need_update /\ CountsOn
                    /\ held[k] >= DEBOUNCE \/ held[k] + Counted[Unit(k)] >= DEBOUNCE
  <2>1. held[k] \in Nat /\ Unit(k) \in Key
      BY Types DEF IInv
  <2>2. IF counter[Unit(k)] = 0 THEN held[k] >= DEBOUNCE
        ELSE need_update /\ Covers(held[k], counter[Unit(k)])
      BY DEF IInv, LockInv
  <2>. QED BY <2>1, <2>2, RunsDown DEF IInv
<1>9. ASSUME NEW k \in Key, k \in flips, NEW j \in Key, Unit(j) = Unit(k)
      PROVE  held[j] >= DEBOUNCE
    BY <1>2, <1>8, <1>9
<1>10. ASSUME NEW k \in Key
       PROVE  IF counter'[Unit(k)] = 0 THEN held'[k] >= DEBOUNCE
              ELSE /\ need_update'
                   /\ held'[k] >= DEBOUNCE \/ held'[k] + counter'[Unit(k)] >= DEBOUNCE + age'
  <2>1. /\ DEBOUNCE \in Nat /\ held[k] \in Nat /\ Unit(k) \in Key
        /\ Counted[Unit(k)] \in Nat
      BY Types, CountedType DEF IInv
  <2>2. held'[k] = IF k \in flips THEN 0 ELSE held[k]
      BY <1>3, <1>4, ScannedTypes DEF IInv
  <2>3. CASE \E j \in flips : Unit(j) = Unit(k)
    <3>1. counter'[Unit(k)] = DEBOUNCE /\ need_update' /\ age' = 0
        BY <1>1, <2>1, <2>3 DEF AgeAfter
    <3>. QED BY <2>1, <2>2, <3>1
  <2>4. CASE ~\E j \in flips : Unit(j) = Unit(k)
    <3>1. counter'[Unit(k)] = Counted[Unit(k)] /\ held'[k] = held[k]
        BY <1>1, <2>1, <2>2, <2>4
    <3>2. need_update => age' = 0
        BY <1>1 DEF AgeAfter
    <3>3. CASE Counted[Unit(k)] = 0
        BY <1>8, <3>1, <3>3
    <3>4. CASE Counted[Unit(k)] # 0
      <4>1. /\ need_update /\ CountsOn
            /\ held[k] >= DEBOUNCE \/ held[k] + Counted[Unit(k)] >= DEBOUNCE
          BY <1>8, <3>4
      <4>2. need_update' /\ age' = 0
          BY <1>1, <3>2, <4>1
      <4>. QED BY <2>1, <3>1, <3>4, <4>1, <4>2
    <3>. QED BY <3>3, <3>4
  <2>. QED BY <2>3, <2>4
<1>11. LockInv'
    BY <1>7, <1>10 DEF LockInv, Covers
<1>12. GlobalInv' /\ RowInv' /\ KeyInv' /\ AsymInv'
    BY <1>7 DEF GlobalInv, RowInv, KeyInv, AsymInv, Eager, Asym
<1>13. LocksOut
    BY <1>3, <1>9 DEF LocksOut, Peers, Eager
<1>14. NeedsQuiet
    BY DEF NeedsQuiet, Defers, Eager
<1>. QED BY <1>6, <1>11, <1>12, <1>13, <1>14 DEF Result, IInv

(* asym_eager_defer_pk: a countdown for each key, as a lock after a press and *)
(* to hold a release back.                                                    *)
LEMMA AsymResult ==
    ASSUME IInv, NEW read \in SUBSET Key, Scanned(read), asym_eager_defer_pk(read), DEBOUNCE > 0, Asym
    PROVE  Result
<1>. DEFINE up       == Expired \ pressed
            kept     == (cooked \ up) \cup (read \cap up)
            transfer == read # raw \/ Expired \cap pressed # {}
            delta    == Delta(read, kept)
            starts   == {k \in delta : transfer /\ Counted[k] = 0}
            bounced  == {k \in Key \ delta : transfer /\ k \notin pressed}
<1>1. /\ cooked' = kept \cup (starts \cap read)
      /\ pressed' = (pressed \ starts) \cup (starts \cap read)
      /\ counter' = [k \in Key |-> IF k \in starts THEN DEBOUNCE
                                   ELSE IF k \in bounced THEN 0 ELSE Counted[k]]
      /\ need_update' = (CountsOn \/ starts # {})
      /\ age' = AgeAfter(transfer)
    BY DEF asym_eager_defer_pk
<1>2. delta \subseteq Key /\ starts \subseteq Key /\ kept \subseteq Key
    BY DEF Delta, Expired, IInv, TypeOK
<1>3. cooked' \in SUBSET Key /\ pressed' \in SUBSET Key /\ need_update' \in BOOLEAN /\ age' \in 0..MaxAge
  <2>1. need_update' \in BOOLEAN
      BY <1>1 DEF CountsOn, IInv, TypeOK
  <2>2. age' \in 0..MaxAge
      BY <1>1, Types DEF IInv, AgeAfter, MaxAge
  <2>3. cooked' \in SUBSET Key /\ pressed' \in SUBSET Key
      BY <1>1, <1>2 DEF IInv, TypeOK
  <2>. QED BY <2>1, <2>2, <2>3
<1>4. counter' \in [Key -> 0..DEBOUNCE]
  <2>1. DEBOUNCE \in 0..DEBOUNCE /\ 0 \in 0..DEBOUNCE
      BY Types DEF IInv
  <2>. QED BY <1>1, <2>1, CountedType DEF IInv
<1>5. TypeOK'
    BY <1>1, <1>3, <1>4, ScannedTypes DEF IInv, TypeOK, MaxAge, MaxQuiet
<1>6. algorithm' = algorithm /\ \A k \in Key : Unit(k) = k
    BY DEF Scanned, Unit, Asym
<1>7. ASSUME NEW k \in Key
      PROVE  /\ counter[k] # 0 /\ Counted[k] = 0 => held[k] >= DEBOUNCE
             /\ Counted[k] # 0 => /\ counter[k] # 0 /\ need_update /\ CountsOn
                                  /\ held[k] >= DEBOUNCE \/ held[k] + Counted[k] >= DEBOUNCE
             /\ k \in Expired <=> counter[k] # 0 /\ Counted[k] = 0
  <2>1. held[k] \in Nat /\ (counter[k] # 0 => need_update /\ Covers(held[k], counter[k]))
      BY <1>6, Types DEF IInv, LockInv
  <2>. QED BY <2>1, RunsDown DEF IInv
<1>8. ASSUME NEW k \in Key, k \notin pressed
      PROVE  /\ counter[k] # 0 /\ Counted[k] = 0 => quiet[k] >= DEBOUNCE
             /\ Counted[k] # 0 => quiet[k] >= DEBOUNCE \/ quiet[k] + Counted[k] >= DEBOUNCE
             /\ counter[k] # 0 => k \in Delta(raw, cooked)
  <2>1. /\ quiet[k] \in Nat
        /\ counter[k] # 0 => need_update /\ k \in Delta(raw, cooked) /\ Covers(quiet[k], counter[k])
      BY <1>6, <1>8, Types DEF IInv, AsymInv, LockInv
  <2>. QED BY <2>1, RunsDown DEF IInv
<1>9. ASSUME NEW k \in Key
      PROVE  /\ DEBOUNCE \in Nat /\ Counted[k] \in Nat /\ held[k] \in Nat /\ quiet[k] \in Nat
             /\ counter'[k] = IF k \in starts THEN DEBOUNCE
                              ELSE IF k \in bounced THEN 0 ELSE Counted[k]
             /\ quiet'[k] = IF k \in Delta(read, raw) THEN 0 ELSE quiet[k]
             /\ held'[k] = IF Changes(k) THEN 0 ELSE held[k]
  <2>1. DEBOUNCE \in Nat /\ Counted[k] \in Nat /\ held[k] \in Nat /\ quiet[k] \in Nat
      BY Types, CountedType DEF IInv
  <2>2. /\ quiet'[k] = IF k \in Delta(read, raw) THEN 0 ELSE quiet[k]
        /\ held'[k] = IF Changes(k) THEN 0 ELSE held[k]
      BY <1>3, ScannedTypes DEF IInv
  <2>3. counter'[k] = IF k \in starts THEN DEBOUNCE ELSE IF k \in bounced THEN 0 ELSE Counted[k]
      BY <1>1
  <2>. QED BY <2>1, <2>2, <2>3
(* A key that is down is released only when its countdown ends ...            *)
<1>10. ASSUME NEW k \in Key, Changes(k), k \in cooked
       PROVE  k \in up /\ k \notin read /\ k \notin starts
    BY <1>1, <1>10 DEF Changes, Delta
(* ... and one that is up is pressed only when none runs.                     *)
<1>11. ASSUME NEW k \in Key, Changes(k)
       PROVE  counter'[k] = 0 \/ k \in starts
  <2>1. CASE k \in cooked
    <3>1. k \in up /\ k \notin starts
        BY <1>10, <1>11, <2>1
    <3>2. Counted[k] = 0
        BY <1>7, <3>1
    <3>. QED BY <1>9, <3>1, <3>2
  <2>2. CASE k \notin cooked /\ k \notin starts
    <3>1. k \in up
        BY <1>1, <1>11, <2>2 DEF Changes, Delta
    <3>2. Counted[k] = 0
        BY <1>7, <3>1
    <3>. QED BY <1>9, <2>2, <3>2
  <2>. QED BY <2>1, <2>2
<1>12. starts # {} => age' = 0
    BY <1>1 DEF AgeAfter
<1>13. need_update => age' = 0
    BY <1>1 DEF AgeAfter
<1>14. ASSUME NEW k \in Key, counter'[k] # 0
       PROVE  /\ need_update'
              /\ held'[k] >= DEBOUNCE \/ held'[k] + counter'[k] >= DEBOUNCE + age'
  <2>1. held'[k] \in Nat
      BY <1>9
  <2>2. CASE k \in starts
    <3>1. need_update' /\ age' = 0
        BY <1>1, <1>12, <2>2
    <3>2. counter'[k] = DEBOUNCE /\ DEBOUNCE \in Nat
        BY <1>9, <2>2
    <3>. QED BY <2>1, <3>1, <3>2
  <2>3. CASE k \notin starts
    <3>1. counter'[k] = Counted[k] /\ held'[k] = held[k]
        BY <1>9, <1>11, <1>14, <2>3
    <3>2. /\ need_update /\ CountsOn
          /\ held[k] >= DEBOUNCE \/ held[k] + Counted[k] >= DEBOUNCE
        BY <1>7, <1>14, <3>1
    <3>3. need_update' /\ age' = 0
        BY <1>1, <1>13, <3>2
    <3>. QED BY <1>9, <3>1, <3>2, <3>3
  <2>. QED BY <2>2, <2>3
<1>15. ASSUME NEW k \in Key, k \notin pressed', counter'[k] # 0
       PROVE  /\ k \in Delta(raw', cooked')
              /\ quiet'[k] >= DEBOUNCE \/ quiet'[k] + counter'[k] >= DEBOUNCE + age'
  <2>1. raw' = read /\ quiet'[k] \in Nat
      BY <1>9 DEF Scanned
  <2>2. CASE k \in starts
    <3>1. k \notin read /\ k \in kept
        BY <1>1, <1>15, <2>2 DEF Delta
    <3>2. k \in Delta(raw', cooked')
        BY <1>1, <2>1, <3>1 DEF Delta
    <3>3. age' = 0 /\ counter'[k] = DEBOUNCE /\ DEBOUNCE \in Nat
        BY <1>9, <1>12, <2>2
    <3>. QED BY <2>1, <3>2, <3>3
  <2>3. CASE k \notin starts
    <3>1. k \notin pressed /\ k \notin bounced /\ counter'[k] = Counted[k]
        BY <1>1, <1>9, <1>15, <2>3
    <3>2. counter[k] # 0 /\ need_update /\ k \notin up /\ k \in Delta(raw, cooked)
        BY <1>7, <1>8, <1>15, <3>1
    <3>3. k \notin Delta(read, raw)
      <4>1. CASE transfer
        <5>1. k \in delta
            BY <3>1, <4>1
        <5>. QED BY <3>2, <5>1 DEF Delta
      <4>2. CASE ~transfer
          BY <4>2 DEF Delta
      <4>. QED BY <4>1, <4>2
    <3>4. k \in Delta(raw', cooked')
        BY <1>1, <2>1, <2>3, <3>2, <3>3 DEF Delta
    <3>5. age' = 0 /\ quiet'[k] = quiet[k]
        BY <1>9, <1>13, <3>2, <3>3
    <3>. QED BY <1>8, <1>9, <1>15, <3>1, <3>4, <3>5
  <2>. QED BY <2>2, <2>3
<1>16. LockInv'
  <2>1. \A k \in Key : Unit(k)' = k
      BY <1>6 DEF Unit, Asym
  <2>. QED BY <1>6, <1>14, <2>1 DEF LockInv, Covers, Asym, Eager
<1>17. AsymInv'
    BY <1>15 DEF AsymInv, Covers
<1>18. GlobalInv' /\ RowInv' /\ KeyInv'
    BY <1>6 DEF GlobalInv, RowInv, KeyInv, Asym
<1>19. ASSUME NEW k \in Key, Changes(k), k \in cooked
       PROVE  held[k] >= DEBOUNCE /\ quiet'[k] >= DEBOUNCE
  <2>1. k \in up /\ k \notin read
      BY <1>10, <1>19
  <2>2. counter[k] # 0 /\ Counted[k] = 0 /\ k \notin pressed
      BY <1>7, <2>1
  <2>3. k \notin Delta(read, raw)
      BY <1>8, <1>19, <2>1, <2>2 DEF Delta
  <2>. QED BY <1>7, <1>8, <1>9, <2>2, <2>3
<1>20. \A k \in Key : Peers(k) = {k}
    BY <1>6 DEF Peers, Asym
<1>21. LocksOut /\ NeedsQuiet
    BY <1>19, <1>20 DEF LocksOut, NeedsQuiet, Locks, Defers, Eager, Asym
<1>. QED BY <1>5, <1>16, <1>17, <1>18, <1>21 DEF Result, IInv

-----------------------------------------------------------------------------
LEMMA InitIInv == Init => IInv
<1>. SUFFICES ASSUME Init PROVE IInv
    OBVIOUS
<1>1. DEBOUNCE \in Nat /\ MaxDelay \in Nat /\ \A k \in Key : RowOf[k] \in Key
    BY DebounceAssumption
<1>2. MaxQuiet \in 0..MaxQuiet /\ DEBOUNCE \in 0..DEBOUNCE /\ 0 \in 0..DEBOUNCE /\ 0 \in 0..MaxDelay
    BY <1>1 DEF MaxQuiet
<1>3. TypeOK
    BY <1>2 DEF Init, TypeOK, MaxAge
<1>4. \A k \in Key : counter[k] = 0 /\ held[k] = DEBOUNCE
    BY DEF Init
<1>6. DEBOUNCE >= DEBOUNCE
    BY <1>1
<1>5. ~need_update /\ \A k \in Key : counter[Unit(k)] = 0 /\ counter[RowOf[k]] = 0
    BY <1>1, <1>4 DEF Init, Unit
<1>. QED BY <1>3, <1>4, <1>5, <1>6 DEF IInv, LockInv, GlobalInv, RowInv, KeyInv, AsymInv

LEMMA MillisecondIInv == ASSUME IInv, Millisecond PROVE IInv' /\ UNCHANGED cooked
<1>1. UNCHANGED <<algorithm, raw, cooked, counter, pressed, need_update>>
    BY DEF Millisecond, algo
<1>2. age' \in 0..DEBOUNCE /\ age' <= age + 1 /\ age' <= DEBOUNCE
    BY Types DEF IInv, Millisecond, Older, MaxAge
<1>3. ASSUME NEW k \in Key
      PROVE  /\ quiet'[k] \in 0..MaxQuiet /\ (quiet'[k] = quiet[k] + 1 \/ quiet'[k] >= DEBOUNCE)
             /\ held'[k] \in 0..DEBOUNCE /\ (held'[k] = held[k] + 1 \/ held'[k] >= DEBOUNCE)
             /\ quiet[k] >= DEBOUNCE => quiet'[k] >= DEBOUNCE
             /\ held[k] >= DEBOUNCE => held'[k] >= DEBOUNCE
  <2>1. /\ quiet'[k] = Older(quiet[k], MaxQuiet) /\ held'[k] = Older(held[k], DEBOUNCE)
      BY DEF Millisecond
  <2>2. /\ DEBOUNCE \in Nat /\ quiet[k] \in Nat /\ held[k] \in Nat /\ MaxDelay \in Nat
      BY Types DEF IInv
  <2>3. /\ quiet[k] <= MaxQuiet /\ held[k] <= DEBOUNCE /\ MaxQuiet \in Nat /\ DEBOUNCE <= MaxQuiet
    <3>1. MaxQuiet \in Nat /\ DEBOUNCE <= MaxQuiet
        BY <2>2 DEF MaxQuiet
    <3>. QED BY <2>2, <3>1 DEF IInv, TypeOK
  <2>. QED BY <2>1, <2>2, <2>3 DEF Older
<1>4. TypeOK'
  <2>1. /\ quiet' = [k \in Key |-> quiet'[k]] /\ held' = [k \in Key |-> held'[k]]
      BY DEF Millisecond
  <2>2. quiet' \in [Key -> 0..MaxQuiet] /\ held' \in [Key -> 0..DEBOUNCE]
      BY <1>3, <2>1
  <2>3. since' \in 0..MaxDelay
      BY Types DEF IInv, TypeOK, Millisecond
  <2>. QED BY <1>1, <1>2, <2>2, <2>3 DEF IInv, TypeOK, MaxAge, MaxQuiet
<1>5. /\ \A k \in Key : Unit(k)' = Unit(k) /\ Delta(raw, cooked)' = Delta(raw, cooked)
      /\ Eager' = Eager /\ Asym' = Asym
    BY <1>1 DEF Unit, Delta, Eager, Asym
<1>6. ASSUME NEW k \in Key, NEW u \in Key, Covers(held[k], counter[u])
      PROVE  held'[k] >= DEBOUNCE \/ held'[k] + counter[u] >= DEBOUNCE + age'
    BY <1>2, <1>3, <1>6, Types DEF Covers, IInv
<1>7. ASSUME NEW k \in Key, NEW u \in Key, Covers(quiet[k], counter[u])
      PROVE  quiet'[k] >= DEBOUNCE \/ quiet'[k] + counter[u] >= DEBOUNCE + age'
    BY <1>2, <1>3, <1>7, Types DEF Covers, IInv
<1>8. LockInv'
    BY <1>1, <1>3, <1>5, <1>6, Types DEF IInv, LockInv, Covers
<1>9. GlobalInv'
  <2>. SUFFICES ASSUME algorithm = "sym_defer_g", NEW k \in Key, need_update PROVE quiet'[k] >= age'
      BY <1>1 DEF GlobalInv
  <2>1. quiet[k] >= age /\ quiet[k] \in Nat /\ age \in Nat /\ DEBOUNCE \in Nat
      BY Types DEF IInv, GlobalInv
  <2>. QED BY <1>2, <1>3, <2>1
<1>10. RowInv'
    BY <1>1, <1>7, Types DEF IInv, RowInv, Covers
<1>11. KeyInv' /\ AsymInv'
    BY <1>1, <1>5, <1>7 DEF IInv, KeyInv, AsymInv, Covers
<1>. QED BY <1>1, <1>4, <1>8, <1>9, <1>10, <1>11 DEF IInv

LEMMA StepInv == IInv /\ [Next]_vars => IInv' /\ LocksOut /\ NeedsQuiet
<1>. SUFFICES ASSUME IInv, [Next]_vars PROVE IInv' /\ LocksOut /\ NeedsQuiet
    OBVIOUS
<1>1. ASSUME UNCHANGED cooked PROVE LocksOut /\ NeedsQuiet
    BY <1>1 DEF LocksOut, NeedsQuiet, Changes, Delta
<1>2. CASE Millisecond
    BY <1>1, <1>2, MillisecondIInv
<1>3. ASSUME NEW read \in SUBSET Key, matrix_scan(read) PROVE Result
  <2>1. Scanned(read)
      BY <1>3 DEF matrix_scan, Scanned
  <2>2. debounce(read)
      BY <1>3 DEF matrix_scan
  <2>. QED BY <2>1, <2>2, NoneResult, DeferGlobalResult, DeferRowResult, DeferKeyResult,
               EagerResult, AsymResult DEF debounce, Eager, Asym
<1>4. CASE UNCHANGED vars
  <2>1. UNCHANGED <<algorithm, raw, cooked, counter, pressed, need_update, age, since, quiet, held>>
      BY <1>4 DEF vars, algo, history
  <2>2. IInv'
      BY <2>1 DEF IInv, TypeOK, LockInv, GlobalInv, RowInv, KeyInv, AsymInv, Covers, Unit, Eager, Asym,
         Delta, MaxAge, MaxQuiet
  <2>. QED BY <1>1, <2>1, <2>2
<1>. QED BY <1>2, <1>3, <1>4 DEF Next, Result

LEMMA Inductive == Spec => []IInv
<1>. QED BY InitIInv, StepInv, PTL DEF Spec

(* Every variable keeps its type: no countdown leaves 0..DEBOUNCE             *)
(* (asym_eager_defer_pk.c:88, sym_defer_pk.c:90).                             *)
THEOREM TypeCorrectness == Spec => []TypeOK
<1>. QED BY Inductive, PTL DEF IInv

(* "wait for no changes for DEBOUNCE ms before reporting change": of the key, *)
(* of its row or of the whole matrix (docs/feature_debounce_type.md:75).      *)
THEOREM ChangesHaveSettled == Spec => DeferNeedsQuiet
<1>1. IInv /\ [Next]_vars => [\A k \in Key : Changes(k) /\ Defers(k) =>
                                  \A j \in Peers(k) : quiet'[j] >= DEBOUNCE]_vars
    BY StepInv DEF NeedsQuiet
<1>. QED BY <1>1, Inductive, PTL DEF Spec, DeferNeedsQuiet

(* "All further inputs for DEBOUNCE ms are ignored"                           *)
(* (docs/feature_debounce_type.md:69).                                        *)
THEOREM LockedForDebounce == Spec => EagerLocksOut
<1>1. IInv /\ [Next]_vars => [\A k \in Key : Changes(k) /\ Locks(k) =>
                                  \A j \in Peers(k) : held[j] >= DEBOUNCE]_vars
    BY StepInv DEF LocksOut
<1>. QED BY <1>1, Inductive, PTL DEF Spec, EagerLocksOut
=============================================================================
