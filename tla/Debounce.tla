------------------------------ MODULE Debounce ------------------------------
(* The debounce algorithms of quantum/debounce/, as matrix_scan() of         *)
(* quantum/matrix.c calls them after every raw scan.  A build has one of     *)
(* them; the model picks one at the start.                                   *)
EXTENDS Integers

CONSTANTS
    Key,
    RowOf,       \* [Key -> Key]: the first key of each key's row
    Algorithms,  \* the DEBOUNCE_TYPEs considered
    DEBOUNCE,    \* milliseconds, at most 255 (127 for asym_eager_defer_pk)
    MaxDelay     \* bound: the longest time between two scans

ASSUME DebounceAssumption ==
    /\ RowOf \in [Key -> Key] /\ \A k \in Key : RowOf[RowOf[k]] = RowOf[k]
    /\ Algorithms \subseteq {"none", "sym_defer_g", "sym_defer_pr", "sym_defer_pk",
                             "sym_eager_pr", "sym_eager_pk", "asym_eager_defer_pk"}
    /\ DEBOUNCE \in Nat /\ MaxDelay \in Nat \ {0}

VARIABLES
    algorithm,    \* the algorithm of this build
    raw,          \* raw_matrix: keys that read as closed
    cooked,       \* matrix: keys that are down after debouncing
    counter,      \* debounce_counters, countdowns: milliseconds left
    pressed,      \* asym_eager_defer_pk: keys whose counter is for a press
    need_update,  \* counters_need_update, debouncing
    age,          \* time since last_time, debouncing_time
    since,        \* time since the last scan
    quiet,        \* history: time since each raw key changed
    held          \* history: time since each cooked key changed

algo    == <<counter, pressed, need_update>>
history == <<quiet, held>>
vars    == <<algorithm, raw, cooked, algo, age, since, history>>

(* The timers; no two times above these caps behave differently.             *)
MaxAge   == DEBOUNCE
MaxQuiet == 2 * DEBOUNCE + MaxDelay
Older(t, cap) == IF t < cap THEN t + 1 ELSE cap

Init ==
    /\ algorithm \in Algorithms
    /\ raw = {} /\ cooked = {} /\ pressed = {}
    /\ counter = [k \in Key |-> 0] /\ need_update = FALSE /\ age = 0 /\ since = 0
    /\ quiet = [k \in Key |-> MaxQuiet] /\ held = [k \in Key |-> DEBOUNCE]

Millisecond ==
    /\ since < MaxDelay /\ since' = since + 1
    /\ age' = Older(age, MaxAge)
    /\ quiet' = [k \in Key |-> Older(quiet[k], MaxQuiet)]
    /\ held' = [k \in Key |-> Older(held[k], DEBOUNCE)]
    /\ UNCHANGED <<algorithm, raw, cooked, algo>>

-----------------------------------------------------------------------------
(* The keys that share a counter: a row, or a key alone.  The counter of a   *)
(* row is kept at its first key.                                             *)
Unit(k) == IF algorithm \in {"sym_defer_pr", "sym_eager_pr"} THEN RowOf[k] ELSE k

Delta(a, b) == (a \ b) \cup (b \ a)

(* update_debounce_counters(): runs only while a counter does, and only when *)
(* time has passed.                                                          *)
elapsed_time == IF need_update THEN age ELSE 0
(* mutant: matrix_need_update is never set *)
NothingExpires == {}
Expired == {k \in Key : counter[k] # 0 /\ counter[k] <= elapsed_time}
Counted == [k \in Key |-> IF counter[k] <= elapsed_time THEN 0 ELSE counter[k] - elapsed_time]
(* mutant: the counters stop after their first step *)
CountsOnce == elapsed_time = 0 /\ need_update
CountsOn == IF elapsed_time > 0 THEN \E k \in Key : Counted[k] # 0 ELSE need_update

(* last_time: set while counters run and when they start.                    *)
AgeAfter(changed) == IF need_update \/ changed THEN 0 ELSE age

none(read) == cooked' = read /\ UNCHANGED <<algo, age>>

sym_defer_g(read) ==
    LET debouncing == need_update \/ read # raw
        time       == IF read # raw THEN 0 ELSE age
        push       == debouncing /\ time >= DEBOUNCE
    IN  /\ cooked' = IF push THEN read ELSE cooked
        /\ need_update' = (debouncing /\ ~push) /\ age' = time
        /\ UNCHANGED <<counter, pressed>>

(* last_raw is raw_matrix as of the previous call.                           *)
sym_defer_pr(read) ==
    LET moved(u)  == \E k \in Delta(read, raw) : RowOf[k] = u
        expired(u) == ~moved(u) /\ counter[u] # 0 /\ counter[u] <= age
    IN  /\ counter' = [u \in Key |-> IF moved(u) THEN DEBOUNCE
                                     ELSE IF counter[u] > age THEN counter[u] - age ELSE 0]
        /\ cooked' = {k \in Key : k \in IF expired(RowOf[k]) THEN read ELSE cooked}
        /\ age' = 0 /\ UNCHANGED <<pressed, need_update>>

(* mutant: a counter goes on although its key has bounced back *)
DeltaGoneIgnored(c, delta) ==
    [k \in Key |-> IF k \in delta /\ c[k] = 0 THEN DEBOUNCE ELSE c[k]]
start_debounce_counters(c, delta) ==
    [k \in Key |-> IF k \notin delta THEN 0 ELSE IF c[k] = 0 THEN DEBOUNCE ELSE c[k]]

sym_defer_pk(read) ==
    LET kept    == (cooked \ Expired) \cup (read \cap Expired)
        delta   == Delta(read, kept)
        changed == read # raw
    IN  /\ cooked' = kept
        /\ counter' = IF changed THEN start_debounce_counters(Counted, delta) ELSE Counted
        /\ need_update' = (CountsOn \/ (changed /\ \E k \in delta : Counted[k] = 0))
        /\ age' = AgeAfter(changed) /\ UNCHANGED pressed

(* mutant: a locked key is taken over all the same *)
LockIgnored(read) == Delta(read, cooked)
(* What transfer_matrix_values() flips: changed keys that are not locked.    *)
Flips(read) == {k \in Delta(read, cooked) : Counted[Unit(k)] = 0}

sym_eager(read) ==
    LET transfer == read # raw \/ Expired # {}
        flips    == IF transfer THEN Flips(read) ELSE {}
    IN  /\ cooked' = Delta(cooked, flips)
        /\ counter' = [u \in Key |-> IF \E k \in flips : Unit(k) = u THEN DEBOUNCE
                                     ELSE Counted[u]]
        /\ need_update' = (CountsOn \/ flips # {})
        /\ age' = AgeAfter(transfer) /\ UNCHANGED pressed

asym_eager_defer_pk(read) ==
    LET up       == Expired \ pressed
        kept     == (cooked \ up) \cup (read \cap up)
        transfer == read # raw \/ Expired \cap pressed # {}
        delta    == Delta(read, kept)
        starts   == {k \in delta : transfer /\ Counted[k] = 0}
        bounced  == {k \in Key \ delta : transfer /\ k \notin pressed}
    IN  /\ cooked' = kept \cup (starts \cap read)
        /\ pressed' = (pressed \ starts) \cup (starts \cap read)
        /\ counter' = [k \in Key |-> IF k \in starts THEN DEBOUNCE
                                     ELSE IF k \in bounced THEN 0 ELSE Counted[k]]
        /\ need_update' = (CountsOn \/ starts # {})
        /\ age' = AgeAfter(transfer)

(* DEBOUNCE 0 builds none.c, except that sym_defer_pr.c does not look at it. *)
debounce(read) ==
    \/ (algorithm = "none" \/ (DEBOUNCE = 0 /\ algorithm # "sym_defer_pr")) /\ none(read)
    \/ algorithm = "sym_defer_pr" /\ sym_defer_pr(read)
    \/ /\ DEBOUNCE > 0
       /\ \/ algorithm = "sym_defer_g" /\ sym_defer_g(read)
          \/ algorithm = "sym_defer_pk" /\ sym_defer_pk(read)
          \/ algorithm \in {"sym_eager_pr", "sym_eager_pk"} /\ sym_eager(read)
          \/ algorithm = "asym_eager_defer_pk" /\ asym_eager_defer_pk(read)

matrix_scan(read) ==
    /\ debounce(read)
    /\ raw' = read /\ since' = 0
    /\ quiet' = [k \in Key |-> IF k \in Delta(read, raw) THEN 0 ELSE quiet[k]]
    /\ held' = [k \in Key |-> IF k \in Delta(cooked, cooked') THEN 0 ELSE held[k]]
    /\ UNCHANGED algorithm

Next == Millisecond \/ \E read \in SUBSET Key : matrix_scan(read)

Spec == Init /\ [][Next]_vars

-----------------------------------------------------------------------------
(* Every variable has its type.                                              *)
TypeOK ==
    /\ algorithm \in Algorithms
    /\ raw \in SUBSET Key /\ cooked \in SUBSET Key /\ pressed \in SUBSET Key
    /\ counter \in [Key -> 0..DEBOUNCE] /\ need_update \in BOOLEAN
    /\ age \in 0..MaxAge /\ since \in 0..MaxDelay
    /\ quiet \in [Key -> 0..MaxQuiet] /\ held \in [Key -> 0..DEBOUNCE]

(* The keys whose changes hold a key's change back.                          *)
Peers(k) == IF algorithm = "sym_defer_g" THEN Key ELSE {j \in Key : Unit(j) = Unit(k)}

Eager == algorithm \in {"sym_eager_pr", "sym_eager_pk"}
Defers(k) == \/ algorithm \in {"sym_defer_g", "sym_defer_pr", "sym_defer_pk"}
             \/ algorithm = "asym_eager_defer_pk" /\ k \in cooked
Changes(k) == k \in Delta(cooked, cooked')

(* "Defer - wait for no changes for DEBOUNCE ms before reporting change"     *)
(* (docs/feature_debounce_type.md:75): a deferred change is only reported    *)
(* when no scan of the last DEBOUNCE ms has seen its key, row or matrix move.*)
DeferNeedsQuiet ==
    [][\A k \in Key : Changes(k) /\ Defers(k) =>
          \A j \in Peers(k) : quiet'[j] >= DEBOUNCE]_vars

(* "Eager - any key change is reported immediately.  All further inputs for  *)
(* DEBOUNCE ms are ignored" (docs/feature_debounce_type.md:69).              *)
Locks(k) == Eager \/ (algorithm = "asym_eager_defer_pk" /\ k \in cooked)

EagerLocksOut ==
    [][\A k \in Key : Changes(k) /\ Locks(k) =>
          \A j \in Peers(k) : held[j] >= DEBOUNCE]_vars

(* Just after a scan an eager algorithm lags behind the switches only where  *)
(* it is locked, and a press never waits for asym_eager_defer_pk.            *)
EagerAtOnce ==
    since = 0 =>
        /\ Eager => \A k \in Delta(raw, cooked) : \E j \in Peers(k) : held[j] < DEBOUNCE
        /\ algorithm = "asym_eager_defer_pk" => raw \subseteq cooked

(* No algorithm loses a change: once a key's row, or the matrix, has been    *)
(* quiet for long enough, a scan leaves the key as the switch is.  A release *)
(* that falls into the lock of its press waits for both.                     *)
Latency == IF algorithm = "asym_eager_defer_pk" THEN MaxQuiet ELSE DEBOUNCE

CatchesUp ==
    since = 0 =>
        \A k \in Delta(raw, cooked) : \E j \in Peers(k) : quiet[j] < Latency
=============================================================================
