---------------------------- MODULE ComboProofs ----------------------------
(* Proofs about Combo, for any number of keys and of combos that share them,  *)
(* all terms and options: the types; that nothing sticks; that every press    *)
(* that is kept back is handed on once, that nothing is released that is not  *)
(* pressed, and that no ready combo is forgotten, each under hypotheses of    *)
(* Combo.  First what every operator on the file's variables does, from the   *)
(* release of one combo up to the settling of all that was kept back; then    *)
(* what the press and the release of a key do to all combos in turn; then     *)
(* that the actions preserve Rest, and with it TypeOK and NothingSticks.      *)
(* The same way again for the other three properties, which need Neat beside  *)
(* Rest: Working is what holds inside of an event, Flushed what the settling  *)
(* leaves, Mid what does between the combos of one event.                     *)
EXTENDS Combo, FiniteSetTheorems, WellFoundedInduction, TLAPS

Bits   == [state : SUBSET Key, active : BOOLEAN, disabled : BOOLEAN]
Entry  == [key : Key, combo : Combo \cup {NoCombo, TICK_EVENT}, pressed : BOOLEAN]
Buffer == {q \in Seq(Entry) : Len(q) <= KEY_BUFFER_LENGTH}
Ring   == {q \in Seq(Combo) : Len(q) < BUFFER_LENGTH}
State  == [combo : [Combo -> Bits], key_buffer : Buffer, combo_buffer : Ring,
           longest_term : Age, enabled : BOOLEAN, out : Seq(Entry), reported : SUBSET Reportable]

-----------------------------------------------------------------------------
(* Induction, and recursive functions.                                       *)

(* Every nonempty set of naturals has a least element.                       *)
LEMMA LeastElement ==
    ASSUME NEW S \in SUBSET Nat, S # {}
    PROVE  \E x \in S : \A y \in S : x <= y
<1>1. PICK x \in S : \A y \in S : ~(<<y, x>> \in OpToRel(<, Nat))
    BY NatLessThanWellFounded, WFMin, Zenon
<1>2. ASSUME NEW y \in S PROVE x <= y
  <2>. DEFINE R == OpToRel(<, Nat)
  <2>1. <<y, x>> \notin R
      BY <1>1, Zenon
  <2>2. R = {p \in Nat \X Nat : p[1] < p[2]}
      BY Zenon DEF OpToRel
  <2>. HIDE DEF R
  <2>. QED BY <2>1, <2>2
<1>. QED BY <1>2

(* What holds at 0 and goes from a number to the next holds up to N.         *)
LEMMA Induction ==
    ASSUME NEW N \in Nat, NEW S, 0 \in S, \A i \in 1..N : i - 1 \in S => i \in S
    PROVE  \A n \in 0..N : n \in S
<1>. SUFFICES ASSUME NEW n \in 0..N, n \notin S PROVE FALSE
    OBVIOUS
<1>. DEFINE T == {i \in Nat : i <= N /\ i \notin S}
<1>1. PICK x \in T : \A y \in T : x <= y
  <2>1. T \in SUBSET Nat /\ n \in T
      OBVIOUS
  <2>. HIDE DEF T
  <2>. QED BY <2>1, LeastElement
<1>2. x \in 1..N /\ x - 1 \in Nat /\ x - 1 < x /\ x - 1 <= N
    BY <1>1
<1>3. x - 1 \in S
    BY <1>1, <1>2
<1>. QED BY <1>1, <1>2, <1>3

(* F, from b on, n times.                                                    *)
Iterates(f, n, S, b, F) ==
    f \in [0..n -> S] /\ \A i \in 0..n : f[i] = IF i = 0 THEN b ELSE F[<<f[i - 1], i>>]

LEMMA Recursion ==
    ASSUME NEW N \in Nat, NEW S, NEW b \in S, NEW F \in [S \X Nat -> S]
    PROVE  \E f : Iterates(f, N, S, b, F)
<1>. DEFINE T == {n \in Nat : \E f : Iterates(f, n, S, b, F)}
<1>1. 0 \in T
  <2>. DEFINE f == [i \in 0..0 |-> b]
  <2>1. f \in [0..0 -> S] /\ \A i \in 0..0 : i = 0 /\ f[i] = b
      OBVIOUS
  <2>. HIDE DEF f
  <2>. QED BY <2>1 DEF Iterates
<1>2. ASSUME NEW n \in 1..N, n - 1 \in T PROVE n \in T
  <2>1. PICK g : Iterates(g, n - 1, S, b, F)
      BY <1>2
  <2>2. g \in [0..(n - 1) -> S] /\ g[n - 1] \in S /\ <<g[n - 1], n>> \in S \X Nat
      BY <2>1 DEF Iterates
  <2>. DEFINE f == [i \in 0..n |-> IF i = n THEN F[<<g[n - 1], n>>] ELSE g[i]]
  <2>3. f \in [0..n -> S]
      BY <2>2
  <2>4. f[n] = F[<<g[n - 1], n>>] /\ \A i \in 0..(n - 1) : f[i] = g[i]
      OBVIOUS
  <2>. HIDE DEF f
  <2>5. ASSUME NEW i \in 0..n PROVE f[i] = IF i = 0 THEN b ELSE F[<<f[i - 1], i>>]
    <3>1. CASE i = n
        BY <3>1, <2>4
    <3>2. CASE i # n
      <4>1. i \in 0..(n - 1) /\ (i # 0 => i - 1 \in 0..(n - 1))
          BY <3>2
      <4>2. g[i] = IF i = 0 THEN b ELSE F[<<g[i - 1], i>>]
          BY <4>1, <2>1 DEF Iterates
      <4>. QED BY <4>1, <4>2, <2>4
    <3>. QED BY <3>1, <3>2
  <2>6. Iterates(f, n, S, b, F)
      BY <2>3, <2>5 DEF Iterates
  <2>. QED BY <2>6
<1>3. N \in T
  <2>. HIDE DEF T
  <2>1. \A n \in 0..N : n \in T
      BY <1>1, <1>2, Induction
  <2>. QED BY <2>1
<1>. QED BY <1>3

(* No term is longer than MaxTerm.                                           *)
LEMMA MaxTermIs ==
    /\ MaxTerm \in Nat /\ COMBO_HOLD_TERM \in 0..MaxTerm
    /\ \A c \in Combo : COMBO_TERM[c] \in 0..MaxTerm
<1>. DEFINE T == Range(COMBO_TERM) \cup {COMBO_HOLD_TERM}
            B == {b \in Nat : \A t \in T : t <= b}
            S == {n \in Nat : \E b \in Nat : b >= COMBO_HOLD_TERM
                                  /\ \A c \in Combo : c <= n => b >= COMBO_TERM[c]}
<1>1. COMBOS \in Nat /\ COMBO_HOLD_TERM \in Nat /\ COMBO_TERM \in [Combo -> Nat] /\ Combo \subseteq Nat
    BY ComboAssumption DEF Combo
<1>2. T \subseteq Nat /\ COMBO_HOLD_TERM \in T /\ \A c \in Combo : COMBO_TERM[c] \in T
    BY <1>1 DEF Range
<1>3. \A t \in T : t = COMBO_HOLD_TERM \/ \E c \in Combo : t = COMBO_TERM[c]
    BY <1>1 DEF Range
<1>4. 0 \in S
  <2>1. \A c \in Combo : ~(c <= 0)
      BY DEF Combo
  <2>. QED BY <1>1, <2>1
<1>5. ASSUME NEW n \in 1..COMBOS, n - 1 \in S PROVE n \in S
  <2>1. PICK b \in Nat : b >= COMBO_HOLD_TERM /\ \A c \in Combo : c <= n - 1 => b >= COMBO_TERM[c]
      BY <1>5
  <2>2. n \in Combo /\ COMBO_TERM[n] \in Nat
      BY <1>1 DEF Combo
  <2>. DEFINE d == IF COMBO_TERM[n] > b THEN COMBO_TERM[n] ELSE b
  <2>3. d \in Nat /\ d >= b /\ d >= COMBO_TERM[n] /\ d >= COMBO_HOLD_TERM
      BY <2>1, <2>2, <1>1
  <2>4. ASSUME NEW c \in Combo, c <= n PROVE d >= COMBO_TERM[c]
    <3>1. c = n \/ c <= n - 1
        BY <2>4, <1>1
    <3>2. COMBO_TERM[c] \in Nat
        BY <1>1
    <3>. QED BY <3>1, <3>2, <2>1, <2>3
  <2>. HIDE DEF d
  <2>. QED BY <2>3, <2>4
<1>6. COMBOS \in S
  <2>. HIDE DEF S
  <2>1. \A n \in 0..COMBOS : n \in S
      BY <1>1, <1>4, <1>5, Induction
  <2>. QED BY <2>1, <1>1
<1>7. PICK b \in Nat : b >= COMBO_HOLD_TERM /\ \A c \in Combo : b >= COMBO_TERM[c]
  <2>1. \A c \in Combo : c <= COMBOS
      BY <1>1 DEF Combo
  <2>. QED BY <1>6, <2>1
<1>8. b \in B
    BY <1>3, <1>7
<1>9. PICK m \in B : \A y \in B : m <= y
  <2>. HIDE DEF B
  <2>1. B \in SUBSET Nat
      BY DEF B
  <2>. QED BY <1>8, <2>1, LeastElement
<1>. HIDE DEF T
<1>10. m \in Nat /\ \A t \in T : t <= m
    BY <1>9
<1>11. m \in T
  <2>. SUFFICES ASSUME m \notin T PROVE FALSE
      OBVIOUS
  <2>1. \A t \in T : t <= m - 1 /\ t \in Nat
    <3>1. ASSUME NEW t \in T PROVE t <= m - 1 /\ t \in Nat
      <4>1. t \in Nat /\ t <= m /\ t # m
          BY <1>10, <1>2
      <4>. QED BY <4>1, <1>10
    <3>. QED BY <3>1
  <2>2. COMBO_HOLD_TERM <= m - 1 /\ COMBO_HOLD_TERM \in Nat
      BY <2>1, <1>2
  <2>3. m - 1 \in Nat
      BY <2>2, <1>10
  <2>4. m - 1 \in B
      BY <2>1, <2>3
  <2>. QED BY <2>4, <1>9, <1>10
<1>12. \A t \in T : m >= t
    BY <1>10, <1>2
<1>13. MaxTerm \in T /\ \A t \in T : MaxTerm >= t
  <2>1. MaxTerm = CHOOSE x \in T : \A y \in T : x >= y
      BY DEF MaxTerm, Max, T
  <2>. QED BY <2>1, <1>11, <1>12
<1>14. ASSUME NEW t \in T PROVE t \in 0..MaxTerm
  <2>1. t \in Nat /\ MaxTerm \in Nat /\ MaxTerm >= t
      BY <1>2, <1>13
  <2>. QED BY <2>1
<1>. QED BY <1>13, <1>14, <1>2

-----------------------------------------------------------------------------
(* What every operator does to a state, field by field.                      *)

LEMMA FunctionIsSeq ==
    ASSUME NEW S, NEW n \in Nat, NEW f \in [1..n -> S]
    PROVE  f \in Seq(S) /\ Len(f) = n
OBVIOUS

Distinct(q) == \A i, j \in DOMAIN q : q[i] = q[j] => i = j

LEMMA TailOf ==
    ASSUME NEW q \in Seq(Combo), q # <<>>
    PROVE  /\ Tail(q) \in Seq(Combo) /\ Len(Tail(q)) = Len(q) - 1
           /\ Range(q) = {Head(q)} \cup Range(Tail(q))
           /\ Distinct(q) => Distinct(Tail(q))
<1>1. /\ Tail(q) \in Seq(Combo) /\ Len(Tail(q)) = Len(q) - 1 /\ Len(q) \in Nat \ {0}
      /\ Head(q) = q[1] /\ \A i \in 1..(Len(q) - 1) : Tail(q)[i] = q[i + 1]
    OBVIOUS
<1>. DEFINE r == Tail(q)
<1>. HIDE DEF r
<1>2. DOMAIN q = 1..Len(q) /\ DOMAIN r = 1..(Len(q) - 1)
    BY <1>1 DEF r
<1>3. Range(q) = {Head(q)} \cup Range(r)
  <2>1. ASSUME NEW i \in 1..Len(q) PROVE q[i] \in {Head(q)} \cup Range(r)
    <3>1. CASE i = 1
        BY <3>1, <1>1
    <3>2. CASE i # 1
      <4>1. i - 1 \in 1..(Len(q) - 1) /\ r[i - 1] = q[i]
          BY <3>2, <1>1 DEF r
      <4>. QED BY <4>1, <1>2 DEF Range
    <3>. QED BY <3>1, <3>2
  <2>2. ASSUME NEW i \in 1..(Len(q) - 1) PROVE r[i] \in Range(q)
    <3>1. i + 1 \in 1..Len(q) /\ r[i] = q[i + 1]
        BY <1>1 DEF r
    <3>. QED BY <3>1, <1>2 DEF Range
  <2>3. Head(q) \in Range(q)
      BY <1>1, <1>2 DEF Range
  <2>. QED BY <2>1, <2>2, <2>3, <1>2 DEF Range
<1>4. ASSUME Distinct(q), NEW i \in DOMAIN r, NEW j \in DOMAIN r, r[i] = r[j] PROVE i = j
  <2>1. q[i + 1] = q[j + 1] /\ i + 1 \in DOMAIN q /\ j + 1 \in DOMAIN q
      BY <1>4, <1>1, <1>2 DEF r
  <2>2. i + 1 = j + 1
      BY <2>1, <1>4 DEF Distinct
  <2>. QED BY <2>2, <1>2, <1>1
<1>. QED BY <1>1, <1>3, <1>4 DEF r, Distinct

(* t is s, but for the flags and the ring.                                   *)
Kept2(s, t) ==
    /\ t \in State /\ t.key_buffer = s.key_buffer /\ t.longest_term = s.longest_term
    /\ t.enabled = s.enabled /\ t.out = s.out /\ t.reported = s.reported
    /\ \A d \in Combo : t.combo[d].state = s.combo[d].state /\ t.combo[d].active = s.combo[d].active

(* c is taken from the front of the ring, if at all.                         *)
Shifted(q, r, c) == r = q \/ (q # <<>> /\ Head(q) = c /\ r = Tail(q))

LEMMA ShiftedIs ==
    ASSUME NEW q \in Ring, NEW r, NEW c, Shifted(q, r, c)
    PROVE  /\ r \in Ring /\ Len(r) \in {Len(q), Len(q) - 1} /\ Range(r) \subseteq Range(q)
           /\ \A d \in Range(q) : d # c => d \in Range(r)
           /\ Distinct(q) => Distinct(r)
<1>1. q \in Seq(Combo) /\ Len(q) \in Nat /\ Len(q) < BUFFER_LENGTH /\ BUFFER_LENGTH \in Nat
    BY ComboAssumption DEF Ring
<1>2. CASE r = q
    BY <1>2
<1>3. CASE q # <<>> /\ Head(q) = c /\ r = Tail(q)
  <2>1. /\ r \in Seq(Combo) /\ Len(r) = Len(q) - 1 /\ Range(q) = {c} \cup Range(r)
        /\ Distinct(q) => Distinct(r)
      BY <1>1, <1>3, TailOf
  <2>. QED BY <2>1, <1>1 DEF Ring
<1>. QED BY <1>2, <1>3 DEF Shifted

LEMMA Drops ==
    ASSUME NEW s \in State, NEW c \in Combo
    PROVE  LET t == drop_combo_from_buffer(s, c) IN
           /\ Kept2(s, t) /\ Shifted(s.combo_buffer, t.combo_buffer, c)
           /\ \A d \in Combo : t.combo[d].disabled
                                 = (s.combo[d].disabled \/ (d = c /\ c \in Range(s.combo_buffer)))
<1>1. s.combo \in [Combo -> Bits] /\ s.combo_buffer \in Ring
    BY DEF State
<1>2. CASE c \notin Range(s.combo_buffer)
  <2>1. drop_combo_from_buffer(s, c) = s
      BY <1>2 DEF drop_combo_from_buffer
  <2>2. \A d \in Combo : s.combo[d].disabled \in BOOLEAN
      BY <1>1 DEF Bits
  <2>. QED BY <2>1, <2>2, <1>2 DEF Kept2, Shifted
<1>3. CASE c \in Range(s.combo_buffer)
  <2>. DEFINE b == [s.combo EXCEPT ![c] = [@ EXCEPT !.disabled = TRUE]]
              q == IF Head(s.combo_buffer) = c THEN Tail(s.combo_buffer) ELSE s.combo_buffer
              t == [s EXCEPT !.combo = b, !.combo_buffer = q]
  <2>1. drop_combo_from_buffer(s, c) = t
      BY <1>3 DEF drop_combo_from_buffer
  <2>2. s.combo_buffer # <<>>
      BY <1>3 DEF Range
  <2>3. Shifted(s.combo_buffer, q, c)
      BY <2>2 DEF Shifted
  <2>4. q \in Ring
      BY <2>3, <1>1, ShiftedIs
  <2>5. /\ b \in [Combo -> Bits]
        /\ \A d \in Combo : /\ b[d].state = s.combo[d].state /\ b[d].active = s.combo[d].active
                            /\ b[d].disabled = (s.combo[d].disabled \/ d = c)
      BY <1>1 DEF Bits
  <2>. HIDE DEF b, q
  <2>6. /\ t \in State /\ t.combo = b /\ t.combo_buffer = q /\ t.key_buffer = s.key_buffer
        /\ t.longest_term = s.longest_term
        /\ t.enabled = s.enabled /\ t.out = s.out /\ t.reported = s.reported
      BY <2>4, <2>5 DEF State
  <2>. HIDE DEF t
  <2>. QED BY <2>1, <2>3, <2>5, <2>6, <1>3 DEF Kept2
<1>. QED BY <1>2, <1>3

(* t is s, but for what was handed on.                                       *)
Sent(s, t) ==
    /\ t \in State /\ t.combo_buffer = s.combo_buffer /\ t.longest_term = s.longest_term
    /\ t.enabled = s.enabled

LEMMA WhatIs ==
    ASSUME NEW e \in Entry, IsEvent(e)
    PROVE  /\ What(e) \in Reportable
           /\ e.combo = NoCombo => What(e) = [key |-> e.key]
           /\ e.combo # NoCombo => e.combo \in Combo /\ What(e) = [combo |-> e.combo]
BY DEF Entry, IsEvent, What, Reportable

LEMMA Sends ==
    ASSUME NEW s \in State, NEW k \in Key, NEW c \in Combo \cup {NoCombo}, NEW pressed \in BOOLEAN
    PROVE  LET t == Send(s, Record(k, c, pressed)) IN
           /\ Sent(s, t) /\ t.combo = s.combo /\ t.key_buffer = s.key_buffer
           /\ pressed /\ c = NoCombo => t.reported = s.reported \cup {[key |-> k]}
           /\ ~pressed /\ c = NoCombo => t.reported = s.reported \ {[key |-> k]}
           /\ ~pressed /\ c # NoCombo => t.reported = s.reported \ {[combo |-> c]}
<1>. DEFINE e == Record(k, c, pressed)
            w == IF c = NoCombo THEN [key |-> k] ELSE [combo |-> c]
            p == IF pressed THEN s.reported \cup {w} ELSE s.reported \ {w}
            t == [s EXCEPT !.out = Append(s.out, e), !.reported = p]
<1>1. e \in Entry /\ e.pressed = pressed /\ What(e) = w
    BY DEF Record, Entry, What
<1>2. w \in Reportable
    BY DEF Reportable
<1>3. Send(s, e) = t
    BY <1>1 DEF Send
<1>. HIDE DEF e, w
<1>4. Append(s.out, e) \in Seq(Entry) /\ p \in SUBSET Reportable
    BY <1>1, <1>2 DEF State
<1>. HIDE DEF p
<1>5. /\ t \in State /\ t.combo_buffer = s.combo_buffer /\ t.longest_term = s.longest_term
      /\ t.enabled = s.enabled /\ t.combo = s.combo /\ t.key_buffer = s.key_buffer /\ t.reported = p
    BY <1>4 DEF State
<1>6. /\ pressed /\ c = NoCombo => p = s.reported \cup {[key |-> k]}
      /\ ~pressed /\ c = NoCombo => p = s.reported \ {[key |-> k]}
      /\ ~pressed /\ c # NoCombo => p = s.reported \ {[combo |-> c]}
    BY DEF p, w
<1>. HIDE DEF t
<1>7. Send(s, Record(k, c, pressed)) = t
    BY <1>3 DEF e
<1>. QED BY <1>7, <1>5, <1>6 DEF Sent

LEMMA SendsOut ==
    ASSUME NEW s \in State, NEW e
    PROVE  Send(s, e).out = Append(s.out, e)
<1>. DEFINE p == IF e.pressed THEN s.reported \cup {What(e)} ELSE s.reported \ {What(e)}
            o == Append(s.out, e)
<1>1. Send(s, e) = [s EXCEPT !.out = o, !.reported = p]
    BY DEF Send
<1>. HIDE DEF o, p
<1>2. [s EXCEPT !.out = o, !.reported = p].out = o
    BY DEF State
<1>. QED BY <1>1, <1>2 DEF o

LEMMA Releases ==
    ASSUME NEW s \in State, NEW k \in Key, NEW c \in Combo
    PROVE  LET t == release_combo(s, c, k) IN
           /\ Sent(s, t) /\ t.key_buffer = s.key_buffer /\ t.reported = s.reported \ {[combo |-> c]}
           /\ \A d \in Combo : /\ t.combo[d].state = s.combo[d].state
                               /\ t.combo[d].disabled = s.combo[d].disabled
                               /\ t.combo[d].active = (s.combo[d].active /\ d # c)
<1>. DEFINE u == Send(s, Record(k, c, FALSE))
            b == [u.combo EXCEPT ![c] = [@ EXCEPT !.active = FALSE]]
            t == [u EXCEPT !.combo = b]
<1>1. c # NoCombo
    BY DEF Combo, NoCombo
<1>2. /\ Sent(s, u) /\ u.combo = s.combo /\ u.key_buffer = s.key_buffer
      /\ u.reported = s.reported \ {[combo |-> c]}
  <2>1. c \in Combo \cup {NoCombo} /\ FALSE \in BOOLEAN
      OBVIOUS
  <2>2. \A pressed \in BOOLEAN :
          LET v == Send(s, Record(k, c, pressed)) IN
          /\ Sent(s, v) /\ v.combo = s.combo /\ v.key_buffer = s.key_buffer
          /\ ~pressed => v.reported = s.reported \ {[combo |-> c]}
    <3>1. ASSUME NEW pressed \in BOOLEAN
          PROVE  LET v == Send(s, Record(k, c, pressed)) IN
                 /\ Sent(s, v) /\ v.combo = s.combo /\ v.key_buffer = s.key_buffer
                 /\ ~pressed => v.reported = s.reported \ {[combo |-> c]}
        BY <1>1, <2>1, Sends
    <3>. QED BY <3>1, Zenon
  <2>. QED BY <2>1, <2>2, Zenon
<1>3. release_combo(s, c, k) = t
    BY DEF release_combo
<1>. HIDE DEF u
<1>4. u \in State /\ u.combo \in [Combo -> Bits]
    BY <1>2 DEF Sent, State
<1>5. /\ b \in [Combo -> Bits]
      /\ \A d \in Combo : /\ b[d].state = s.combo[d].state /\ b[d].disabled = s.combo[d].disabled
                          /\ b[d].active = (s.combo[d].active /\ d # c)
    BY <1>2, <1>4 DEF Bits
<1>. HIDE DEF b
<1>6. /\ t \in State /\ t.combo_buffer = u.combo_buffer /\ t.longest_term = u.longest_term
      /\ t.enabled = u.enabled /\ t.combo = b /\ t.key_buffer = u.key_buffer /\ t.reported = u.reported
    BY <1>4, <1>5 DEF State
<1>. HIDE DEF t
<1>. QED BY <1>2, <1>3, <1>5, <1>6 DEF Sent

LEMMA ReleasesOut ==
    ASSUME NEW s \in State, NEW k \in Key, NEW c \in Combo
    PROVE  release_combo(s, c, k).out = Append(s.out, Record(k, c, FALSE))
<1>. DEFINE u == Send(s, Record(k, c, FALSE))
            b == [u.combo EXCEPT ![c] = [@ EXCEPT !.active = FALSE]]
<1>1. u.out = Append(s.out, Record(k, c, FALSE))
    BY SendsOut
<1>2. u \in State
  <2>1. \A pressed \in BOOLEAN : Send(s, Record(k, c, pressed)) \in State
      BY Sends DEF Sent
  <2>. QED BY <2>1, Zenon
<1>3. release_combo(s, c, k) = [u EXCEPT !.combo = b]
    BY DEF release_combo
<1>. HIDE DEF u, b
<1>4. [u EXCEPT !.combo = b].out = u.out
    BY <1>2 DEF State
<1>. QED BY <1>1, <1>3, <1>4 DEF u

LEMMA Dumps ==
    ASSUME NEW s \in State
    PROVE  LET t == dump_key_buffer(s) IN
           /\ Sent(s, t) /\ t.combo = s.combo /\ t.key_buffer = <<>> /\ t.out = s.out \o s.key_buffer
           /\ t.reported = s.reported \cup {What(e) : e \in {x \in Range(s.key_buffer) : IsEvent(x)}}
<1>. DEFINE p == s.reported \cup {What(e) : e \in {x \in Range(s.key_buffer) : IsEvent(x)}}
            t == [s EXCEPT !.key_buffer = <<>>, !.out = s.out \o s.key_buffer, !.reported = p]
<1>1. dump_key_buffer(s) = t
    BY DEF dump_key_buffer
<1>2. s.key_buffer \in Seq(Entry) /\ s.out \in Seq(Entry) /\ s.reported \in SUBSET Reportable
    BY DEF State, Buffer
<1>3. Range(s.key_buffer) \subseteq Entry
    BY <1>2 DEF Range
<1>4. p \in SUBSET Reportable
    BY <1>2, <1>3, WhatIs
<1>5. <<>> \in Buffer
    BY ComboAssumption DEF Buffer
<1>6. s.out \o s.key_buffer \in Seq(Entry)
    BY <1>2
<1>. HIDE DEF p
<1>7. /\ t \in State /\ t.combo_buffer = s.combo_buffer /\ t.longest_term = s.longest_term
      /\ t.enabled = s.enabled /\ t.combo = s.combo /\ t.key_buffer = <<>> /\ t.reported = p
      /\ t.out = s.out \o s.key_buffer
    BY <1>4, <1>5, <1>6 DEF State
<1>. HIDE DEF t
<1>. QED BY <1>1, <1>7 DEF Sent, p

LEMMA Clears ==
    ASSUME NEW s \in State
    PROVE  LET t == clear_combos(s) IN
           /\ t \in State /\ t.combo_buffer = s.combo_buffer /\ t.longest_term = 0
           /\ t.out = s.out /\ t.enabled = s.enabled /\ t.key_buffer = s.key_buffer /\ t.reported = s.reported
           /\ \A d \in Combo : t.combo[d] = IF s.combo[d].active THEN s.combo[d] ELSE Fresh
<1>. DEFINE b == [c \in Combo |-> IF s.combo[c].active THEN s.combo[c] ELSE Fresh]
            t == [s EXCEPT !.longest_term = 0, !.combo = b]
<1>1. clear_combos(s) = t
    BY DEF clear_combos
<1>2. b \in [Combo -> Bits] /\ 0 \in Age
    BY MaxTermIs DEF State, Bits, Fresh, Age
<1>3. \A d \in Combo : b[d] = IF s.combo[d].active THEN s.combo[d] ELSE Fresh
    OBVIOUS
<1>. HIDE DEF b
<1>4. /\ t \in State /\ t.combo_buffer = s.combo_buffer /\ t.longest_term = 0
      /\ t.out = s.out /\ t.enabled = s.enabled /\ t.combo = b /\ t.key_buffer = s.key_buffer /\ t.reported = s.reported
    BY <1>2 DEF State
<1>. QED BY <1>1, <1>3, <1>4

(* apply_combo() marks the entries of the chord.                             *)
Marked(s, c) ==
    [i \in DOMAIN s.key_buffer |->
        IF i \notin Chord(s, c) \/ \E n \in 1..(i - 1) : Completing(s, c, n) THEN s.key_buffer[i]
        ELSE [s.key_buffer[i] EXCEPT !.combo = IF Completing(s, c, i) THEN c ELSE TICK_EVENT]]

LEMMA Applies ==
    ASSUME NEW s \in State, NEW c \in Combo, ~s.combo[c].disabled
    PROVE  LET t == apply_combo(s, c) IN
           /\ t \in State /\ Shifted(s.combo_buffer, t.combo_buffer, c)
           /\ t.longest_term = s.longest_term /\ t.enabled = s.enabled /\ t.reported = s.reported
           /\ t.key_buffer = Marked(s, c) /\ t.out = s.out
           /\ \A d \in Combo :
                /\ t.combo[d].state = s.combo[d].state
                /\ t.combo[d].active = (s.combo[d].active
                      \/ (d = c /\ \E n \in DOMAIN s.key_buffer : Completing(s, c, n)))
                /\ t.combo[d].disabled
                     = (s.combo[d].disabled \/ (d = c /\ c \in Range(s.combo_buffer)))
<1>. DEFINE a == \E n \in DOMAIN s.key_buffer : Completing(s, c, n)
            b == [s.combo EXCEPT ![c] = [s.combo[c] EXCEPT !.active = s.combo[c].active \/ a]]
            u == [s EXCEPT !.key_buffer = Marked(s, c), !.combo = b]
            t == drop_combo_from_buffer(u, c)
<1>1. apply_combo(s, c) = t
    BY DEF apply_combo, Marked
<1>2. s.combo \in [Combo -> Bits] /\ s.key_buffer \in Seq(Entry) /\ Len(s.key_buffer) <= KEY_BUFFER_LENGTH
    BY DEF State, Buffer
<1>3. Marked(s, c) \in Buffer
  <2>. DEFINE m == Marked(s, c)
  <2>1. \A i \in 1..Len(s.key_buffer) : m[i] \in Entry
    <3>1. ASSUME NEW i \in 1..Len(s.key_buffer) PROVE m[i] \in Entry
      <4>1. s.key_buffer[i] \in Entry /\ i \in DOMAIN s.key_buffer
          BY <1>2
      <4>2. \/ m[i] = s.key_buffer[i] \/ m[i] = [s.key_buffer[i] EXCEPT !.combo = c]
            \/ m[i] = [s.key_buffer[i] EXCEPT !.combo = TICK_EVENT]
          BY <4>1, Zenon DEF Marked
      <4>. HIDE DEF m
      <4>. QED BY <4>1, <4>2 DEF Entry
    <3>. QED BY <3>1
  <2>2. DOMAIN m = 1..Len(s.key_buffer) /\ m = [i \in 1..Len(s.key_buffer) |-> m[i]]
      BY <1>2 DEF Marked
  <2>. HIDE DEF m
  <2>3. m \in Seq(Entry) /\ Len(m) = Len(s.key_buffer)
    <3>1. m \in [1..Len(s.key_buffer) -> Entry] /\ Len(s.key_buffer) \in Nat
      <4>1. m \in [1..Len(s.key_buffer) -> Entry]
          BY <2>1, <2>2, Zenon
      <4>. QED BY <4>1, <1>2
    <3>. QED BY <3>1, FunctionIsSeq
  <2>. QED BY <2>3, <1>2 DEF Buffer, m
<1>4. a \in BOOLEAN
    OBVIOUS
<1>. HIDE DEF a
<1>5. /\ b \in [Combo -> Bits]
      /\ \A d \in Combo : /\ b[d].state = s.combo[d].state /\ b[d].disabled = s.combo[d].disabled
                          /\ b[d].active = (s.combo[d].active \/ (d = c /\ a))
    BY <1>2, <1>4 DEF Bits
<1>. HIDE DEF b
<1>6. /\ u \in State /\ u.combo_buffer = s.combo_buffer /\ u.longest_term = s.longest_term
      /\ u.enabled = s.enabled /\ u.combo = b /\ u.key_buffer = Marked(s, c) /\ u.reported = s.reported
      /\ u.out = s.out
    BY <1>3, <1>5 DEF State
<1>. HIDE DEF u
<1>7. /\ Kept2(u, t) /\ Shifted(u.combo_buffer, t.combo_buffer, c)
      /\ \A d \in Combo : t.combo[d].disabled
                            = (u.combo[d].disabled \/ (d = c /\ c \in Range(u.combo_buffer)))
    BY <1>6, Drops
<1>. QED BY <1>1, <1>5, <1>6, <1>7 DEF Kept2, a

-----------------------------------------------------------------------------
(* What holds while combos are applied.                                      *)

(* The keys in the buffer, and those that no combo has taken there.          *)
KeptKeys(s) == {s.key_buffer[i].key : i \in DOMAIN s.key_buffer}
Alone(s)    == {s.key_buffer[i].key : i \in {j \in DOMAIN s.key_buffer : s.key_buffer[j].combo = NoCombo}}

DistinctKeys(s) ==
    \A i, j \in DOMAIN s.key_buffer : s.key_buffer[i].key = s.key_buffer[j].key => i = j

(* A combo counts keys that are down and its own, none of which is reported. *)
Counted(s, M) ==
    \A c \in Combo : /\ s.combo[c].state \subseteq M \cap KeysOf(c)
                     /\ \A k \in s.combo[c].state : [key |-> k] \notin s.reported

(* A key that is kept or reported is down, and never both.                   *)
KeysDown(s, M) ==
    /\ \A k \in KeptKeys(s) : k \in M /\ [key |-> k] \notin s.reported
    /\ \A k \in Key : [key |-> k] \in s.reported => k \in M

(* An active combo is disabled and has a key down that it took: such a combo *)
(* only is reported, or about to be.                                         *)
Actives(s) ==
    /\ \A c \in Combo : s.combo[c].active =>
          s.combo[c].disabled /\ s.combo[c].state # {} /\ s.combo[c].state \cap Alone(s) = {}
    /\ \A c \in Combo : [combo |-> c] \in s.reported => s.combo[c].active
    /\ \A i \in DOMAIN s.key_buffer :
          s.key_buffer[i].combo \in Combo => s.combo[s.key_buffer[i].combo].active

(* A combo that may still come counts its keys in the buffer, but for kk.    *)
CountsKept(s, kk) ==
    \A c \in Combo : ~s.combo[c].disabled => KeptKeys(s) \cap KeysOf(c) \subseteq s.combo[c].state \cup {kk}

Core(s, M, kk) ==
    /\ s \in State /\ DistinctKeys(s) /\ Distinct(s.combo_buffer)
    /\ Counted(s, M) /\ KeysDown(s, M) /\ Actives(s) /\ CountsKept(s, kk)

(* One combo of the ring is dealt with.                                      *)
DealtWith(s, t, c) ==
    /\ t \in State /\ t.longest_term = s.longest_term /\ t.enabled = s.enabled /\ t.reported = s.reported
    /\ KeptKeys(t) = KeptKeys(s) /\ Alone(t) \subseteq Alone(s) /\ t.out = s.out
    /\ Shifted(s.combo_buffer, t.combo_buffer, c)
    /\ \A d \in Combo : /\ t.combo[d].state = s.combo[d].state
                        /\ s.combo[d].active => t.combo[d].active
                        /\ s.combo[d].disabled => t.combo[d].disabled
                        /\ d # c => /\ t.combo[d].active = s.combo[d].active
                                    /\ t.combo[d].disabled = s.combo[d].disabled

LEMMA MarkedIs ==
    ASSUME NEW s \in State, NEW c \in Combo, DistinctKeys(s)
    PROVE  LET m == Marked(s, c) IN
           /\ DOMAIN m = DOMAIN s.key_buffer
           /\ \A i \in DOMAIN s.key_buffer :
                /\ m[i].key = s.key_buffer[i].key
                /\ s.key_buffer[i].key \in KeysOf(c) => m[i].combo # NoCombo
                /\ \/ m[i].combo = s.key_buffer[i].combo
                   \/ m[i].combo = TICK_EVENT
                   \/ m[i].combo = c /\ \E n \in DOMAIN s.key_buffer : Completing(s, c, n)
           /\ (\E n \in DOMAIN s.key_buffer : Completing(s, c, n)) => KeysOf(c) \subseteq KeptKeys(s)
<1>. DEFINE q == s.key_buffer
            m == Marked(s, c)
<1>1. q \in Seq(Entry) /\ DOMAIN q = 1..Len(q) /\ Len(q) \in Nat
    BY DEF State, Buffer
<1>2. c # NoCombo /\ TICK_EVENT # NoCombo
    BY DEF Combo, NoCombo, TICK_EVENT
<1>3. DOMAIN m = DOMAIN q
    BY DEF Marked
<1>4. ASSUME NEW i \in DOMAIN q
      PROVE  m[i] = IF i \notin Chord(s, c) \/ \E n \in 1..(i - 1) : Completing(s, c, n) THEN q[i]
                    ELSE [q[i] EXCEPT !.combo = IF Completing(s, c, i) THEN c ELSE TICK_EVENT]
    BY <1>4, Zenon DEF Marked
<1>5. ASSUME NEW i \in DOMAIN q, NEW n \in 1..(i - 1), Completing(s, c, n), q[i].key \in KeysOf(c)
      PROVE  FALSE
  <2>1. KeysOf(c) = {q[j].key : j \in {x \in Chord(s, c) : x <= n}}
      BY <1>5, Zenon DEF Completing, Completes
  <2>2. PICK j \in Chord(s, c) : j <= n /\ q[j].key = q[i].key
      BY <2>1, <1>5
  <2>3. j \in DOMAIN q
      BY <2>2 DEF Chord
  <2>4. j = i
      BY <2>2, <2>3 DEF DistinctKeys
  <2>. QED BY <2>4, <2>2, <1>1
<1>. HIDE DEF m
<1>6. ASSUME NEW i \in DOMAIN q
      PROVE  /\ m[i].key = q[i].key
             /\ q[i].key \in KeysOf(c) => m[i].combo # NoCombo
             /\ \/ m[i].combo = q[i].combo
                \/ m[i].combo = TICK_EVENT
                \/ m[i].combo = c /\ \E n \in DOMAIN q : Completing(s, c, n)
  <2>1. q[i] \in Entry
      BY <1>1
  <2>2. CASE i \in Chord(s, c) /\ ~\E n \in 1..(i - 1) : Completing(s, c, n)
    <3>1. m[i] = [q[i] EXCEPT !.combo = IF Completing(s, c, i) THEN c ELSE TICK_EVENT]
        BY <1>4, <2>2, Zenon
    <3>2. CASE Completing(s, c, i)
        BY <3>1, <3>2, <2>1, <1>2 DEF Entry
    <3>3. CASE ~Completing(s, c, i)
        BY <3>1, <3>3, <2>1, <1>2 DEF Entry
    <3>. QED BY <3>2, <3>3
  <2>3. CASE i \notin Chord(s, c) \/ \E n \in 1..(i - 1) : Completing(s, c, n)
    <3>1. m[i] = q[i]
        BY <1>4, <2>3, Zenon
    <3>2. q[i].key \notin KeysOf(c)
      <4>1. CASE i \notin Chord(s, c)
          BY <4>1 DEF Chord
      <4>2. CASE \E n \in 1..(i - 1) : Completing(s, c, n)
          BY <4>2, <1>5
      <4>. QED BY <4>1, <4>2, <2>3
    <3>. QED BY <3>1, <3>2
  <2>. QED BY <2>2, <2>3
<1>7. ASSUME NEW n \in DOMAIN q, Completing(s, c, n) PROVE KeysOf(c) \subseteq KeptKeys(s)
  <2>1. KeysOf(c) = {q[j].key : j \in {x \in Chord(s, c) : x <= n}}
      BY <1>7, Zenon DEF Completing, Completes
  <2>2. \A j \in Chord(s, c) : j \in DOMAIN q
      BY DEF Chord
  <2>. QED BY <2>1, <2>2 DEF KeptKeys
<1>. QED BY <1>3, <1>6, <1>7 DEF m

(* A combo of the ring that is applied is disabled, and its keys are taken.  *)
LEMMA AppliesOne ==
    ASSUME NEW M, NEW kk, NEW s, Core(s, M, kk), NEW c \in Combo, c \in Range(s.combo_buffer), TwoKeys
    PROVE  LET t == apply_combo(s, c) IN
           /\ Core(t, M, kk) /\ DealtWith(s, t, c)
           /\ ~s.combo[c].disabled => Alone(t) \cap KeysOf(c) = {}
<1>1. /\ s \in State /\ DistinctKeys(s) /\ Distinct(s.combo_buffer)
      /\ Counted(s, M) /\ KeysDown(s, M) /\ Actives(s) /\ CountsKept(s, kk)
    BY DEF Core
<1>2. CASE s.combo[c].disabled
  <2>1. apply_combo(s, c) = s
      BY <1>2 DEF apply_combo
  <2>. QED BY <2>1, <1>1, <1>2 DEF DealtWith, Shifted, Core
<1>3. CASE ~s.combo[c].disabled
  <2>. DEFINE t == apply_combo(s, c)
              q == s.key_buffer
              full == \E n \in DOMAIN s.key_buffer : Completing(s, c, n)
  <2>1. /\ t \in State /\ Shifted(s.combo_buffer, t.combo_buffer, c)
        /\ t.longest_term = s.longest_term /\ t.enabled = s.enabled /\ t.reported = s.reported
        /\ t.key_buffer = Marked(s, c) /\ t.out = s.out
        /\ \A d \in Combo :
             /\ t.combo[d].state = s.combo[d].state
             /\ t.combo[d].active = (s.combo[d].active \/ (d = c /\ full))
             /\ t.combo[d].disabled = (s.combo[d].disabled \/ d = c)
      BY <1>1, <1>3, Applies
  <2>. HIDE DEF t
  <2>2. /\ DOMAIN t.key_buffer = DOMAIN q
        /\ \A i \in DOMAIN q :
             /\ t.key_buffer[i].key = q[i].key
             /\ q[i].key \in KeysOf(c) => t.key_buffer[i].combo # NoCombo
             /\ \/ t.key_buffer[i].combo = q[i].combo \/ t.key_buffer[i].combo = TICK_EVENT
                \/ t.key_buffer[i].combo = c /\ full
        /\ full => KeysOf(c) \subseteq KeptKeys(s)
      BY <2>1, <1>1, MarkedIs
  <2>. HIDE DEF full
  <2>3. c # NoCombo /\ TICK_EVENT # NoCombo /\ TICK_EVENT \notin Combo
      BY DEF Combo, NoCombo, TICK_EVENT
  <2>4. KeptKeys(t) = KeptKeys(s)
      BY <2>2 DEF KeptKeys
  <2>5. Alone(t) \subseteq Alone(s) /\ Alone(t) \cap KeysOf(c) = {}
      BY <2>2, <2>3 DEF Alone
  <2>6. s.combo_buffer \in Ring
      BY <1>1 DEF State
  <2>7. Distinct(t.combo_buffer)
      BY <2>1, <2>6, <1>1, ShiftedIs
  <2>8. DistinctKeys(t)
      BY <1>1, <2>2 DEF DistinctKeys
  <2>9. Counted(t, M) /\ KeysDown(t, M) /\ CountsKept(t, kk)
      BY <1>1, <2>1, <2>4 DEF Counted, KeysDown, CountsKept
  <2>10. full => s.combo[c].state # {}
    <3>1. PICK i \in DOMAIN Keys[c], j \in DOMAIN Keys[c] : Keys[c][i] # Keys[c][j]
        BY DEF TwoKeys
    <3>2. Keys[c][i] \in KeysOf(c) /\ Keys[c][j] \in KeysOf(c)
        BY DEF KeysOf, Range
    <3>3. KeptKeys(s) \cap KeysOf(c) \subseteq s.combo[c].state \cup {kk}
        BY <1>1, <1>3 DEF CountsKept
    <3>. QED BY <3>1, <3>2, <3>3, <2>2
  <2>11. s.combo[c].state \subseteq KeysOf(c)
      BY <1>1 DEF Counted
  <2>12. Actives(t)
    <3>1. ASSUME NEW d \in Combo, t.combo[d].active
          PROVE  t.combo[d].disabled /\ t.combo[d].state # {} /\ t.combo[d].state \cap Alone(t) = {}
      <4>1. CASE d = c
        <5>1. t.combo[d].active = (s.combo[c].active \/ full) /\ t.combo[d].disabled
            BY <4>1, <2>1
        <5>2. full
            BY <5>1, <3>1, <1>1, <1>3 DEF Actives
        <5>. QED BY <4>1, <5>1, <5>2, <2>1, <2>5, <2>10, <2>11
      <4>2. CASE d # c
        <5>1. s.combo[d].active
            BY <3>1, <4>2, <2>1
        <5>. QED BY <5>1, <2>1, <2>5, <1>1 DEF Actives
      <4>. QED BY <4>1, <4>2
    <3>2. \A d \in Combo : [combo |-> d] \in t.reported => t.combo[d].active
        BY <2>1, <1>1 DEF Actives
    <3>3. ASSUME NEW i \in DOMAIN t.key_buffer, t.key_buffer[i].combo \in Combo
          PROVE  t.combo[t.key_buffer[i].combo].active
      <4>1. \/ t.key_buffer[i].combo = q[i].combo /\ s.combo[q[i].combo].active
            \/ t.key_buffer[i].combo = c /\ full
          BY <2>2, <2>3, <3>3, <1>1 DEF Actives
      <4>. QED BY <4>1, <3>3, <2>1
    <3>. QED BY <3>1, <3>2, <3>3 DEF Actives
  <2>13. \A d \in Combo : s.combo[d].disabled \in BOOLEAN /\ s.combo[d].active \in BOOLEAN
      BY <1>1 DEF State, Bits
  <2>14. DealtWith(s, t, c)
      BY <2>1, <2>4, <2>5, <2>13 DEF DealtWith
  <2>15. Core(t, M, kk)
      BY <2>1, <2>7, <2>8, <2>9, <2>12 DEF Core
  <2>. QED BY <2>5, <2>14, <2>15 DEF t
<1>. QED BY <1>2, <1>3

LEMMA DropsOne ==
    ASSUME NEW M, NEW kk, NEW s, Core(s, M, kk), NEW c \in Combo
    PROVE  LET t == drop_combo_from_buffer(s, c) IN Core(t, M, kk) /\ DealtWith(s, t, c)
<1>. DEFINE t == drop_combo_from_buffer(s, c)
<1>1. /\ s \in State /\ DistinctKeys(s) /\ Distinct(s.combo_buffer)
      /\ Counted(s, M) /\ KeysDown(s, M) /\ Actives(s) /\ CountsKept(s, kk)
    BY DEF Core
<1>2. /\ Kept2(s, t) /\ Shifted(s.combo_buffer, t.combo_buffer, c)
      /\ \A d \in Combo : t.combo[d].disabled
                            = (s.combo[d].disabled \/ (d = c /\ c \in Range(s.combo_buffer)))
    BY <1>1, Drops
<1>. HIDE DEF t
<1>3. KeptKeys(t) = KeptKeys(s) /\ Alone(t) = Alone(s) /\ DistinctKeys(t)
    BY <1>1, <1>2 DEF Kept2, KeptKeys, Alone, DistinctKeys
<1>4. s.combo_buffer \in Ring
    BY <1>1 DEF State
<1>5. Distinct(t.combo_buffer)
    BY <1>1, <1>2, <1>4, ShiftedIs
<1>6. Counted(t, M) /\ KeysDown(t, M) /\ CountsKept(t, kk)
    BY <1>1, <1>2, <1>3 DEF Counted, KeysDown, CountsKept, Kept2
<1>7. Actives(t)
    BY <1>1, <1>2, <1>3 DEF Actives, Kept2
<1>8. \A d \in Combo : s.combo[d].disabled \in BOOLEAN /\ s.combo[d].active \in BOOLEAN
    BY <1>1 DEF State, Bits
<1>9. DealtWith(s, t, c)
    BY <1>2, <1>3, <1>8 DEF DealtWith, Kept2
<1>. QED BY <1>2, <1>3, <1>5, <1>6, <1>7, <1>9 DEF Core, Kept2, t

-----------------------------------------------------------------------------
(* All combos of the ring are applied, and the keys handed on.               *)

LEMMA BufferedType ==
    ASSUME NEW s \in State, NEW c \in Combo
    PROVE  apply_buffered(s, c) \in State
<1>1. drop_combo_from_buffer(s, c) \in State
    BY Drops DEF Kept2
<1>2. apply_combo(s, c) \in State
  <2>1. CASE s.combo[c].disabled
      BY <2>1 DEF apply_combo
  <2>2. CASE ~s.combo[c].disabled
      BY <2>2, Applies
  <2>. QED BY <2>1, <2>2
<1>. QED BY <1>1, <1>2 DEF apply_buffered

LEMMA ApplyLoop ==
    ASSUME NEW s \in State
    PROVE  \E f \in [0..Len(s.combo_buffer) -> State] :
              /\ f[0] = s
              /\ \A i \in 1..Len(s.combo_buffer) : f[i] = apply_buffered(f[i - 1], s.combo_buffer[i])
              /\ apply_combos(s) = clear_combos(dump_key_buffer(f[Len(s.combo_buffer)]))
<1>. DEFINE q == s.combo_buffer
            N == Len(q)
            F == [p \in State \X Nat |->
                    IF p[2] \in 1..N THEN apply_buffered(p[1], q[p[2]]) ELSE p[1]]
            body(w) == [i \in 0..N |-> IF i = 0 THEN s ELSE apply_buffered(w[i - 1], q[i])]
            g == CHOOSE w : w = body(w)
<1>1. q \in Seq(Combo) /\ N \in Nat
    BY DEF State, Ring
<1>2. F \in [State \X Nat -> State]
  <2>1. ASSUME NEW u \in State, NEW n \in Nat
        PROVE  (IF n \in 1..N THEN apply_buffered(u, q[n]) ELSE u) \in State
    <3>1. n \in 1..N => q[n] \in Combo
        BY <1>1
    <3>. QED BY <3>1, BufferedType
  <2>. HIDE DEF N, q
  <2>. QED BY <2>1
<1>3. PICK f : Iterates(f, N, State, s, F)
  <2>. HIDE DEF F, N
  <2>. QED BY <1>1, <1>2, Recursion
<1>4. f \in [0..N -> State] /\ f[0] = s
  <2>1. 0 \in 0..N
      BY <1>1
  <2>. HIDE DEF F, N
  <2>. QED BY <1>3, <2>1 DEF Iterates
<1>5. ASSUME NEW i \in 1..N PROVE f[i] = apply_buffered(f[i - 1], q[i])
  <2>1. i \in 0..N /\ i # 0 /\ i - 1 \in 0..N /\ i \in Nat /\ f[i - 1] \in State
      BY <1>1, <1>4
  <2>2. f[i] = F[<<f[i - 1], i>>] /\ <<f[i - 1], i>> \in State \X Nat
      BY <1>3, <2>1 DEF Iterates
  <2>3. F[<<f[i - 1], i>>] = apply_buffered(f[i - 1], q[i])
      BY <2>2
  <2>. QED BY <2>2, <2>3
<1>6. f = body(f)
  <2>1. f = [i \in 0..N |-> f[i]]
      BY <1>4
  <2>2. \A i \in 0..N : f[i] = IF i = 0 THEN s ELSE apply_buffered(f[i - 1], q[i])
    <3>1. \A i \in 0..N : i # 0 => i \in 1..N
        BY <1>1
    <3>. QED BY <3>1, <1>4, <1>5
  <2>. QED BY <2>1, <2>2, Zenon
<1>7. apply_combos(s) = clear_combos(dump_key_buffer(g[N]))
    BY Zenon DEF apply_combos
<1>8. g = body(g)
  <2>. HIDE DEF body
  <2>. QED BY <1>6, Zenon
<1>9. \A i \in 0..N : g[i] = IF i = 0 THEN s ELSE apply_buffered(g[i - 1], q[i])
  <2>1. \A i \in 0..N : body(g)[i] = IF i = 0 THEN s ELSE apply_buffered(g[i - 1], q[i])
      BY Zenon
  <2>. HIDE DEF body, g
  <2>. QED BY <1>8, <2>1, Zenon
<1>. HIDE DEF g, body, F
<1>10. g[N] = f[N]
  <2>. DEFINE S == {i \in Nat : g[i] = f[i]}
  <2>1. 0 \in S
      BY <1>1, <1>4, <1>9
  <2>2. ASSUME NEW i \in 1..N, i - 1 \in S PROVE i \in S
    <3>1. i \in 0..N /\ i # 0 /\ i \in Nat
        BY <1>1
    <3>. QED BY <3>1, <2>2, <1>5, <1>9
  <2>. HIDE DEF S
  <2>3. \A n \in 0..N : n \in S
      BY <1>1, <2>1, <2>2, Induction
  <2>. QED BY <2>3, <1>1 DEF S
<1>. QED BY <1>4, <1>5, <1>7, <1>10

LEMMA AppliedType ==
    ASSUME NEW s \in State
    PROVE  apply_combos(s) \in State /\ apply_combos(s).key_buffer = <<>>
<1>. DEFINE N == Len(s.combo_buffer)
<1>1. PICK f \in [0..N -> State] :
              apply_combos(s) = clear_combos(dump_key_buffer(f[N]))
    BY ApplyLoop
<1>2. N \in Nat
    BY DEF State, Ring
<1>3. f[N] \in State
    BY <1>2
<1>. HIDE DEF N
<1>4. dump_key_buffer(f[N]) \in State /\ dump_key_buffer(f[N]).key_buffer = <<>>
    BY <1>3, Dumps DEF Sent
<1>. QED BY <1>1, <1>4, Clears

(* Every combo that is complete and may come is in the ring.                 *)
Fulls(s) ==
    \A c \in Combo : Full(s, c) /\ ~s.combo[c].disabled => c \in Range(s.combo_buffer)

(* The buffer is empty, and all that is left are the active combos.          *)
Settles(s, t, M, kk) ==
    /\ Core(t, M, kk) /\ t.key_buffer = <<>> /\ Fulls(t)
    /\ \A d \in Combo : IF t.combo[d].active THEN t.combo[d].state = s.combo[d].state
                                              ELSE t.combo[d] = Fresh

(* kk is not reported and will not be: a combo of the ring is going to take  *)
(* it, if none has.                                                          *)
Taken(s, kk) ==
    /\ [key |-> kk] \notin s.reported
    /\ kk \notin Alone(s)
       \/ \E c \in Range(s.combo_buffer) : ~must_wait(c) /\ ~s.combo[c].disabled /\ kk \in KeysOf(c)

LEMMA KeyIsNoCombo ==
    /\ \A k, c : [key |-> k] # [combo |-> c]
    /\ \A j, k : [key |-> j] = [key |-> k] => j = k
    /\ \A b, c : [combo |-> b] = [combo |-> c] => b = c
<1>1. ASSUME NEW k, NEW c, [key |-> k] = [combo |-> c] PROVE FALSE
  <2>1. DOMAIN [key |-> k] = {"key"} /\ DOMAIN [combo |-> c] = {"combo"}
      OBVIOUS
  <2>. QED BY <2>1, <1>1
<1>2. ASSUME NEW j, NEW k, [key |-> j] = [key |-> k] PROVE j = k
  <2>1. [key |-> j].key = j /\ [key |-> k].key = k
      OBVIOUS
  <2>. QED BY <1>2, <2>1
<1>3. ASSUME NEW b, NEW c, [combo |-> b] = [combo |-> c] PROVE b = c
  <2>1. [combo |-> b].combo = b /\ [combo |-> c].combo = c
      OBVIOUS
  <2>. QED BY <1>3, <2>1
<1>. QED BY <1>1, <1>2, <1>3

LEMMA DumpSettles ==
    ASSUME NEW M, NEW kk, NEW s, Core(s, M, kk), TwoKeys
    PROVE  LET t == clear_combos(dump_key_buffer(s)) IN
           /\ Settles(s, t, M, kk)
           /\ [key |-> kk] \notin s.reported /\ kk \notin Alone(s) => [key |-> kk] \notin t.reported
<1>. DEFINE u == dump_key_buffer(s)
            t == clear_combos(u)
            sent == {What(e) : e \in {x \in Range(s.key_buffer) : IsEvent(x)}}
<1>1. /\ s \in State /\ DistinctKeys(s) /\ Distinct(s.combo_buffer)
      /\ Counted(s, M) /\ KeysDown(s, M) /\ Actives(s) /\ CountsKept(s, kk)
    BY DEF Core
<1>2. /\ u \in State /\ u.combo_buffer = s.combo_buffer /\ u.combo = s.combo /\ u.key_buffer = <<>>
      /\ u.reported = s.reported \cup sent
    BY <1>1, Dumps DEF Sent
<1>. HIDE DEF u
<1>3. /\ t \in State /\ t.combo_buffer = s.combo_buffer /\ t.key_buffer = <<>>
      /\ t.reported = s.reported \cup sent
      /\ \A d \in Combo : t.combo[d] = IF s.combo[d].active THEN s.combo[d] ELSE Fresh
    BY <1>2, Clears
<1>. HIDE DEF t
<1>4. \A k : [key |-> k] \in sent => k \in Alone(s)
  <2>. SUFFICES ASSUME NEW k, [key |-> k] \in sent PROVE k \in Alone(s)
      OBVIOUS
  <2>1. s.key_buffer \in Seq(Entry)
      BY <1>1 DEF State, Buffer
  <2>2. PICK i \in DOMAIN s.key_buffer : IsEvent(s.key_buffer[i]) /\ What(s.key_buffer[i]) = [key |-> k]
      BY Zenon DEF Range
  <2>3. s.key_buffer[i] \in Entry
      BY <2>1
  <2>4. s.key_buffer[i].combo = NoCombo /\ s.key_buffer[i].key = k
      BY <2>2, <2>3, WhatIs, KeyIsNoCombo
  <2>. QED BY <2>4 DEF Alone
<1>5. \A c \in Combo : [combo |-> c] \in sent => s.combo[c].active
  <2>. SUFFICES ASSUME NEW c \in Combo, [combo |-> c] \in sent PROVE s.combo[c].active
      OBVIOUS
  <2>1. s.key_buffer \in Seq(Entry)
      BY <1>1 DEF State, Buffer
  <2>2. PICK i \in DOMAIN s.key_buffer : IsEvent(s.key_buffer[i]) /\ What(s.key_buffer[i]) = [combo |-> c]
      BY Zenon DEF Range
  <2>3. s.key_buffer[i] \in Entry
      BY <2>1
  <2>4. s.key_buffer[i].combo \in Combo /\ s.key_buffer[i].combo = c
      BY <2>2, <2>3, WhatIs, KeyIsNoCombo
  <2>. QED BY <2>4, <1>1 DEF Actives
<1>. HIDE DEF sent
<1>6. Alone(s) \subseteq KeptKeys(s)
    BY DEF Alone, KeptKeys
<1>7. KeptKeys(t) = {} /\ Alone(t) = {} /\ DistinctKeys(t)
    BY <1>3 DEF KeptKeys, Alone, DistinctKeys
<1>8. \A d \in Combo : /\ s.combo[d].active \in BOOLEAN
                       /\ t.combo[d].active => s.combo[d].active /\ t.combo[d] = s.combo[d]
                       /\ ~t.combo[d].active => t.combo[d] = Fresh /\ ~s.combo[d].active
  <2>1. \A d \in Combo : s.combo[d].active \in BOOLEAN
      BY <1>1 DEF State, Bits
  <2>2. ~Fresh.active
      BY DEF Fresh
  <2>. QED BY <2>1, <2>2, <1>3
<1>9. Fresh.state = {}
    BY DEF Fresh
<1>10. Counted(t, M)
  <2>1. ASSUME NEW c \in Combo
        PROVE  /\ t.combo[c].state \subseteq M \cap KeysOf(c)
               /\ \A k \in t.combo[c].state : [key |-> k] \notin t.reported
    <3>1. CASE t.combo[c].active
        BY <3>1, <1>1, <1>3, <1>4, <1>8 DEF Counted, Actives
    <3>2. CASE ~t.combo[c].active
        BY <3>2, <1>8, <1>9
    <3>. QED BY <3>1, <3>2
  <2>. QED BY <2>1 DEF Counted
<1>11. KeysDown(t, M)
    BY <1>1, <1>3, <1>4, <1>6, <1>7 DEF KeysDown
<1>12. Actives(t)
    BY <1>1, <1>3, <1>5, <1>7, <1>8 DEF Actives
<1>13. CountsKept(t, kk)
    BY <1>7 DEF CountsKept
<1>14. Fulls(t)
  <2>1. ASSUME NEW c \in Combo PROVE ~Full(t, c)
    <3>1. KeysOf(c) # {}
        BY DEF TwoKeys, KeysOf, Range
    <3>. QED BY <3>1, <1>8, <1>9 DEF Full
  <2>. QED BY <2>1 DEF Fulls
<1>15. Core(t, M, kk)
    BY <1>1, <1>3, <1>7, <1>10, <1>11, <1>12, <1>13 DEF Core
<1>16. \A d \in Combo : IF t.combo[d].active THEN t.combo[d].state = s.combo[d].state
                                              ELSE t.combo[d] = Fresh
    BY <1>8
<1>17. [key |-> kk] \notin s.reported /\ kk \notin Alone(s) => [key |-> kk] \notin t.reported
    BY <1>3, <1>4
<1>18. Settles(s, t, M, kk)
    BY <1>3, <1>14, <1>15, <1>16 DEF Settles
<1>. QED BY <1>17, <1>18 DEF t, u

LEMMA BufferedOne ==
    ASSUME NEW M, NEW kk, NEW s, Core(s, M, kk), NEW c \in Combo, c \in Range(s.combo_buffer), TwoKeys
    PROVE  LET t == apply_buffered(s, c) IN
           /\ Core(t, M, kk) /\ DealtWith(s, t, c)
           /\ ~s.combo[c].disabled /\ c \notin MUST_TAP => Alone(t) \cap KeysOf(c) = {}
BY AppliesOne, DropsOne DEF apply_buffered

LEMMA AppliesAll ==
    ASSUME NEW M, NEW kk, NEW s, Core(s, M, kk), TwoKeys
    PROVE  LET t == apply_combos(s) IN
           Settles(s, t, M, kk) /\ (Taken(s, kk) => [key |-> kk] \notin t.reported)
<1>. DEFINE q == s.combo_buffer
            N == Len(q)
<1>1. s \in State /\ Distinct(q)
    BY DEF Core
<1>2. q \in Ring /\ q \in Seq(Combo) /\ N \in Nat /\ DOMAIN q = 1..N
    BY <1>1 DEF State, Ring
<1>3. PICK f \in [0..N -> State] :
              /\ f[0] = s
              /\ \A i \in 1..N : f[i] = apply_buffered(f[i - 1], q[i])
              /\ apply_combos(s) = clear_combos(dump_key_buffer(f[N]))
    BY <1>1, ApplyLoop
<1>. HIDE DEF N, q
<1>. DEFINE Behind(r, i) == \A j \in 1..N : j > i => q[j] \in Range(r.combo_buffer)
            Coming(r, i) == \E j \in 1..N : j > i /\ ~must_wait(q[j]) /\ ~r.combo[q[j]].disabled
                                             /\ kk \in KeysOf(q[j])
            Good(r, i) == /\ Core(r, M, kk) /\ Behind(r, i) /\ r.reported = s.reported
                          /\ \A d \in Combo : r.combo[d].state = s.combo[d].state
                          /\ Taken(s, kk) => kk \notin Alone(r) \/ Coming(r, i)
            S == {i \in Nat : i <= N /\ Good(f[i], i)}
<1>4. Good(s, 0)
  <2>1. \A j \in 1..N : j > 0 /\ q[j] \in Range(q)
      BY <1>2 DEF Range
  <2>2. Taken(s, kk) => kk \notin Alone(s) \/ Coming(s, 0)
    <3>1. \A c \in Range(q) : \E j \in 1..N : q[j] = c
        BY <1>2 DEF Range
    <3>. QED BY <3>1, <2>1 DEF Taken, q
  <2>. QED BY <2>1, <2>2 DEF q
<1>5. ASSUME NEW i \in 1..N, Good(f[i - 1], i - 1) PROVE Good(f[i], i)
  <2>. DEFINE r == f[i - 1]
              t == f[i]
              c == q[i]
  <2>1. c \in Combo /\ i > i - 1 /\ i \in Nat
      BY <1>2
  <2>2. Core(r, M, kk) /\ c \in Range(r.combo_buffer)
      BY <1>5, <2>1
  <2>3. t = apply_buffered(r, c)
      BY <1>3
  <2>. HIDE DEF r, t, c
  <2>4. /\ Core(t, M, kk) /\ DealtWith(r, t, c)
        /\ ~r.combo[c].disabled /\ c \notin MUST_TAP => Alone(t) \cap KeysOf(c) = {}
      BY <2>1, <2>2, <2>3, BufferedOne
  <2>5. \A j \in 1..N : j > i => /\ q[j] # c /\ q[j] \in Combo /\ j > i - 1
    <3>1. ASSUME NEW j \in 1..N, j > i PROVE q[j] # c
      <4>1. j # i
          BY <3>1, <2>1
      <4>. QED BY <4>1, <1>1, <1>2 DEF Distinct, c
    <3>. QED BY <3>1, <1>2, <2>1
  <2>6. r.combo_buffer \in Ring
      BY <2>2 DEF Core, State
  <2>7. \A d \in Range(r.combo_buffer) : d # c => d \in Range(t.combo_buffer)
      BY <2>4, <2>6, ShiftedIs DEF DealtWith
  <2>8. Behind(t, i)
      BY <1>5, <2>5, <2>7 DEF r
  <2>9. t.reported = s.reported /\ \A d \in Combo : t.combo[d].state = s.combo[d].state
      BY <1>5, <2>4 DEF r, DealtWith
  <2>10. ASSUME Taken(s, kk), kk \in Alone(t) PROVE Coming(t, i)
    <3>1. kk \in Alone(r)
        BY <2>10, <2>4 DEF DealtWith
    <3>2. PICK j \in 1..N : j > i - 1 /\ ~must_wait(q[j]) /\ ~r.combo[q[j]].disabled
                             /\ kk \in KeysOf(q[j])
        BY <3>1, <2>10, <1>5 DEF r
    <3>3. CASE j = i
        BY <3>3, <3>2, <2>4, <2>10 DEF c, must_wait
    <3>4. CASE j # i
      <4>1. j > i
          BY <3>2, <3>4, <1>2
      <4>2. ~t.combo[q[j]].disabled
          BY <4>1, <3>2, <2>4, <2>5 DEF DealtWith
      <4>. QED BY <4>1, <4>2, <3>2
    <3>. QED BY <3>3, <3>4
  <2>. QED BY <2>4, <2>8, <2>9, <2>10 DEF t
<1>6. Good(f[N], N)
  <2>1. 0 \in S
      BY <1>2, <1>3, <1>4
  <2>2. ASSUME NEW i \in 1..N, i - 1 \in S PROVE i \in S
    <3>1. Good(f[i - 1], i - 1) /\ i \in Nat /\ i <= N
        BY <2>2, <1>2
    <3>2. Good(f[i], i)
        BY <3>1, <1>5
    <3>. HIDE DEF Good
    <3>. QED BY <3>1, <3>2
  <2>3. N \in S
    <3>. HIDE DEF S
    <3>1. \A n \in 0..N : n \in S
        BY <1>2, <2>1, <2>2, Induction
    <3>. QED BY <3>1, <1>2
  <2>. HIDE DEF Good
  <2>. QED BY <2>3
<1>. DEFINE r == f[N]
            t == clear_combos(dump_key_buffer(r))
<1>7. /\ Core(r, M, kk) /\ r.reported = s.reported
      /\ \A d \in Combo : r.combo[d].state = s.combo[d].state
      /\ Taken(s, kk) => kk \notin Alone(r)
    BY <1>6, <1>2
<1>. HIDE DEF r
<1>8. /\ Settles(r, t, M, kk)
      /\ [key |-> kk] \notin r.reported /\ kk \notin Alone(r) => [key |-> kk] \notin t.reported
    BY <1>7, DumpSettles
<1>9. apply_combos(s) = t
    BY <1>3 DEF r
<1>. HIDE DEF t
<1>10. Settles(s, t, M, kk)
    BY <1>7, <1>8 DEF Settles
<1>11. Taken(s, kk) => [key |-> kk] \notin t.reported
    BY <1>7, <1>8 DEF Taken
<1>. QED BY <1>9, <1>10, <1>11

-----------------------------------------------------------------------------
(* A key of a combo is released.                                             *)

LEMMA SettledType ==
    ASSUME NEW s \in State
    PROVE  Settled(s) \in State /\ Settled(s).key_buffer = <<>>
<1>1. clear_combos(dump_key_buffer(s)) \in State /\ clear_combos(dump_key_buffer(s)).key_buffer = <<>>
  <2>1. dump_key_buffer(s) \in State /\ dump_key_buffer(s).key_buffer = <<>>
      BY Dumps DEF Sent
  <2>. QED BY <2>1, Clears
<1>. QED BY <1>1, AppliedType DEF Settled

LEMMA SettledSettles ==
    ASSUME NEW M, NEW kk, NEW s, Core(s, M, kk), TwoKeys
    PROVE  Settles(s, Settled(s), M, kk) /\ (Taken(s, kk) => [key |-> kk] \notin Settled(s).reported)
<1>1. CASE s.combo_buffer # <<>>
    BY <1>1, AppliesAll DEF Settled
<1>2. CASE s.combo_buffer = <<>>
  <2>1. Range(s.combo_buffer) = {}
      BY <1>2 DEF Range
  <2>2. Taken(s, kk) => [key |-> kk] \notin s.reported /\ kk \notin Alone(s)
      BY <2>1 DEF Taken
  <2>. QED BY <1>2, <2>2, DumpSettles DEF Settled
<1>. QED BY <1>1, <1>2

(* No entry of the buffer is of a combo, and all are presses.                *)
Plain(s) == \A i \in DOMAIN s.key_buffer : s.key_buffer[i].combo = NoCombo /\ s.key_buffer[i].pressed

(* The three things that are done in turn.                                   *)
Handled(s, c) ==
    IF Tapped(s, c) THEN apply_combos(apply_combo(s, c))
    ELSE IF Full(s, c) /\ (s.combo[c].disabled \/ c \in MUST_HOLD) THEN drop_combo_from_buffer(s, c) ELSE s
Ended(s, x, c, k) ==
    IF LastHeld(s, c, k) \/ ReleasesEarly(s, c, k) THEN release_combo(x, c, k) ELSE x
Forgotten(s, c, k) == [s EXCEPT !.combo[c].state = @ \ {k}]

LEMMA ReleaseIs ==
    ASSUME NEW s, NEW c, NEW k
    PROVE  ReleaseInCombo(s, c, k) = Forgotten(Ended(s, Handled(s, c), c, k), c, k)
BY Zenon DEF ReleaseInCombo, Forgotten, Ended, Handled

LEMMA Forgets ==
    ASSUME NEW s \in State, NEW c \in Combo, NEW k
    PROVE  LET t == Forgotten(s, c, k) IN
           /\ t \in State /\ t.combo_buffer = s.combo_buffer /\ t.longest_term = s.longest_term
           /\ t.out = s.out /\ t.enabled = s.enabled /\ t.key_buffer = s.key_buffer /\ t.reported = s.reported
           /\ \A d \in Combo : /\ t.combo[d].active = s.combo[d].active
                               /\ t.combo[d].disabled = s.combo[d].disabled
                               /\ t.combo[d].state = s.combo[d].state \ (IF d = c THEN {k} ELSE {})
<1>. DEFINE b == [s.combo EXCEPT ![c] = [s.combo[c] EXCEPT !.state = s.combo[c].state \ {k}]]
            t == [s EXCEPT !.combo = b]
<1>1. Forgotten(s, c, k) = t
    BY DEF Forgotten
<1>2. s.combo \in [Combo -> Bits]
    BY DEF State
<1>3. /\ b \in [Combo -> Bits]
      /\ \A d \in Combo : /\ b[d].active = s.combo[d].active /\ b[d].disabled = s.combo[d].disabled
                          /\ b[d].state = s.combo[d].state \ (IF d = c THEN {k} ELSE {})
    BY <1>2 DEF Bits
<1>. HIDE DEF b
<1>4. /\ t \in State /\ t.combo_buffer = s.combo_buffer /\ t.longest_term = s.longest_term
      /\ t.out = s.out /\ t.enabled = s.enabled /\ t.combo = b /\ t.key_buffer = s.key_buffer /\ t.reported = s.reported
    BY <1>3 DEF State
<1>. HIDE DEF t
<1>. QED BY <1>1, <1>3, <1>4

LEMMA HandledType ==
    ASSUME NEW s \in State, NEW c \in Combo, Plain(s)
    PROVE  Handled(s, c) \in State /\ Plain(Handled(s, c))
<1>1. CASE Tapped(s, c)
  <2>1. ~s.combo[c].disabled
      BY <1>1 DEF Tapped
  <2>2. apply_combo(s, c) \in State
      BY <2>1, Applies
  <2>3. Handled(s, c) \in State /\ Handled(s, c).key_buffer = <<>>
      BY <1>1, <2>2, AppliedType DEF Handled
  <2>. QED BY <2>3 DEF Plain
<1>2. CASE ~Tapped(s, c)
  <2>1. drop_combo_from_buffer(s, c) \in State /\ drop_combo_from_buffer(s, c).key_buffer = s.key_buffer
      BY Drops DEF Kept2
  <2>. QED BY <1>2, <2>1 DEF Handled, Plain
<1>. QED BY <1>1, <1>2

LEMMA ReleaseType ==
    ASSUME NEW s \in State, NEW c \in Combo, NEW k \in Key, Plain(s)
    PROVE  ReleaseInCombo(s, c, k) \in State /\ Plain(ReleaseInCombo(s, c, k))
<1>. DEFINE x == Handled(s, c)
            y == Ended(s, x, c, k)
            t == Forgotten(y, c, k)
<1>1. x \in State /\ Plain(x)
    BY HandledType
<1>. HIDE DEF x
<1>2. y \in State /\ y.key_buffer = x.key_buffer
    BY <1>1, Releases DEF Ended, Sent
<1>. HIDE DEF y
<1>3. t \in State /\ t.key_buffer = y.key_buffer
    BY <1>2, Forgets
<1>. HIDE DEF t
<1>4. Plain(t)
    BY <1>1, <1>2, <1>3 DEF Plain
<1>. QED BY <1>3, <1>4, ReleaseIs DEF x, y, t

(* First it is applied, dropped or left alone.                               *)
LEMMA Handles ==
    ASSUME NEW M, NEW k \in Key, NEW s, Core(s, M, k), Fulls(s), Plain(s), TwoKeys,
           NEW c \in Combo, k \in KeysOf(c)
    PROVE  LET x == Handled(s, c) IN
           /\ Core(x, M, k) /\ Fulls(x) /\ Plain(x)
           /\ Taken(s, k) \/ Swallowed(s, c, k) => Taken(x, k)
           /\ \A d \in Combo : x.combo[d].state \subseteq s.combo[d].state
           /\ x.combo[c].active => x.combo[c].state = s.combo[c].state
           /\ ~Tapped(s, c) => x.combo[c].active = s.combo[c].active
<1>. DEFINE x == Handled(s, c)
<1>1. /\ s \in State /\ Counted(s, M) /\ Actives(s)
    BY DEF Core
<1>2. Plain(x)
    BY <1>1, HandledType
<1>3. k \in s.combo[c].state => [key |-> k] \notin s.reported
    BY <1>1 DEF Counted
<1>4. Full(s, c) => k \in s.combo[c].state
    BY DEF Full
<1>5. s.combo_buffer \in Ring
    BY <1>1 DEF State
<1>6. CASE Tapped(s, c)
  <2>. DEFINE u == apply_combo(s, c)
  <2>1. Full(s, c) /\ ~s.combo[c].disabled
      BY <1>6 DEF Tapped
  <2>2. c \in Range(s.combo_buffer)
      BY <2>1 DEF Fulls
  <2>3. Core(u, M, k) /\ DealtWith(s, u, c) /\ Alone(u) \cap KeysOf(c) = {}
      BY <2>1, <2>2, AppliesOne
  <2>4. x = apply_combos(u)
      BY <1>6 DEF Handled
  <2>. HIDE DEF u, x
  <2>5. Taken(u, k)
      BY <2>1, <2>3, <1>3, <1>4 DEF Taken, DealtWith
  <2>6. Settles(u, x, M, k) /\ [key |-> k] \notin x.reported
      BY <2>3, <2>4, <2>5, AppliesAll
  <2>7. Core(x, M, k) /\ Fulls(x) /\ x.key_buffer = <<>>
      BY <2>6 DEF Settles, Core, CountsKept
  <2>8. Alone(x) = {}
      BY <2>7 DEF Alone
  <2>9. Taken(x, k)
      BY <2>6, <2>8 DEF Taken
  <2>10. Fresh.state = {} /\ ~Fresh.active
      BY DEF Fresh
  <2>11. \A d \in Combo : /\ x.combo[d].state \subseteq s.combo[d].state
                          /\ x.combo[d].active => x.combo[d].state = s.combo[d].state
      BY <2>3, <2>6, <2>10 DEF Settles, DealtWith
  <2>. QED BY <1>2, <1>6, <2>7, <2>9, <2>11 DEF x
<1>7. CASE ~Tapped(s, c) /\ Full(s, c) /\ (s.combo[c].disabled \/ c \in MUST_HOLD)
  <2>1. x = drop_combo_from_buffer(s, c)
      BY <1>7 DEF Handled
  <2>. HIDE DEF x
  <2>2. Core(x, M, k) /\ DealtWith(s, x, c)
      BY <2>1, DropsOne
  <2>3. \A d \in Combo : /\ x.combo[d].state = s.combo[d].state /\ x.combo[d].active = s.combo[d].active
                         /\ x.combo[d].disabled = (s.combo[d].disabled \/ (d = c /\ c \in Range(s.combo_buffer)))
      BY <2>1, <1>1, Drops DEF Kept2
  <2>4. \A d \in Range(s.combo_buffer) : d # c => d \in Range(x.combo_buffer)
      BY <2>2, <1>5, ShiftedIs DEF DealtWith
  <2>5. Fulls(x)
      BY <2>3, <2>4 DEF Fulls, Full
  <2>6. Taken(s, k) => Taken(x, k)
    <3>1. ASSUME NEW d \in Range(s.combo_buffer), ~must_wait(d), ~s.combo[d].disabled
          PROVE  d \in Range(x.combo_buffer) /\ ~x.combo[d].disabled
      <4>1. d # c /\ d \in Combo
        <5>1. s.combo_buffer \in Seq(Combo)
            BY <1>5 DEF Ring
        <5>2. d \in Combo
            BY <5>1 DEF Range
        <5>. QED BY <5>2, <3>1, <1>7 DEF must_wait
      <4>. QED BY <4>1, <3>1, <2>3, <2>4
    <3>. QED BY <3>1, <2>2 DEF Taken, DealtWith
  <2>7. ~Swallowed(s, c, k)
      BY <1>7 DEF Swallowed, Full, Held
  <2>. QED BY <1>2, <2>2, <2>3, <2>5, <2>6, <2>7 DEF x
<1>8. CASE ~Tapped(s, c) /\ ~(Full(s, c) /\ (s.combo[c].disabled \/ c \in MUST_HOLD))
  <2>1. x = s
      BY <1>8 DEF Handled
  <2>2. ASSUME Swallowed(s, c, k) PROVE Taken(s, k)
    <3>1. CASE Held(s, c, k)
        BY <3>1, <1>1, <1>3 DEF Held, Actives, Taken
    <3>2. CASE ~Held(s, c, k)
      <4>1. Full(s, c) /\ ~s.combo[c].disabled /\ c \notin MUST_HOLD
          BY <2>2, <3>2 DEF Swallowed
      <4>2. ~must_wait(c)
          BY <4>1, <1>8 DEF Tapped, must_wait
      <4>3. c \in Range(s.combo_buffer)
          BY <4>1 DEF Fulls
      <4>. QED BY <4>1, <4>2, <4>3, <1>3, <1>4 DEF Taken
    <3>. QED BY <3>1, <3>2
  <2>. HIDE DEF x
  <2>3. \A d \in Combo : x.combo[d].state \subseteq s.combo[d].state
      BY <2>1
  <2>. QED BY <1>2, <2>1, <2>2, <2>3 DEF x
<1>. QED BY <1>6, <1>7, <1>8

(* Then the combo may end.                                                   *)
LEMMA EndsCombo ==
    ASSUME NEW M, NEW k \in Key, NEW s, Core(s, M, k), Fulls(s), Plain(s), NEW c \in Combo
    PROVE  LET y == release_combo(s, c, k) IN
           /\ Core(y, M, k) /\ Fulls(y) /\ Plain(y) /\ ~y.combo[c].active
           /\ Taken(s, k) => Taken(y, k)
           /\ \A d \in Combo : y.combo[d].state = s.combo[d].state
<1>. DEFINE y == release_combo(s, c, k)
<1>1. /\ s \in State /\ DistinctKeys(s) /\ Distinct(s.combo_buffer)
      /\ Counted(s, M) /\ KeysDown(s, M) /\ Actives(s) /\ CountsKept(s, k)
    BY DEF Core
<1>2. /\ y \in State /\ y.combo_buffer = s.combo_buffer /\ y.key_buffer = s.key_buffer
      /\ y.reported = s.reported \ {[combo |-> c]}
      /\ \A d \in Combo : /\ y.combo[d].state = s.combo[d].state
                          /\ y.combo[d].disabled = s.combo[d].disabled
                          /\ y.combo[d].active = (s.combo[d].active /\ d # c)
    BY <1>1, Releases DEF Sent
<1>. HIDE DEF y
<1>3. KeptKeys(y) = KeptKeys(s) /\ Alone(y) = Alone(s) /\ DistinctKeys(y) /\ Plain(y)
    BY <1>1, <1>2 DEF KeptKeys, Alone, DistinctKeys, Plain
<1>4. \A w : [key |-> w] \in y.reported <=> [key |-> w] \in s.reported
    BY <1>2, KeyIsNoCombo
<1>5. Counted(y, M) /\ KeysDown(y, M) /\ CountsKept(y, k)
  <2>1. Counted(y, M)
      BY <1>1, <1>2, <1>4 DEF Counted
  <2>2. KeysDown(y, M)
    <3>1. \A w \in KeptKeys(y) : w \in M /\ [key |-> w] \notin y.reported
        BY <1>1, <1>3, <1>4 DEF KeysDown
    <3>2. \A w \in Key : [key |-> w] \in y.reported => w \in M
        BY <1>1, <1>4 DEF KeysDown
    <3>. QED BY <3>1, <3>2 DEF KeysDown
  <2>3. CountsKept(y, k)
      BY <1>1, <1>2, <1>3 DEF CountsKept
  <2>. QED BY <2>1, <2>2, <2>3
<1>6. Actives(y)
  <2>1. ASSUME NEW d \in Combo, y.combo[d].active
        PROVE  y.combo[d].disabled /\ y.combo[d].state # {} /\ y.combo[d].state \cap Alone(y) = {}
    <3>1. /\ s.combo[d].active /\ y.combo[d].state = s.combo[d].state
          /\ y.combo[d].disabled = s.combo[d].disabled
        BY <1>2, <2>1
    <3>2. s.combo[d].disabled /\ s.combo[d].state # {} /\ s.combo[d].state \cap Alone(s) = {}
        BY <1>1, <3>1 DEF Actives
    <3>. QED BY <1>3, <3>1, <3>2
  <2>2. ASSUME NEW d \in Combo, [combo |-> d] \in y.reported PROVE y.combo[d].active
    <3>1. [combo |-> d] \in s.reported /\ [combo |-> d] # [combo |-> c]
      <4>1. [combo |-> d] \in s.reported \ {[combo |-> c]}
          BY <1>2, <2>2, Zenon
      <4>. QED BY <4>1, Zenon
    <3>2. s.combo[d].active
        BY <1>1, <3>1 DEF Actives
    <3>3. d # c
        BY <3>1, Zenon
    <3>. QED BY <1>2, <3>2, <3>3
  <2>3. NoCombo \notin Combo
      BY DEF Combo, NoCombo
  <2>4. \A i \in DOMAIN y.key_buffer : y.key_buffer[i].combo \notin Combo
      BY <1>3, <2>3 DEF Plain
  <2>. QED BY <2>1, <2>2, <2>4 DEF Actives
<1>7. Fulls(y)
    BY <1>1, <1>2 DEF Fulls, Full, Actives
<1>8. Taken(s, k) => Taken(y, k)
  <2>1. s.combo_buffer \in Seq(Combo)
      BY <1>1 DEF State, Ring
  <2>2. Range(s.combo_buffer) \subseteq Combo
      BY <2>1 DEF Range
  <2>. QED BY <1>2, <1>3, <1>4, <2>2 DEF Taken
<1>9. Core(y, M, k)
    BY <1>1, <1>2, <1>3, <1>5, <1>6 DEF Core
<1>. QED BY <1>2, <1>3, <1>7, <1>8, <1>9 DEF y

(* At last the key no longer counts.                                         *)
LEMMA ForgetsKey ==
    ASSUME NEW M, NEW k \in Key, NEW s, Core(s, M, k), Fulls(s), Plain(s),
           NEW c \in Combo, k \in KeysOf(c), s.combo[c].active => s.combo[c].state # {k}
    PROVE  LET t == Forgotten(s, c, k) IN
           /\ Core(t, M, k) /\ Fulls(t) /\ Plain(t) /\ k \notin t.combo[c].state
           /\ Taken(s, k) => Taken(t, k)
           /\ \A d \in Combo : t.combo[d].state \subseteq s.combo[d].state
<1>. DEFINE t == Forgotten(s, c, k)
<1>1. /\ s \in State /\ DistinctKeys(s) /\ Distinct(s.combo_buffer)
      /\ Counted(s, M) /\ KeysDown(s, M) /\ Actives(s) /\ CountsKept(s, k)
    BY DEF Core
<1>2. /\ t \in State /\ t.combo_buffer = s.combo_buffer /\ t.key_buffer = s.key_buffer
      /\ t.reported = s.reported
      /\ \A d \in Combo : /\ t.combo[d].active = s.combo[d].active
                          /\ t.combo[d].disabled = s.combo[d].disabled
                          /\ t.combo[d].state = s.combo[d].state \ (IF d = c THEN {k} ELSE {})
    BY <1>1, Forgets
<1>. HIDE DEF t
<1>3. /\ k \notin t.combo[c].state
      /\ \A d \in Combo : /\ t.combo[d].state \subseteq s.combo[d].state
                          /\ d # c => t.combo[d].state = s.combo[d].state
                          /\ s.combo[d].state \subseteq t.combo[d].state \cup {k}
    BY <1>2
<1>4. KeptKeys(t) = KeptKeys(s) /\ Alone(t) = Alone(s) /\ DistinctKeys(t) /\ Plain(t)
    BY <1>1, <1>2 DEF KeptKeys, Alone, DistinctKeys, Plain
<1>5. Counted(t, M)
    BY <1>1, <1>2, <1>3 DEF Counted
<1>6. KeysDown(t, M)
    BY <1>1, <1>2, <1>4 DEF KeysDown
<1>7. CountsKept(t, k)
    BY <1>1, <1>2, <1>3, <1>4 DEF CountsKept
<1>8. Actives(t)
  <2>1. ASSUME NEW d \in Combo, t.combo[d].active
        PROVE  t.combo[d].disabled /\ t.combo[d].state # {} /\ t.combo[d].state \cap Alone(t) = {}
    <3>1. /\ s.combo[d].active /\ s.combo[d].disabled /\ s.combo[d].state # {}
          /\ s.combo[d].state \cap Alone(s) = {}
        BY <2>1, <1>1, <1>2 DEF Actives
    <3>2. t.combo[d].state # {}
        BY <3>1, <1>3
    <3>. QED BY <3>1, <3>2, <1>2, <1>3, <1>4
  <2>2. \A d \in Combo : [combo |-> d] \in t.reported => t.combo[d].active
      BY <1>1, <1>2 DEF Actives
  <2>3. \A i \in DOMAIN t.key_buffer :
          t.key_buffer[i].combo \in Combo => t.combo[t.key_buffer[i].combo].active
      BY <1>1, <1>2 DEF Actives
  <2>. QED BY <2>1, <2>2, <2>3 DEF Actives
<1>9. Fulls(t)
  <2>1. ASSUME NEW d \in Combo, Full(t, d), ~t.combo[d].disabled PROVE d \in Range(t.combo_buffer)
    <3>1. d # c
        BY <2>1, <1>3 DEF Full
    <3>2. Full(s, d) /\ ~s.combo[d].disabled
        BY <2>1, <3>1, <1>2, <1>3 DEF Full
    <3>. QED BY <3>2, <1>2 DEF Fulls
  <2>. QED BY <2>1 DEF Fulls
<1>10. Taken(s, k) => Taken(t, k)
  <2>1. s.combo_buffer \in Seq(Combo)
      BY <1>1 DEF State, Ring
  <2>2. Range(s.combo_buffer) \subseteq Combo
      BY <2>1 DEF Range
  <2>. QED BY <1>2, <1>4, <2>2 DEF Taken
<1>11. Core(t, M, k)
    BY <1>1, <1>2, <1>4, <1>5, <1>6, <1>7, <1>8 DEF Core
<1>. QED BY <1>3, <1>4, <1>9, <1>10, <1>11 DEF t

LEMMA ReleaseKeeps ==
    ASSUME NEW M, NEW k \in Key, NEW s, Core(s, M, k), Fulls(s), Plain(s), TwoKeys,
           NEW c \in Combo, k \in KeysOf(c)
    PROVE  LET t == ReleaseInCombo(s, c, k) IN
           /\ Core(t, M, k) /\ Fulls(t) /\ Plain(t) /\ k \notin t.combo[c].state
           /\ Taken(s, k) \/ Swallowed(s, c, k) => Taken(t, k)
           /\ \A d \in Combo : t.combo[d].state \subseteq s.combo[d].state
<1>. DEFINE x == Handled(s, c)
            y == Ended(s, x, c, k)
            t == Forgotten(y, c, k)
<1>1. /\ Core(x, M, k) /\ Fulls(x) /\ Plain(x)
      /\ Taken(s, k) \/ Swallowed(s, c, k) => Taken(x, k)
      /\ \A d \in Combo : x.combo[d].state \subseteq s.combo[d].state
      /\ x.combo[c].active => x.combo[c].state = s.combo[c].state
      /\ ~Tapped(s, c) => x.combo[c].active = s.combo[c].active
    BY Handles
<1>. HIDE DEF x
<1>2. /\ Core(y, M, k) /\ Fulls(y) /\ Plain(y)
      /\ Taken(x, k) => Taken(y, k)
      /\ \A d \in Combo : y.combo[d].state = x.combo[d].state
      /\ LastHeld(s, c, k) \/ ReleasesEarly(s, c, k) => ~y.combo[c].active
      /\ ~LastHeld(s, c, k) => y = x \/ ~y.combo[c].active
  <2>1. CASE LastHeld(s, c, k) \/ ReleasesEarly(s, c, k)
    <3>1. y = release_combo(x, c, k)
        BY <2>1 DEF Ended
    <3>. HIDE DEF y
    <3>2. /\ Core(y, M, k) /\ Fulls(y) /\ Plain(y) /\ ~y.combo[c].active
          /\ Taken(x, k) => Taken(y, k)
          /\ \A d \in Combo : y.combo[d].state = x.combo[d].state
      <4>1. Core(x, M, k) /\ Fulls(x) /\ Plain(x)
          BY <1>1
      <4>. DEFINE z == release_combo(x, c, k)
      <4>2. /\ Core(z, M, k) /\ Fulls(z) /\ Plain(z) /\ ~z.combo[c].active
            /\ Taken(x, k) => Taken(z, k)
            /\ \A d \in Combo : z.combo[d].state = x.combo[d].state
          BY <4>1, EndsCombo
      <4>. HIDE DEF z
      <4>. QED BY <3>1, <4>2 DEF z
    <3>. QED BY <3>2
  <2>2. CASE ~(LastHeld(s, c, k) \/ ReleasesEarly(s, c, k))
    <3>1. y = x
        BY <2>2 DEF Ended
    <3>. HIDE DEF y
    <3>. QED BY <3>1, <1>1, <2>2
  <2>. QED BY <2>1, <2>2
<1>. HIDE DEF y
<1>3. ASSUME y.combo[c].active PROVE y.combo[c].state # {k}
  <2>1. ~LastHeld(s, c, k) /\ y = x /\ x.combo[c].active /\ y.combo[c].state = s.combo[c].state
      BY <1>1, <1>2, <1>3
  <2>2. CASE Tapped(s, c)
    <3>1. s.combo[c].state = KeysOf(c)
        BY <2>2 DEF Tapped, Full
    <3>2. PICK i \in DOMAIN Keys[c], j \in DOMAIN Keys[c] : Keys[c][i] # Keys[c][j]
        BY DEF TwoKeys
    <3>3. Keys[c][i] \in KeysOf(c) /\ Keys[c][j] \in KeysOf(c)
        BY DEF KeysOf, Range
    <3>. QED BY <2>1, <3>1, <3>2, <3>3
  <2>3. CASE ~Tapped(s, c)
    <3>1. s.combo[c].active
        BY <2>1, <2>3, <1>1
    <3>. QED BY <3>1, <2>1 DEF LastHeld, Held
  <2>. QED BY <2>2, <2>3
<1>4. /\ Core(t, M, k) /\ Fulls(t) /\ Plain(t) /\ k \notin t.combo[c].state
      /\ Taken(y, k) => Taken(t, k)
      /\ \A d \in Combo : t.combo[d].state \subseteq y.combo[d].state
    BY <1>2, <1>3, ForgetsKey
<1>5. ReleaseInCombo(s, c, k) = t
    BY ReleaseIs DEF x, y
<1>. HIDE DEF t
<1>6. \A d \in Combo : t.combo[d].state \subseteq s.combo[d].state
    BY <1>1, <1>2, <1>4
<1>. QED BY <1>1, <1>2, <1>4, <1>5, <1>6

-----------------------------------------------------------------------------
(* A key of a combo is pressed: the types.                                   *)

LEMMA DropOneIs ==
    ASSUME NEW s \in State, NEW b \in Combo, NEW c \in Combo, s.combo_buffer # <<>>
    PROVE  LET t == DropOne(s, b, c) IN
           /\ Kept2(s, t)
           /\ \/ t.combo_buffer = s.combo_buffer
              \/ b # c /\ t.combo[b].disabled /\ Shifted(s.combo_buffer, t.combo_buffer, b)
           /\ \A d \in Combo : s.combo[d].disabled => t.combo[d].disabled
           /\ KeysOf(c) # {} /\ b = c => t.combo[c].disabled
<1>1. s.combo \in [Combo -> Bits] /\ s.combo_buffer \in Ring
    BY DEF State
<1>2. CASE s.combo[c].disabled \/ ~Overlaps(b, c)
  <2>1. DropOne(s, b, c) = s
      BY <1>2 DEF DropOne
  <2>2. KeysOf(c) # {} /\ b = c => s.combo[c].disabled
      BY <1>2 DEF Overlaps
  <2>. QED BY <2>1, <2>2 DEF Kept2
<1>3. CASE ~(s.combo[c].disabled \/ ~Overlaps(b, c))
  <2>. DEFINE x == Dropped(b, c)
              f == [s.combo EXCEPT ![x] = [@ EXCEPT !.disabled = TRUE]]
              q == IF x # c /\ Head(s.combo_buffer) = b THEN Tail(s.combo_buffer) ELSE s.combo_buffer
              t == [s EXCEPT !.combo = f, !.combo_buffer = q]
  <2>1. DropOne(s, b, c) = t
      BY <1>3 DEF DropOne
  <2>2. x \in Combo /\ x \in {b, c} /\ (x # c => x = b)
      BY DEF Dropped
  <2>. HIDE DEF x
  <2>3. q = s.combo_buffer \/ (x # c /\ Shifted(s.combo_buffer, q, b))
      BY DEF Shifted
  <2>4. q \in Ring
      BY <2>3, <1>1, ShiftedIs
  <2>5. /\ f \in [Combo -> Bits]
        /\ \A d \in Combo : /\ f[d].state = s.combo[d].state /\ f[d].active = s.combo[d].active
                            /\ s.combo[d].disabled => f[d].disabled
        /\ f[x].disabled
      BY <1>1, <2>2 DEF Bits
  <2>. HIDE DEF f, q
  <2>6. /\ t \in State /\ t.combo = f /\ t.combo_buffer = q /\ t.key_buffer = s.key_buffer
        /\ t.longest_term = s.longest_term
        /\ t.enabled = s.enabled /\ t.out = s.out /\ t.reported = s.reported
      BY <2>4, <2>5 DEF State
  <2>. HIDE DEF t
  <2>7. Kept2(s, t)
      BY <2>5, <2>6 DEF Kept2
  <2>8. b = c => x = c
      BY <2>2
  <2>. QED BY <2>1, <2>2, <2>3, <2>5, <2>6, <2>7, <2>8
<1>. QED BY <1>2, <1>3

LEMMA DropLoop ==
    ASSUME NEW s \in State, NEW c \in Combo
    PROVE  \E f \in [0..Len(s.combo_buffer) -> State] :
              /\ f[0] = s /\ DropOverlapping(s, c) = f[Len(s.combo_buffer)]
              /\ \A i \in 1..Len(s.combo_buffer) : /\ f[i] = DropOne(f[i - 1], s.combo_buffer[i], c)
                                                   /\ f[i - 1].combo_buffer # <<>>
<1>. DEFINE q == s.combo_buffer
            N == Len(q)
            Does(u, n) == n \in 1..N /\ u.combo_buffer # <<>>
            F == [p \in State \X Nat |-> IF Does(p[1], p[2]) THEN DropOne(p[1], q[p[2]], c) ELSE p[1]]
            body(w) == [i \in 0..N |-> IF i = 0 THEN s ELSE DropOne(w[i - 1], q[i], c)]
            g == CHOOSE w : w = body(w)
<1>1. q \in Seq(Combo) /\ N \in Nat
    BY DEF State, Ring
<1>2. F \in [State \X Nat -> State]
  <2>1. ASSUME NEW u \in State, NEW n \in Nat
        PROVE  (IF Does(u, n) THEN DropOne(u, q[n], c) ELSE u) \in State
    <3>1. n \in 1..N => q[n] \in Combo
        BY <1>1
    <3>. QED BY <3>1, DropOneIs DEF Kept2
  <2>. HIDE DEF N, q, Does
  <2>. QED BY <2>1
<1>3. PICK f : Iterates(f, N, State, s, F)
  <2>. HIDE DEF F, N
  <2>. QED BY <1>1, <1>2, Recursion
<1>4. f \in [0..N -> State] /\ f[0] = s
  <2>1. 0 \in 0..N
      BY <1>1
  <2>. HIDE DEF F, N
  <2>. QED BY <1>3, <2>1 DEF Iterates
<1>5. ASSUME NEW i \in 1..N
      PROVE  /\ f[i] = IF f[i - 1].combo_buffer # <<>> THEN DropOne(f[i - 1], q[i], c) ELSE f[i - 1]
             /\ f[i - 1] \in State /\ q[i] \in Combo
  <2>1. i \in 0..N /\ i # 0 /\ i - 1 \in 0..N /\ i \in Nat /\ f[i - 1] \in State /\ q[i] \in Combo
      BY <1>1, <1>4
  <2>2. f[i] = F[<<f[i - 1], i>>] /\ <<f[i - 1], i>> \in State \X Nat
      BY <1>3, <2>1 DEF Iterates
  <2>3. F[<<f[i - 1], i>>] = IF Does(f[i - 1], i) THEN DropOne(f[i - 1], q[i], c) ELSE f[i - 1]
      BY <2>2
  <2>. QED BY <2>1, <2>2, <2>3
<1>. HIDE DEF F
<1>6. \A i \in 0..N : Len(f[i].combo_buffer) >= N - i
  <2>. DEFINE S == {i \in Nat : Len(f[i].combo_buffer) >= N - i}
  <2>1. 0 \in S
      BY <1>1, <1>4
  <2>2. ASSUME NEW i \in 1..N, i - 1 \in S PROVE i \in S
    <3>. DEFINE r == f[i - 1].combo_buffer
                t == f[i].combo_buffer
    <3>1. r \in Ring /\ Len(r) \in Nat /\ i \in Nat /\ Len(r) >= N - (i - 1)
      <4>1. i \in Nat /\ i - 1 \in S
          BY <1>1, <2>2
      <4>2. f[i - 1] \in State
          BY <1>5
      <4>3. r \in Ring /\ Len(r) \in Nat
          BY <4>2 DEF State, Ring
      <4>. QED BY <4>1, <4>3
    <3>2. t = r \/ Shifted(r, t, q[i])
      <4>1. CASE r # <<>>
        <5>1. f[i] = DropOne(f[i - 1], q[i], c) /\ f[i - 1] \in State /\ q[i] \in Combo
            BY <1>5, <4>1
        <5>. QED BY <4>1, <5>1, DropOneIs
      <4>2. CASE r = <<>>
          BY <1>5, <4>2
      <4>. QED BY <4>1, <4>2
    <3>. HIDE DEF r, t
    <3>3. Len(t) \in {Len(r), Len(r) - 1}
        BY <3>1, <3>2, ShiftedIs
    <3>4. Len(t) >= N - i
        BY <3>1, <3>3, <1>1
    <3>. QED BY <3>1, <3>4 DEF t
  <2>. HIDE DEF S
  <2>3. \A n \in 0..N : n \in S
      BY <1>1, <2>1, <2>2, Induction
  <2>. QED BY <2>3 DEF S
<1>7. ASSUME NEW i \in 1..N
      PROVE  f[i - 1].combo_buffer # <<>> /\ f[i] = DropOne(f[i - 1], q[i], c)
  <2>1. i - 1 \in 0..N /\ N - (i - 1) > 0
      BY <1>1
  <2>2. Len(f[i - 1].combo_buffer) >= N - (i - 1)
      BY <2>1, <1>6
  <2>3. Len(<<>>) = 0
      OBVIOUS
  <2>4. f[i - 1].combo_buffer # <<>>
    <3>. SUFFICES ASSUME f[i - 1].combo_buffer = <<>> PROVE FALSE
        OBVIOUS
    <3>1. 0 >= N - (i - 1)
        BY <2>2, <2>3
    <3>. QED BY <3>1, <2>1, <1>1
  <2>. QED BY <2>4, <1>5
<1>8. f = body(f)
  <2>1. f = [i \in 0..N |-> f[i]]
      BY <1>4
  <2>2. \A i \in 0..N : f[i] = IF i = 0 THEN s ELSE DropOne(f[i - 1], q[i], c)
    <3>1. \A i \in 0..N : i # 0 => i \in 1..N
        BY <1>1
    <3>. QED BY <3>1, <1>4, <1>7
  <2>. QED BY <2>1, <2>2, Zenon
<1>9. DropOverlapping(s, c) = g[N]
    BY Zenon DEF DropOverlapping
<1>10. g = body(g)
  <2>. HIDE DEF body
  <2>. QED BY <1>8, Zenon
<1>11. \A i \in 0..N : g[i] = IF i = 0 THEN s ELSE DropOne(g[i - 1], q[i], c)
  <2>1. \A i \in 0..N : body(g)[i] = IF i = 0 THEN s ELSE DropOne(g[i - 1], q[i], c)
      BY Zenon
  <2>. HIDE DEF body, g
  <2>. QED BY <1>10, <2>1, Zenon
<1>. HIDE DEF g, body
<1>12. g[N] = f[N]
  <2>. DEFINE S == {i \in Nat : g[i] = f[i]}
  <2>1. 0 \in S
      BY <1>1, <1>4, <1>11
  <2>2. ASSUME NEW i \in 1..N, i - 1 \in S PROVE i \in S
    <3>1. i \in 0..N /\ i # 0 /\ i \in Nat
        BY <1>1
    <3>. QED BY <3>1, <2>2, <1>7, <1>11
  <2>. HIDE DEF S
  <2>3. \A n \in 0..N : n \in S
      BY <1>1, <2>1, <2>2, Induction
  <2>. QED BY <2>3, <1>1 DEF S
<1>. QED BY <1>4, <1>7, <1>9, <1>12

(* The ring after c has been compared with all that is in it: what is left   *)
(* of it, and who is disabled.                                               *)
Overtakes(s, t, c) ==
    /\ Kept2(s, t)
    /\ Range(t.combo_buffer) \subseteq Range(s.combo_buffer)
    /\ Distinct(s.combo_buffer) => Distinct(t.combo_buffer)
    /\ \A d \in Combo : s.combo[d].disabled => t.combo[d].disabled
    /\ \A d \in Range(s.combo_buffer) : d \in Range(t.combo_buffer) \/ t.combo[d].disabled

LEMMA DropsOverlapping ==
    ASSUME NEW s \in State, NEW c \in Combo
    PROVE  LET t == DropOverlapping(s, c) IN
           /\ Overtakes(s, t, c)
           /\ KeysOf(c) # {} /\ c \in Range(s.combo_buffer) => t.combo[c].disabled
<1>. DEFINE q == s.combo_buffer
            N == Len(q)
<1>1. q \in Ring /\ q \in Seq(Combo) /\ N \in Nat /\ DOMAIN q = 1..N
    BY DEF State, Ring
<1>2. PICK f \in [0..N -> State] :
              /\ f[0] = s /\ DropOverlapping(s, c) = f[N]
              /\ \A i \in 1..N : f[i] = DropOne(f[i - 1], q[i], c) /\ f[i - 1].combo_buffer # <<>>
    BY DropLoop
<1>. HIDE DEF N, q
<1>. DEFINE Seen(r, i) == \A j \in 1..N : j <= i /\ q[j] = c /\ KeysOf(c) # {} => r.combo[c].disabled
            S == {i \in Nat : i <= N /\ Overtakes(s, f[i], c) /\ Seen(f[i], i)}
<1>3. 0 \in S
  <2>1. Overtakes(s, s, c)
      BY DEF Overtakes, Kept2
  <2>2. \A j \in 1..N : ~(j <= 0)
      BY <1>1
  <2>. QED BY <2>1, <2>2, <1>1, <1>2
<1>4. ASSUME NEW i \in 1..N, i - 1 \in S PROVE i \in S
  <2>. DEFINE r == f[i - 1]
              t == f[i]
              b == q[i]
  <2>1. /\ i \in Nat /\ i <= N /\ b \in Combo /\ r \in State /\ r.combo_buffer \in Ring
        /\ Overtakes(s, r, c) /\ Seen(r, i - 1) /\ r.combo_buffer # <<>> /\ t = DropOne(r, b, c)
    <3>1. i \in Nat /\ i <= N /\ b \in Combo /\ i - 1 \in 0..N
        BY <1>1
    <3>2. r \in State /\ r.combo_buffer # <<>> /\ t = DropOne(r, b, c)
        BY <3>1, <1>2
    <3>3. Overtakes(s, r, c) /\ Seen(r, i - 1)
        BY <1>4
    <3>. QED BY <3>1, <3>2, <3>3 DEF State
  <2>. HIDE DEF r, t, b
  <2>2. /\ Kept2(r, t)
        /\ \/ t.combo_buffer = r.combo_buffer
           \/ b # c /\ t.combo[b].disabled /\ Shifted(r.combo_buffer, t.combo_buffer, b)
        /\ \A d \in Combo : r.combo[d].disabled => t.combo[d].disabled
        /\ KeysOf(c) # {} /\ b = c => t.combo[c].disabled
      BY <2>1, DropOneIs
  <2>3. /\ Range(t.combo_buffer) \subseteq Range(r.combo_buffer)
        /\ Distinct(r.combo_buffer) => Distinct(t.combo_buffer)
        /\ \A d \in Range(r.combo_buffer) : d \in Range(t.combo_buffer) \/ t.combo[d].disabled
    <3>1. CASE t.combo_buffer = r.combo_buffer
        BY <3>1
    <3>2. CASE t.combo_buffer # r.combo_buffer
      <4>1. t.combo[b].disabled /\ Shifted(r.combo_buffer, t.combo_buffer, b)
          BY <3>2, <2>2
      <4>. QED BY <4>1, <2>1, ShiftedIs
    <3>. QED BY <3>1, <3>2
  <2>4. Kept2(s, t)
      BY <2>1, <2>2 DEF Overtakes, Kept2
  <2>5. \A d \in Range(s.combo_buffer) : d \in Combo
      BY <1>1 DEF Range, q
  <2>6. Overtakes(s, t, c)
      BY <2>1, <2>2, <2>3, <2>4, <2>5 DEF Overtakes
  <2>7. Seen(t, i)
    <3>1. ASSUME NEW j \in 1..N, j <= i, q[j] = c, KeysOf(c) # {} PROVE t.combo[c].disabled
      <4>1. CASE j = i
          BY <4>1, <3>1, <2>2 DEF b
      <4>2. CASE j # i
        <5>1. j <= i - 1
            BY <4>2, <3>1, <2>1
        <5>. QED BY <5>1, <3>1, <2>1, <2>2
      <4>. QED BY <4>1, <4>2
    <3>. QED BY <3>1
  <2>. HIDE DEF Seen
  <2>. QED BY <2>1, <2>6, <2>7 DEF t
<1>5. N \in S
  <2>. HIDE DEF S
  <2>1. \A n \in 0..N : n \in S
      BY <1>1, <1>3, <1>4, Induction
  <2>. QED BY <2>1, <1>1
<1>6. Overtakes(s, f[N], c) /\ Seen(f[N], N)
    BY <1>5
<1>7. KeysOf(c) # {} /\ c \in Range(s.combo_buffer) => f[N].combo[c].disabled
  <2>1. c \in Range(q) => \E j \in 1..N : q[j] = c /\ j <= N
      BY <1>1 DEF Range
  <2>. QED BY <2>1, <1>6 DEF q
<1>. QED BY <1>2, <1>6, <1>7

LEMMA EnqueuedType ==
    ASSUME NEW q \in Ring, NEW c \in Combo
    PROVE  Enqueued(q, c) \in Ring
<1>1. q \in Seq(Combo) /\ Len(q) \in Nat /\ Len(q) < BUFFER_LENGTH /\ BUFFER_LENGTH \in Nat \ {0}
    BY ComboAssumption DEF Ring
<1>2. CASE Len(q) + 1 = BUFFER_LENGTH
  <2>1. Enqueued(q, c) = <<>> /\ Len(<<>>) = 0 /\ <<>> \in Seq(Combo)
      BY <1>2 DEF Enqueued
  <2>. QED BY <2>1, <1>1 DEF Ring
<1>3. CASE Len(q) + 1 # BUFFER_LENGTH
  <2>1. Enqueued(q, c) = Append(q, c) /\ Append(q, c) \in Seq(Combo) /\ Len(Append(q, c)) = Len(q) + 1
      BY <1>1, <1>3 DEF Enqueued
  <2>. QED BY <2>1, <1>1, <1>3 DEF Ring
<1>. QED BY <1>2, <1>3

(* The ring has room for a combo that is not in it.                          *)
LEMMA EnqueuedIs ==
    ASSUME RingHolds, NEW q \in Ring, Distinct(q), NEW c \in Combo, c \notin Range(q)
    PROVE  Distinct(Enqueued(q, c)) /\ Range(Enqueued(q, c)) = Range(q) \cup {c}
<1>. DEFINE N == Len(q)
            a == Append(q, c)
<1>1. /\ q \in Seq(Combo) /\ N \in Nat /\ DOMAIN q = 1..N
      /\ COMBOS \in Nat /\ BUFFER_LENGTH \in Nat /\ Combo = 1..COMBOS
    BY ComboAssumption DEF Ring, Combo
<1>2. /\ a \in Seq(Combo) /\ Len(a) = N + 1 /\ a[N + 1] = c /\ \A i \in 1..N : a[i] = q[i]
      /\ DOMAIN a = 1..(N + 1)
    BY <1>1
<1>. HIDE DEF a
<1>3. \A i \in 1..N : q[i] # c
    BY <1>1 DEF Range
<1>4. Distinct(a)
  <2>1. ASSUME NEW i \in 1..(N + 1), NEW j \in 1..(N + 1), a[i] = a[j] PROVE i = j
    <3>1. CASE i \in 1..N /\ j \in 1..N
        BY <3>1, <2>1, <1>1, <1>2 DEF Distinct
    <3>2. CASE i \in 1..N /\ j = N + 1
        BY <3>2, <2>1, <1>2, <1>3
    <3>3. CASE i = N + 1 /\ j \in 1..N
        BY <3>3, <2>1, <1>2, <1>3
    <3>. HIDE DEF N
    <3>4. (i \in 1..N \/ i = N + 1) /\ (j \in 1..N \/ j = N + 1)
        BY <1>1
    <3>. QED BY <3>1, <3>2, <3>3, <3>4
  <2>. QED BY <2>1, <1>2 DEF Distinct
<1>5. N + 1 <= COMBOS
  <2>. SUFFICES ASSUME N + 1 > COMBOS PROVE FALSE
      BY <1>1
  <2>1. /\ IsFiniteSet(1..(N + 1)) /\ Cardinality(1..(N + 1)) = N + 1
        /\ IsFiniteSet(Combo) /\ Cardinality(Combo) = COMBOS
    <3>1. 1 \in Int /\ N + 1 \in Int /\ COMBOS \in Int /\ ~(1 > N + 1) /\ COMBOS > 0
        BY <1>1, ComboAssumption
    <3>2. IsFiniteSet(1..(N + 1)) /\ Cardinality(1..(N + 1)) = N + 1
        BY <3>1, <1>1, FS_Interval
    <3>3. IsFiniteSet(1..COMBOS) /\ Cardinality(1..COMBOS) = COMBOS
        BY <3>1, <1>1, FS_Interval
    <3>. QED BY <3>2, <3>3, <1>1
  <2>2. a \in [1..(N + 1) -> Combo]
    <3>. DEFINE L == Len(a)
    <3>1. a \in [1..L -> Combo] /\ L = N + 1
        BY <1>2
    <3>. HIDE DEF L, N
    <3>. QED BY <3>1
  <2>3. \E i, j \in 1..(N + 1) : i # j /\ a[i] = a[j]
    <3>. HIDE DEF N
    <3>1. Cardinality(Combo) < Cardinality(1..(N + 1))
        BY <2>1, <1>1
    <3>. QED BY <2>1, <2>2, <3>1, FS_PigeonHole
  <2>. QED BY <2>3, <1>4, <1>2 DEF Distinct
<1>6. Enqueued(q, c) = a
  <2>1. N + 1 # BUFFER_LENGTH
      BY <1>1, <1>5 DEF RingHolds
  <2>. QED BY <2>1 DEF Enqueued, a
<1>7. Range(a) = Range(q) \cup {c}
  <2>1. \A i \in 1..(N + 1) : i \in 1..N \/ i = N + 1
      BY <1>1
  <2>2. N + 1 \in 1..(N + 1) /\ \A i \in 1..N : i \in 1..(N + 1)
      BY <1>1
  <2>3. Range(a) \subseteq Range(q) \cup {c}
      BY <2>1, <1>1, <1>2 DEF Range
  <2>4. Range(q) \cup {c} \subseteq Range(a)
      BY <2>2, <1>1, <1>2 DEF Range
  <2>. QED BY <2>3, <2>4
<1>. QED BY <1>4, <1>6, <1>7

LEMMA ReadyIs ==
    ASSUME NEW s \in State, NEW c \in Combo
    PROVE  LET r == DropOverlapping(s, c)
               t == BecomesReady(s, c) IN
           /\ r.combo[c].disabled => t = r
           /\ ~r.combo[c].disabled =>
                /\ t \in State /\ t.combo_buffer = Enqueued(r.combo_buffer, c)
                /\ t.combo = r.combo /\ t.key_buffer = r.key_buffer /\ t.enabled = r.enabled
                /\ t.reported = r.reported /\ t.out = r.out
<1>. DEFINE r == DropOverlapping(s, c)
            t == [r EXCEPT !.combo_buffer = Enqueued(r.combo_buffer, c), !.longest_term = wait_time(r, c)]
<1>1. BecomesReady(s, c) = IF r.combo[c].disabled THEN r ELSE t
    BY DEF BecomesReady
<1>2. r \in State
    BY DropsOverlapping DEF Overtakes, Kept2
<1>. HIDE DEF r
<1>3. wait_time(r, c) \in Age
  <2>1. COMBO_HOLD_TERM \in Age
      BY MaxTermIs DEF Age
  <2>. QED BY <2>1, <1>2 DEF wait_time, State
<1>4. Enqueued(r.combo_buffer, c) \in Ring
    BY <1>2, EnqueuedType DEF State
<1>5. /\ t \in State /\ t.combo_buffer = Enqueued(r.combo_buffer, c)
      /\ t.combo = r.combo /\ t.key_buffer = r.key_buffer /\ t.enabled = r.enabled
      /\ t.reported = r.reported /\ t.out = r.out
    BY <1>2, <1>3, <1>4 DEF State
<1>. HIDE DEF t
<1>. QED BY <1>1, <1>5 DEF r

(* A combo that is not active counts the key.                                *)
Counting(s, c, k) ==
    IF s.combo[c].active THEN s
    ELSE [s EXCEPT !.combo[c].state = @ \cup {k},
                   !.longest_term = IF @ < COMBO_TERM[c] THEN COMBO_TERM[c] ELSE @]

LEMMA PressIs ==
    ASSUME NEW s, NEW c, NEW k
    PROVE  LET r == Counting(s, c, k) IN
           PressInCombo(s, c, k) = IF r.combo[c].state # KeysOf(c) THEN r
                                   ELSE IF TooLate(c) THEN [r EXCEPT !.combo[c].disabled = TRUE]
                                   ELSE BecomesReady(r, c)
BY Zenon DEF PressInCombo, Counting

LEMMA Counts ==
    ASSUME NEW s \in State, NEW c \in Combo, NEW k \in Key
    PROVE  LET t == Counting(s, c, k) IN
           /\ t \in State /\ t.combo_buffer = s.combo_buffer /\ t.key_buffer = s.key_buffer
           /\ t.enabled = s.enabled /\ t.reported = s.reported /\ t.out = s.out
           /\ \A d \in Combo : /\ t.combo[d].active = s.combo[d].active
                               /\ t.combo[d].disabled = s.combo[d].disabled
                               /\ d # c \/ s.combo[c].active => t.combo[d].state = s.combo[d].state
           /\ ~s.combo[c].active => t.combo[c].state = s.combo[c].state \cup {k}
<1>. DEFINE b == [s.combo EXCEPT ![c] = [s.combo[c] EXCEPT !.state = s.combo[c].state \cup {k}]]
            l == IF s.longest_term < COMBO_TERM[c] THEN COMBO_TERM[c] ELSE s.longest_term
            t == [s EXCEPT !.combo = b, !.longest_term = l]
<1>1. Counting(s, c, k) = IF s.combo[c].active THEN s ELSE t
    BY DEF Counting
<1>2. s.combo \in [Combo -> Bits] /\ s.longest_term \in Age
    BY DEF State
<1>3. /\ b \in [Combo -> Bits]
      /\ \A d \in Combo : /\ b[d].active = s.combo[d].active /\ b[d].disabled = s.combo[d].disabled
                          /\ d # c => b[d].state = s.combo[d].state
      /\ b[c].state = s.combo[c].state \cup {k}
    BY <1>2 DEF Bits
<1>4. l \in Age
  <2>1. COMBO_TERM[c] \in Age
      BY MaxTermIs DEF Age
  <2>. QED BY <2>1, <1>2
<1>. HIDE DEF b, l
<1>5. /\ t \in State /\ t.combo_buffer = s.combo_buffer /\ t.key_buffer = s.key_buffer
      /\ t.enabled = s.enabled /\ t.combo = b /\ t.reported = s.reported /\ t.out = s.out
    BY <1>3, <1>4 DEF State
<1>. HIDE DEF t
<1>. QED BY <1>1, <1>3, <1>5

LEMMA Disables ==
    ASSUME NEW s \in State, NEW c \in Combo
    PROVE  LET t == [s EXCEPT !.combo[c].disabled = TRUE] IN
           /\ t \in State /\ t.combo_buffer = s.combo_buffer /\ t.key_buffer = s.key_buffer
           /\ t.enabled = s.enabled /\ t.reported = s.reported /\ t.out = s.out
           /\ \A d \in Combo : /\ t.combo[d].active = s.combo[d].active
                               /\ t.combo[d].state = s.combo[d].state
                               /\ s.combo[d].disabled \/ d = c => t.combo[d].disabled
                               /\ d # c => t.combo[d].disabled = s.combo[d].disabled
<1>. DEFINE b == [s.combo EXCEPT ![c] = [s.combo[c] EXCEPT !.disabled = TRUE]]
            t == [s EXCEPT !.combo = b]
<1>1. [s EXCEPT !.combo[c].disabled = TRUE] = t
    OBVIOUS
<1>2. s.combo \in [Combo -> Bits]
    BY DEF State
<1>3. /\ b \in [Combo -> Bits]
      /\ \A d \in Combo : /\ b[d].active = s.combo[d].active /\ b[d].state = s.combo[d].state
                          /\ s.combo[d].disabled \/ d = c => b[d].disabled
                          /\ d # c => b[d].disabled = s.combo[d].disabled
    BY <1>2 DEF Bits
<1>. HIDE DEF b
<1>4. /\ t \in State /\ t.combo_buffer = s.combo_buffer /\ t.key_buffer = s.key_buffer
      /\ t.enabled = s.enabled /\ t.combo = b /\ t.reported = s.reported /\ t.out = s.out
    BY <1>3 DEF State
<1>. HIDE DEF t
<1>. QED BY <1>1, <1>3, <1>4

LEMMA PressType ==
    ASSUME NEW s \in State, NEW c \in Combo, NEW k \in Key
    PROVE  PressInCombo(s, c, k) \in State /\ PressInCombo(s, c, k).key_buffer = s.key_buffer
<1>. DEFINE r == Counting(s, c, k)
<1>1. r \in State /\ r.key_buffer = s.key_buffer
    BY Counts
<1>2. PressInCombo(s, c, k) = IF r.combo[c].state # KeysOf(c) THEN r
                              ELSE IF TooLate(c) THEN [r EXCEPT !.combo[c].disabled = TRUE]
                              ELSE BecomesReady(r, c)
    BY PressIs
<1>. HIDE DEF r
<1>3. /\ [r EXCEPT !.combo[c].disabled = TRUE] \in State
      /\ [r EXCEPT !.combo[c].disabled = TRUE].key_buffer = r.key_buffer
    BY <1>1, Disables
<1>4. BecomesReady(r, c) \in State /\ BecomesReady(r, c).key_buffer = r.key_buffer
  <2>1. DropOverlapping(r, c) \in State /\ DropOverlapping(r, c).key_buffer = r.key_buffer
      BY <1>1, DropsOverlapping DEF Overtakes, Kept2
  <2>. QED BY <1>1, <2>1, ReadyIs
<1>. QED BY <1>1, <1>2, <1>3, <1>4

(* What a press does to a combo that is not active.                          *)
Presses(s, t, c, k) ==
    /\ t \in State /\ t.key_buffer = s.key_buffer /\ t.enabled = s.enabled /\ t.reported = s.reported
    /\ t.out = s.out /\ Distinct(t.combo_buffer) /\ Fulls(t)
    /\ \A d \in Combo : /\ t.combo[d].active = s.combo[d].active
                        /\ s.combo[d].disabled => t.combo[d].disabled
                        /\ d # c => t.combo[d].state = s.combo[d].state
    /\ t.combo[c].state = s.combo[c].state \cup {k}

LEMMA PressKeeps ==
    ASSUME TwoKeys, RingHolds, NEW s \in State, NEW c \in Combo, NEW k \in Key,
           Distinct(s.combo_buffer), Fulls(s), ~s.combo[c].active
    PROVE  Presses(s, PressInCombo(s, c, k), c, k)
<1>. DEFINE r == Counting(s, c, k)
            p == PressInCombo(s, c, k)
<1>1. /\ r \in State /\ r.combo_buffer = s.combo_buffer /\ r.key_buffer = s.key_buffer
      /\ r.enabled = s.enabled /\ r.reported = s.reported /\ r.out = s.out
      /\ \A d \in Combo : /\ r.combo[d].active = s.combo[d].active
                          /\ r.combo[d].disabled = s.combo[d].disabled
                          /\ d # c => r.combo[d].state = s.combo[d].state
      /\ r.combo[c].state = s.combo[c].state \cup {k}
    BY Counts
<1>2. p = IF r.combo[c].state # KeysOf(c) THEN r
          ELSE IF TooLate(c) THEN [r EXCEPT !.combo[c].disabled = TRUE]
          ELSE BecomesReady(r, c)
    BY PressIs
<1>. HIDE DEF r, p
<1>3. \A d \in Combo : d # c /\ Full(r, d) /\ ~r.combo[d].disabled => d \in Range(r.combo_buffer)
    BY <1>1 DEF Fulls, Full
<1>4. CASE r.combo[c].state # KeysOf(c)
  <2>1. p = r
      BY <1>2, <1>4
  <2>2. Fulls(r)
      BY <1>3, <1>4 DEF Fulls, Full
  <2>. QED BY <2>1, <2>2, <1>1 DEF Presses, p
<1>5. CASE r.combo[c].state = KeysOf(c) /\ TooLate(c)
  <2>1. p = [r EXCEPT !.combo[c].disabled = TRUE]
      BY <1>2, <1>5
  <2>. DEFINE z == [r EXCEPT !.combo[c].disabled = TRUE]
  <2>4. /\ z \in State /\ z.combo_buffer = r.combo_buffer /\ z.key_buffer = r.key_buffer
        /\ z.enabled = r.enabled /\ z.reported = r.reported /\ z.out = r.out
        /\ \A d \in Combo : /\ z.combo[d].active = r.combo[d].active
                            /\ z.combo[d].state = r.combo[d].state
                            /\ r.combo[d].disabled \/ d = c => z.combo[d].disabled
                            /\ d # c => z.combo[d].disabled = r.combo[d].disabled
      BY <1>1, Disables
  <2>. HIDE DEF z
  <2>2. /\ p \in State /\ p.combo_buffer = r.combo_buffer /\ p.key_buffer = r.key_buffer
        /\ p.enabled = r.enabled /\ p.reported = r.reported /\ p.out = r.out
        /\ \A d \in Combo : /\ p.combo[d].active = r.combo[d].active
                            /\ p.combo[d].state = r.combo[d].state
                            /\ r.combo[d].disabled \/ d = c => p.combo[d].disabled
                            /\ d # c => p.combo[d].disabled = r.combo[d].disabled
      BY <2>1, <2>4 DEF z
  <2>3. Fulls(p)
      BY <1>3, <2>2 DEF Fulls, Full
  <2>. QED BY <2>2, <2>3, <1>1 DEF Presses, p
<1>6. CASE r.combo[c].state = KeysOf(c) /\ ~TooLate(c)
  <2>. DEFINE u == DropOverlapping(r, c)
  <2>1. KeysOf(c) # {}
      BY DEF TwoKeys, KeysOf, Range
  <2>2. /\ Overtakes(r, u, c)
        /\ c \in Range(r.combo_buffer) => u.combo[c].disabled
      BY <1>1, <2>1, DropsOverlapping
  <2>3. p = BecomesReady(r, c)
      BY <1>2, <1>6
  <2>4. /\ u.combo[c].disabled => p = u
        /\ ~u.combo[c].disabled =>
             /\ p \in State /\ p.combo_buffer = Enqueued(u.combo_buffer, c)
             /\ p.combo = u.combo /\ p.key_buffer = u.key_buffer /\ p.enabled = u.enabled
             /\ p.reported = u.reported /\ p.out = u.out
      BY <1>1, <2>3, ReadyIs
  <2>. HIDE DEF u
  <2>5. /\ u \in State /\ u.combo_buffer \in Ring /\ u.key_buffer = r.key_buffer
        /\ u.enabled = r.enabled /\ u.reported = r.reported /\ u.out = r.out /\ Distinct(u.combo_buffer)
        /\ \A d \in Combo : /\ u.combo[d].state = r.combo[d].state /\ u.combo[d].active = r.combo[d].active
                            /\ r.combo[d].disabled => u.combo[d].disabled
      BY <1>1, <2>2 DEF Overtakes, Kept2, State
  <2>6. \A d \in Combo : d # c /\ Full(u, d) /\ ~u.combo[d].disabled => d \in Range(u.combo_buffer)
      BY <1>3, <2>2, <2>5 DEF Overtakes, Full
  <2>7. CASE u.combo[c].disabled
    <3>1. p = u
        BY <2>4, <2>7
    <3>2. Fulls(u)
        BY <2>6, <2>7 DEF Fulls
    <3>. QED BY <3>1, <3>2, <2>5, <1>1 DEF Presses, p
  <2>8. CASE ~u.combo[c].disabled
    <3>1. c \notin Range(u.combo_buffer)
        BY <2>2, <2>8 DEF Overtakes
    <3>2. /\ Distinct(Enqueued(u.combo_buffer, c))
          /\ Range(Enqueued(u.combo_buffer, c)) = Range(u.combo_buffer) \cup {c}
        BY <3>1, <2>5, EnqueuedIs
    <3>3. Fulls(p)
        BY <2>4, <2>6, <2>8, <3>2 DEF Fulls, Full
    <3>. QED BY <2>4, <2>5, <2>8, <3>2, <3>3, <1>1 DEF Presses, p
  <2>. QED BY <2>7, <2>8
<1>. QED BY <1>4, <1>5, <1>6

-----------------------------------------------------------------------------
(* All combos in turn.                                                       *)
Result == {r \in [st : State, is_combo_key : BOOLEAN] : Plain(r.st)}

LEMMA SingleType ==
    ASSUME NEW r \in Result, NEW c \in Combo, NEW k \in Key, NEW pressed \in BOOLEAN
    PROVE  process_single_combo(r, c, k, pressed) \in Result
<1>1. r.st \in State /\ r.is_combo_key \in BOOLEAN /\ Plain(r.st)
    BY DEF Result
<1>2. PressInCombo(r.st, c, k) \in State /\ Plain(PressInCombo(r.st, c, k))
  <2>1. PressInCombo(r.st, c, k) \in State /\ PressInCombo(r.st, c, k).key_buffer = r.st.key_buffer
      BY <1>1, PressType
  <2>. QED BY <2>1, <1>1 DEF Plain
<1>3. ReleaseInCombo(r.st, c, k) \in State /\ Plain(ReleaseInCombo(r.st, c, k))
    BY <1>1, ReleaseType
<1>4. (r.is_combo_key \/ Swallowed(r.st, c, k)) \in BOOLEAN
    OBVIOUS
<1>. DEFINE p == [st |-> PressInCombo(r.st, c, k), is_combo_key |-> TRUE]
            q == [st |-> ReleaseInCombo(r.st, c, k), is_combo_key |-> r.is_combo_key \/ Swallowed(r.st, c, k)]
<1>5. p \in Result /\ q \in Result
    BY <1>2, <1>3, <1>4 DEF Result
<1>6. process_single_combo(r, c, k, pressed) \in {r, p, q}
    BY DEF process_single_combo
<1>. HIDE DEF p, q
<1>. QED BY <1>5, <1>6

LEMMA CombosLoop ==
    ASSUME NEW s \in State, Plain(s), NEW k \in Key, NEW pressed \in BOOLEAN
    PROVE  \E f \in [0..COMBOS -> Result] :
              /\ f[0] = [st |-> s, is_combo_key |-> FALSE]
              /\ \A c \in Combo : f[c] = process_single_combo(f[c - 1], c, k, pressed)
              /\ AllCombos(s, k, pressed) = f[COMBOS]
<1>. DEFINE b == [st |-> s, is_combo_key |-> FALSE]
            F == [p \in Result \X Nat |->
                    IF p[2] \in Combo THEN process_single_combo(p[1], p[2], k, pressed) ELSE p[1]]
            body(w) == [c \in 0..COMBOS |-> IF c = 0 THEN b
                                            ELSE process_single_combo(w[c - 1], c, k, pressed)]
            g == CHOOSE w : w = body(w)
<1>1. COMBOS \in Nat /\ Combo = 1..COMBOS
    BY ComboAssumption DEF Combo
<1>2. b \in Result
    BY DEF Result
<1>. HIDE DEF b
<1>3. F \in [Result \X Nat -> Result]
  <2>1. ASSUME NEW r \in Result, NEW n \in Nat
        PROVE  (IF n \in Combo THEN process_single_combo(r, n, k, pressed) ELSE r) \in Result
      BY SingleType
  <2>. QED BY <2>1
<1>4. PICK f : Iterates(f, COMBOS, Result, b, F)
  <2>. HIDE DEF F
  <2>. QED BY <1>1, <1>2, <1>3, Recursion
<1>5. f \in [0..COMBOS -> Result] /\ f[0] = b
  <2>1. 0 \in 0..COMBOS
      BY <1>1
  <2>. HIDE DEF F
  <2>. QED BY <1>4, <2>1 DEF Iterates
<1>6. ASSUME NEW c \in 1..COMBOS PROVE f[c] = process_single_combo(f[c - 1], c, k, pressed)
  <2>1. c \in 0..COMBOS /\ c # 0 /\ c - 1 \in 0..COMBOS /\ c \in Nat /\ f[c - 1] \in Result
      BY <1>1, <1>5
  <2>2. f[c] = F[<<f[c - 1], c>>] /\ <<f[c - 1], c>> \in Result \X Nat
      BY <1>4, <2>1 DEF Iterates
  <2>3. F[<<f[c - 1], c>>] = process_single_combo(f[c - 1], c, k, pressed)
      BY <2>2, <1>1
  <2>. QED BY <2>2, <2>3
<1>7. f = body(f)
  <2>1. f = [c \in 0..COMBOS |-> f[c]]
      BY <1>5
  <2>2. \A c \in 0..COMBOS : f[c] = IF c = 0 THEN b ELSE process_single_combo(f[c - 1], c, k, pressed)
    <3>1. \A c \in 0..COMBOS : c # 0 => c \in 1..COMBOS
        BY <1>1
    <3>. QED BY <3>1, <1>5, <1>6
  <2>. QED BY <2>1, <2>2, Zenon
<1>8. AllCombos(s, k, pressed) = g[COMBOS]
    BY Zenon DEF AllCombos, b
<1>9. g = body(g)
  <2>. HIDE DEF body
  <2>. QED BY <1>7, Zenon
<1>10. \A c \in 0..COMBOS : g[c] = IF c = 0 THEN b ELSE process_single_combo(g[c - 1], c, k, pressed)
  <2>1. \A c \in 0..COMBOS :
          body(g)[c] = IF c = 0 THEN b ELSE process_single_combo(g[c - 1], c, k, pressed)
      BY Zenon
  <2>. HIDE DEF body, g
  <2>. QED BY <1>9, <2>1, Zenon
<1>. HIDE DEF g, body, F
<1>11. g[COMBOS] = f[COMBOS]
  <2>. DEFINE S == {c \in Nat : g[c] = f[c]}
  <2>1. 0 \in S
      BY <1>1, <1>5, <1>10
  <2>2. ASSUME NEW c \in 1..COMBOS, c - 1 \in S PROVE c \in S
    <3>1. c \in 0..COMBOS /\ c # 0 /\ c \in Nat
        BY <1>1
    <3>. QED BY <3>1, <2>2, <1>6, <1>10
  <2>. HIDE DEF S
  <2>3. \A n \in 0..COMBOS : n \in S
      BY <1>1, <2>1, <2>2, Induction
  <2>. QED BY <2>3, <1>1 DEF S
<1>. QED BY <1>1, <1>5, <1>6, <1>8, <1>11 DEF b

LEMMA AllCombosType ==
    ASSUME NEW s \in State, Plain(s), NEW k \in Key, NEW pressed \in BOOLEAN
    PROVE  AllCombos(s, k, pressed) \in Result
<1>1. PICK f \in [0..COMBOS -> Result] : AllCombos(s, k, pressed) = f[COMBOS]
    BY CombosLoop
<1>. QED BY <1>1, ComboAssumption

(* A release is forgotten by every combo.                                    *)
LEMMA AllCombosRelease ==
    ASSUME NEW M, NEW k \in Key, NEW s, Core(s, M, k), Fulls(s), Plain(s), TwoKeys
    PROVE  LET r == AllCombos(s, k, FALSE) IN
           /\ Core(r.st, M, k) /\ Fulls(r.st) /\ Plain(r.st)
           /\ \A d \in Combo : k \notin r.st.combo[d].state
           /\ r.is_combo_key => Taken(r.st, k)
<1>. DEFINE Good(r, n) ==
              /\ Core(r.st, M, k) /\ Fulls(r.st) /\ Plain(r.st)
              /\ \A d \in Combo : d <= n => k \notin r.st.combo[d].state
              /\ r.is_combo_key => Taken(r.st, k)
<1>1. s \in State
    BY DEF Core
<1>2. COMBOS \in Nat /\ Combo = 1..COMBOS
    BY ComboAssumption DEF Combo
<1>3. PICK f \in [0..COMBOS -> Result] :
              /\ f[0] = [st |-> s, is_combo_key |-> FALSE]
              /\ \A c \in Combo : f[c] = process_single_combo(f[c - 1], c, k, FALSE)
              /\ AllCombos(s, k, FALSE) = f[COMBOS]
  <2>1. \A pressed \in BOOLEAN : \E f \in [0..COMBOS -> Result] :
              /\ f[0] = [st |-> s, is_combo_key |-> FALSE]
              /\ \A c \in Combo : f[c] = process_single_combo(f[c - 1], c, k, pressed)
              /\ AllCombos(s, k, pressed) = f[COMBOS]
      BY <1>1, CombosLoop
  <2>2. FALSE \in BOOLEAN
      OBVIOUS
  <2>. QED BY <2>1, <2>2, Zenon
<1>. DEFINE S == {n \in 0..COMBOS : Good(f[n], n)}
<1>4. 0 \in S
  <2>1. f[0].st = s /\ ~f[0].is_combo_key
      BY <1>3
  <2>2. 0 \in 0..COMBOS /\ \A d \in Combo : ~(d <= 0)
      BY <1>2
  <2>. QED BY <2>1, <2>2
<1>5. ASSUME NEW c \in 1..COMBOS, c - 1 \in S PROVE c \in S
  <2>. DEFINE r == f[c - 1]
              t == ReleaseInCombo(r.st, c, k)
              w == r.is_combo_key \/ Swallowed(r.st, c, k)
  <2>1. c \in Combo /\ c \in 0..COMBOS /\ \A d \in Combo : d <= c => d <= c - 1 \/ d = c
      BY <1>2
  <2>2. Good(r, c - 1)
      BY <1>5
  <2>3. f[c] = process_single_combo(r, c, k, FALSE)
      BY <1>3, <2>1
  <2>. HIDE DEF r
  <2>4. CASE k \notin KeysOf(c)
    <3>1. f[c] = r
        BY <2>3, <2>4 DEF process_single_combo
    <3>2. k \notin r.st.combo[c].state
        BY <2>1, <2>2, <2>4 DEF Core, Counted
    <3>. QED BY <3>1, <3>2, <2>1, <2>2
  <2>5. CASE k \in KeysOf(c)
    <3>1. f[c] = [st |-> t, is_combo_key |-> w]
        BY <2>3, <2>5 DEF process_single_combo
    <3>2. /\ Core(t, M, k) /\ Fulls(t) /\ Plain(t) /\ k \notin t.combo[c].state
          /\ Taken(r.st, k) \/ Swallowed(r.st, c, k) => Taken(t, k)
          /\ \A d \in Combo : t.combo[d].state \subseteq r.st.combo[d].state
        BY <2>1, <2>2, <2>5, ReleaseKeeps
    <3>. HIDE DEF t
    <3>3. f[c].st = t /\ (f[c].is_combo_key => w)
      <4>1. w \in BOOLEAN
          OBVIOUS
      <4>. HIDE DEF w
      <4>2. f[c].st = t /\ f[c].is_combo_key = w
          BY <3>1
      <4>. QED BY <4>2, Zenon
    <3>4. \A d \in Combo : d <= c => k \notin t.combo[d].state
        BY <3>2, <2>1, <2>2
    <3>5. w => Taken(t, k)
        BY <3>2, <2>2
    <3>. HIDE DEF w
    <3>. QED BY <3>2, <3>3, <3>4, <3>5, <2>1
  <2>. QED BY <2>4, <2>5
<1>. HIDE DEF S
<1>6. COMBOS \in S
    BY <1>2, <1>4, <1>5, Induction
<1>7. \A d \in Combo : d <= COMBOS
    BY <1>2
<1>. QED BY <1>3, <1>6, <1>7 DEF S

-----------------------------------------------------------------------------
(* Between two steps: the inductive invariant.                               *)

(* A combo that may still come counts its keys in the buffer.                *)
KeptCounted(s) ==
    \A c \in Combo : ~s.combo[c].disabled => KeptKeys(s) \cap KeysOf(c) \subseteq s.combo[c].state

Rest(s, M) ==
    /\ s \in State /\ Plain(s) /\ DistinctKeys(s) /\ Distinct(s.combo_buffer) /\ Fulls(s)
    /\ Counted(s, M) /\ KeysDown(s, M) /\ Actives(s) /\ KeptCounted(s)

LEMMA RestCore ==
    ASSUME NEW M, NEW s, Rest(s, M), NEW kk
    PROVE  Core(s, M, kk)
BY DEF Rest, Core, KeptCounted, CountsKept

LEMMA SettlesRest ==
    ASSUME NEW M, NEW s, NEW t, NEW kk, Settles(s, t, M, kk)
    PROVE  Rest(t, M)
<1>1. Core(t, M, kk) /\ Fulls(t) /\ t.key_buffer = <<>>
    BY DEF Settles
<1>2. KeptKeys(t) = {} /\ Plain(t)
    BY <1>1 DEF KeptKeys, Plain
<1>. QED BY <1>1, <1>2 DEF Rest, Core, KeptCounted

(* It says nothing of what is left to hand on, of longest_term or whether    *)
(* combos are enabled.                                                       *)
LEMMA SameRest ==
    ASSUME NEW M, NEW s, Rest(s, M), NEW t \in State, t.combo = s.combo, t.key_buffer = s.key_buffer,
           t.combo_buffer = s.combo_buffer, t.reported = s.reported
    PROVE  Rest(t, M)
<1>1. KeptKeys(t) = KeptKeys(s) /\ Alone(t) = Alone(s)
    BY DEF KeptKeys, Alone
<1>2. Plain(t) /\ DistinctKeys(t)
    BY DEF Rest, Plain, DistinctKeys
<1>3. Fulls(t) /\ Counted(t, M)
    BY DEF Rest, Fulls, Full, Counted
<1>4. KeysDown(t, M) /\ KeptCounted(t)
    BY <1>1 DEF Rest, KeysDown, KeptCounted
<1>5. Actives(t)
    BY <1>1 DEF Rest, Actives
<1>. QED BY <1>2, <1>3, <1>4, <1>5 DEF Rest

LEMMA NothingToForget ==
    ASSUME NEW s \in State, NEW c \in Combo, NEW k, k \in KeysOf(c), k \notin s.combo[c].state
    PROVE  ReleaseInCombo(s, c, k) = s /\ ~Swallowed(s, c, k)
<1>1. ~Full(s, c) /\ ~Held(s, c, k)
    BY DEF Full, Held
<1>2. ~Tapped(s, c) /\ ~LastHeld(s, c, k) /\ ~ReleasesEarly(s, c, k) /\ ~Swallowed(s, c, k)
    BY <1>1 DEF Tapped, LastHeld, ReleasesEarly, Swallowed
<1>3. Handled(s, c) = s /\ Ended(s, s, c, k) = s
    BY <1>1, <1>2 DEF Handled, Ended
<1>4. Forgotten(s, c, k) = s
  <2>1. s.combo \in [Combo -> Bits]
      BY DEF State
  <2>2. [s.combo[c] EXCEPT !.state = s.combo[c].state \ {k}] = s.combo[c]
    <3>1. s.combo[c] \in Bits /\ s.combo[c].state \ {k} = s.combo[c].state
        BY <2>1
    <3>. QED BY <3>1 DEF Bits
  <2>3. [s.combo EXCEPT ![c] = [s.combo[c] EXCEPT !.state = s.combo[c].state \ {k}]] = s.combo
      BY <2>1, <2>2
  <2>4. Forgotten(s, c, k)
          = [s EXCEPT !.combo = [s.combo EXCEPT ![c] = [s.combo[c] EXCEPT !.state = s.combo[c].state \ {k}]]]
      BY DEF Forgotten
  <2>. QED BY <2>3, <2>4 DEF State
<1>. QED BY <1>2, <1>3, <1>4, ReleaseIs

(* What the press of k has done when the first n combos had it.              *)
Pressed(s, r, n, k) ==
    LET t == r.st IN
    /\ t \in State /\ t.key_buffer = s.key_buffer /\ t.enabled = s.enabled /\ t.reported = s.reported
    /\ t.out = s.out /\ Distinct(t.combo_buffer) /\ Fulls(t)
    /\ \A d \in Combo : /\ t.combo[d].active = s.combo[d].active
                        /\ s.combo[d].disabled => t.combo[d].disabled
    /\ \A d \in Combo : IF k \in t.combo[d].state
                        THEN /\ t.combo[d].state = s.combo[d].state \cup {k}
                             /\ k \in KeysOf(d) /\ ~s.combo[d].active /\ d <= n /\ r.is_combo_key
                        ELSE t.combo[d].state = s.combo[d].state
    /\ \A d \in Combo : d <= n /\ s.enabled /\ k \in KeysOf(d) /\ ~t.combo[d].disabled
                           => k \in t.combo[d].state
    /\ r.is_combo_key => s.enabled

LEMMA PressedByOne ==
    ASSUME TwoKeys, RingHolds, AnyOrder, NEW M, NEW s, Rest(s, M), NEW k \in Key, k \notin M,
           NEW c \in Combo, NEW r \in Result, Pressed(s, r, c - 1, k)
    PROVE  Pressed(s, process_single_combo(r, c, k, TRUE), c, k)
<1>1. r.st \in State /\ r.is_combo_key \in BOOLEAN
    BY DEF Result
<1>2. \A d \in Combo : d <= c => d <= c - 1 \/ d = c
    BY DEF Combo
<1>3. \A d \in Combo : d <= c - 1 => d <= c
    BY DEF Combo
<1>4. ~(c <= c - 1)
    BY DEF Combo
<1>5. k \notin r.st.combo[c].state
    BY <1>4 DEF Pressed
<1>6. r.st.combo[c].active => r.st.combo[c].disabled
    BY DEF Pressed, Rest, Actives
<1>7. CASE k \notin KeysOf(c)
  <2>1. process_single_combo(r, c, k, TRUE) = r
      BY <1>7 DEF process_single_combo
  <2>2. Pressed(s, r, c, k)
      BY <1>2, <1>3, <1>7 DEF Pressed
  <2>. QED BY <2>1, <2>2
<1>8. CASE k \in KeysOf(c) /\ ~IsPart(r.st, c, k)
  <2>. DEFINE w == r.is_combo_key \/ Swallowed(r.st, c, k)
  <2>1. process_single_combo(r, c, k, TRUE) = [st |-> ReleaseInCombo(r.st, c, k), is_combo_key |-> w]
      BY <1>8 DEF process_single_combo
  <2>2. ReleaseInCombo(r.st, c, k) = r.st /\ ~Swallowed(r.st, c, k)
      BY <1>1, <1>5, <1>8, NothingToForget
  <2>3. w = r.is_combo_key
      BY <2>2, <1>1
  <2>. HIDE DEF w
  <2>4. process_single_combo(r, c, k, TRUE) = r
      BY <2>1, <2>2, <2>3 DEF Result
  <2>5. s.enabled => r.st.combo[c].disabled
      BY <1>8 DEF IsPart, keys_pressed_in_order, AnyOrder, Pressed
  <2>6. Pressed(s, r, c, k)
      BY <1>2, <1>3, <2>5 DEF Pressed
  <2>. QED BY <2>4, <2>6
<1>9. CASE k \in KeysOf(c) /\ IsPart(r.st, c, k)
  <2>. DEFINE t == PressInCombo(r.st, c, k)
              x == [st |-> t, is_combo_key |-> TRUE]
  <2>1. process_single_combo(r, c, k, TRUE) = x
      BY <1>9 DEF process_single_combo
  <2>2. ~r.st.combo[c].disabled /\ ~r.st.combo[c].active /\ s.enabled /\ ~s.combo[c].active
      BY <1>6, <1>9 DEF IsPart, Pressed
  <2>3. Presses(r.st, t, c, k)
      BY <1>1, <2>2, PressKeeps DEF Pressed
  <2>. HIDE DEF t
  <2>4. x.st = t /\ x.is_combo_key
      OBVIOUS
  <2>. HIDE DEF x
  <2>5. /\ t \in State /\ t.key_buffer = s.key_buffer /\ t.enabled = s.enabled /\ t.reported = s.reported
        /\ t.out = s.out /\ Distinct(t.combo_buffer) /\ Fulls(t)
      BY <2>3 DEF Presses, Pressed
  <2>6. \A d \in Combo : /\ t.combo[d].active = s.combo[d].active
                         /\ s.combo[d].disabled => t.combo[d].disabled
      BY <2>3 DEF Presses, Pressed
  <2>7. k \in t.combo[c].state /\ t.combo[c].state = s.combo[c].state \cup {k}
      BY <1>5, <2>3 DEF Presses, Pressed
  <2>8. \A d \in Combo : d # c => t.combo[d].state = r.st.combo[d].state
      BY <2>3 DEF Presses
  <2>9. \A d \in Combo : IF k \in t.combo[d].state
                         THEN /\ t.combo[d].state = s.combo[d].state \cup {k}
                              /\ k \in KeysOf(d) /\ ~s.combo[d].active /\ d <= c
                         ELSE t.combo[d].state = s.combo[d].state
    <3>1. c <= c
        BY DEF Combo
    <3>. QED BY <3>1, <1>3, <1>9, <2>2, <2>7, <2>8 DEF Pressed
  <2>10. \A d \in Combo : d <= c /\ k \in KeysOf(d) /\ ~t.combo[d].disabled => k \in t.combo[d].state
    <3>1. \A d \in Combo : ~t.combo[d].disabled => ~r.st.combo[d].disabled
        BY <2>3 DEF Presses
    <3>. QED BY <3>1, <1>2, <2>2, <2>7, <2>8 DEF Pressed
  <2>. QED BY <2>1, <2>2, <2>4, <2>5, <2>6, <2>9, <2>10 DEF Pressed
<1>. QED BY <1>7, <1>8, <1>9

LEMMA AllCombosPress ==
    ASSUME TwoKeys, RingHolds, AnyOrder, NEW M, NEW s, Rest(s, M), NEW k \in Key, k \notin M
    PROVE  Pressed(s, AllCombos(s, k, TRUE), COMBOS, k)
<1>1. s \in State /\ Plain(s)
    BY DEF Rest
<1>2. COMBOS \in Nat /\ Combo = 1..COMBOS
    BY ComboAssumption DEF Combo
<1>3. PICK f \in [0..COMBOS -> Result] :
              /\ f[0] = [st |-> s, is_combo_key |-> FALSE]
              /\ \A c \in Combo : f[c] = process_single_combo(f[c - 1], c, k, TRUE)
              /\ AllCombos(s, k, TRUE) = f[COMBOS]
  <2>1. \A pressed \in BOOLEAN : \E f \in [0..COMBOS -> Result] :
              /\ f[0] = [st |-> s, is_combo_key |-> FALSE]
              /\ \A c \in Combo : f[c] = process_single_combo(f[c - 1], c, k, pressed)
              /\ AllCombos(s, k, pressed) = f[COMBOS]
      BY <1>1, CombosLoop
  <2>2. TRUE \in BOOLEAN
      OBVIOUS
  <2>. QED BY <2>1, <2>2, Zenon
<1>. DEFINE S == {n \in 0..COMBOS : Pressed(s, f[n], n, k)}
<1>4. 0 \in S
  <2>1. f[0].st = s /\ ~f[0].is_combo_key
      BY <1>3
  <2>2. 0 \in 0..COMBOS /\ \A d \in Combo : ~(d <= 0)
      BY <1>2
  <2>3. \A d \in Combo : k \notin s.combo[d].state
      BY DEF Rest, Counted
  <2>4. Pressed(s, f[0], 0, k)
      BY <2>1, <2>2, <2>3 DEF Pressed, Rest
  <2>. QED BY <2>2, <2>4
<1>5. ASSUME NEW c \in 1..COMBOS, c - 1 \in S PROVE c \in S
  <2>. DEFINE r == f[c - 1]
  <2>1. c \in Combo /\ c \in 0..COMBOS /\ c - 1 \in 0..COMBOS /\ r \in Result
      BY <1>2
  <2>2. Pressed(s, r, c - 1, k) /\ f[c] = process_single_combo(r, c, k, TRUE)
      BY <1>3, <1>5, <2>1
  <2>. HIDE DEF r
  <2>3. Pressed(s, f[c], c, k)
      BY <2>1, <2>2, PressedByOne
  <2>. QED BY <2>1, <2>3
<1>. HIDE DEF S
<1>6. COMBOS \in S
    BY <1>2, <1>4, <1>5, Induction
<1>. QED BY <1>3, <1>6 DEF S

-----------------------------------------------------------------------------
(* One lemma for each thing a step does.                                     *)

(* A key that no combo wants changes nothing that counts.                    *)
LEMMA PassedRest ==
    ASSUME NEW M, NEW s, Rest(s, M), NEW k, NEW r, Pressed(s, r, COMBOS, k), ~r.is_combo_key
    PROVE  Rest(r.st, M)
<1>. DEFINE t == r.st
<1>1. /\ t \in State /\ t.key_buffer = s.key_buffer /\ t.reported = s.reported
      /\ Distinct(t.combo_buffer) /\ Fulls(t)
      /\ \A d \in Combo : /\ t.combo[d].active = s.combo[d].active
                          /\ s.combo[d].disabled => t.combo[d].disabled
                          /\ t.combo[d].state = s.combo[d].state
    BY DEF Pressed
<1>. HIDE DEF t
<1>2. KeptKeys(t) = KeptKeys(s) /\ Alone(t) = Alone(s)
    BY <1>1 DEF KeptKeys, Alone
<1>3. Plain(t) /\ DistinctKeys(t) /\ Counted(t, M)
    BY <1>1 DEF Rest, Plain, DistinctKeys, Counted
<1>4. KeysDown(t, M) /\ KeptCounted(t)
    BY <1>1, <1>2 DEF Rest, KeysDown, KeptCounted
<1>5. Actives(t)
  <2>1. \A i \in DOMAIN t.key_buffer : t.key_buffer[i].combo \notin Combo
      BY <1>3 DEF Plain, NoCombo, Combo
  <2>. QED BY <1>1, <1>2, <2>1 DEF Rest, Actives
<1>. QED BY <1>1, <1>3, <1>4, <1>5 DEF Rest, t

(* The key is kept, or there is no room for it.                              *)
LEMMA BufferedIs ==
    ASSUME NEW s \in State, Plain(s), NEW k \in Key
    PROVE  LET t == Buffered(s, k) IN
           /\ t \in State /\ Plain(t) /\ t.combo = s.combo /\ t.combo_buffer = s.combo_buffer
           /\ t.reported = s.reported /\ t.enabled = s.enabled /\ t.out = s.out
           /\ t.key_buffer = s.key_buffer \/ t.key_buffer = Append(s.key_buffer, Record(k, NoCombo, TRUE))
<1>. DEFINE e == Record(k, NoCombo, TRUE)
            q == Append(s.key_buffer, e)
            t == [s EXCEPT !.key_buffer = q]
<1>1. Buffered(s, k) = IF Len(s.key_buffer) < KEY_BUFFER_LENGTH THEN t ELSE s
    BY DEF Buffered
<1>2. e \in Entry /\ e.combo = NoCombo /\ e.pressed
    BY DEF Record, Entry
<1>3. s.key_buffer \in Seq(Entry) /\ Len(s.key_buffer) \in Nat /\ KEY_BUFFER_LENGTH \in Nat
    BY ComboAssumption DEF State, Buffer
<1>. HIDE DEF e
<1>4. CASE Len(s.key_buffer) < KEY_BUFFER_LENGTH
  <2>1. q \in Seq(Entry) /\ Len(q) = Len(s.key_buffer) + 1
      BY <1>2, <1>3
  <2>2. q \in Buffer
      BY <1>3, <1>4, <2>1 DEF Buffer
  <2>3. \A i \in DOMAIN q : q[i] = e \/ (i \in DOMAIN s.key_buffer /\ q[i] = s.key_buffer[i])
      BY <1>2, <1>3
  <2>. HIDE DEF q
  <2>4. /\ t \in State /\ t.combo = s.combo /\ t.combo_buffer = s.combo_buffer
        /\ t.reported = s.reported /\ t.enabled = s.enabled /\ t.out = s.out /\ t.key_buffer = q
      BY <2>2 DEF State
  <2>5. Plain(t)
      BY <1>2, <2>3, <2>4 DEF Plain
  <2>. HIDE DEF t
  <2>. QED BY <1>1, <1>4, <2>4, <2>5 DEF q, e
<1>5. CASE ~(Len(s.key_buffer) < KEY_BUFFER_LENGTH)
    BY <1>1, <1>5
<1>. QED BY <1>4, <1>5

LEMMA HeldBackRest ==
    ASSUME NEW M, NEW s, Rest(s, M), NEW k \in Key, k \notin M,
           NEW r, Pressed(s, r, COMBOS, k), r.is_combo_key
    PROVE  Rest(Buffered(r.st, k), M \cup {k})
<1>. DEFINE x == r.st
            t == Buffered(x, k)
            e == Record(k, NoCombo, TRUE)
<1>1. /\ x \in State /\ x.key_buffer = s.key_buffer /\ x.reported = s.reported
      /\ Distinct(x.combo_buffer) /\ Fulls(x)
      /\ \A d \in Combo : /\ x.combo[d].active = s.combo[d].active
                          /\ s.combo[d].disabled => x.combo[d].disabled
      /\ \A d \in Combo : IF k \in x.combo[d].state
                          THEN /\ x.combo[d].state = s.combo[d].state \cup {k}
                               /\ k \in KeysOf(d) /\ ~s.combo[d].active
                          ELSE x.combo[d].state = s.combo[d].state
    BY DEF Pressed
<1>2. \A d \in Combo : k \in KeysOf(d) /\ ~x.combo[d].disabled => k \in x.combo[d].state
  <2>1. \A d \in Combo : d <= COMBOS
      BY DEF Combo
  <2>. QED BY <2>1 DEF Pressed
<1>. HIDE DEF x
<1>3. Plain(x)
    BY <1>1 DEF Rest, Plain
<1>4. /\ t \in State /\ Plain(t) /\ t.combo = x.combo /\ t.combo_buffer = x.combo_buffer
      /\ t.reported = s.reported
      /\ t.key_buffer = s.key_buffer \/ t.key_buffer = Append(s.key_buffer, e)
  <2>1. /\ t \in State /\ Plain(t) /\ t.combo = x.combo /\ t.combo_buffer = x.combo_buffer
        /\ t.reported = x.reported
        /\ t.key_buffer = x.key_buffer \/ t.key_buffer = Append(x.key_buffer, e)
      BY <1>1, <1>3, BufferedIs, Zenon
  <2>. HIDE DEF t, e
  <2>. QED BY <2>1, <1>1
<1>. HIDE DEF t
<1>5. s.key_buffer \in Seq(Entry) /\ e \in Entry /\ e.key = k
    BY DEF Rest, State, Buffer, Record, Entry
<1>. HIDE DEF e
<1>6. \A i \in DOMAIN t.key_buffer :
         \/ t.key_buffer[i].key = k /\ i \notin DOMAIN s.key_buffer /\ i = Len(s.key_buffer) + 1
         \/ i \in DOMAIN s.key_buffer /\ t.key_buffer[i] = s.key_buffer[i]
    BY <1>4, <1>5
<1>7. k \notin KeptKeys(s) /\ [key |-> k] \notin s.reported
    BY DEF Rest, KeysDown
<1>8. KeptKeys(t) \subseteq KeptKeys(s) \cup {k} /\ Alone(t) \subseteq Alone(s) \cup {k}
    BY <1>6 DEF KeptKeys, Alone
<1>9. DistinctKeys(t)
    BY <1>6, <1>7 DEF Rest, DistinctKeys, KeptKeys
<1>10. Fulls(t)
    BY <1>1, <1>4 DEF Fulls, Full
<1>11. Counted(t, M \cup {k})
    BY <1>1, <1>4, <1>7 DEF Rest, Counted
<1>12. KeysDown(t, M \cup {k})
  <2>1. \A j \in KeptKeys(t) : j \in M \cup {k} /\ [key |-> j] \notin t.reported
      BY <1>4, <1>7, <1>8 DEF Rest, KeysDown
  <2>2. \A j \in Key : [key |-> j] \in t.reported => j \in M \cup {k}
      BY <1>4 DEF Rest, KeysDown
  <2>. QED BY <2>1, <2>2 DEF KeysDown
<1>13. Actives(t)
  <2>1. \A i \in DOMAIN t.key_buffer : t.key_buffer[i].combo \notin Combo
      BY <1>4 DEF Plain, NoCombo, Combo
  <2>2. ASSUME NEW d \in Combo, t.combo[d].active
        PROVE  t.combo[d].disabled /\ t.combo[d].state # {} /\ t.combo[d].state \cap Alone(t) = {}
    <3>1. s.combo[d].active /\ t.combo[d].state = s.combo[d].state /\ k \notin s.combo[d].state
        BY <1>1, <1>4, <2>2 DEF Rest, Counted
    <3>2. s.combo[d].disabled /\ s.combo[d].state # {} /\ s.combo[d].state \cap Alone(s) = {}
        BY <3>1 DEF Rest, Actives
    <3>. QED BY <1>1, <1>4, <1>8, <3>1, <3>2
  <2>3. \A d \in Combo : [combo |-> d] \in t.reported => t.combo[d].active
      BY <1>1, <1>4 DEF Rest, Actives
  <2>. QED BY <2>1, <2>2, <2>3 DEF Actives
<1>14. KeptCounted(t)
  <2>1. ASSUME NEW d \in Combo, ~t.combo[d].disabled, NEW j \in KeptKeys(t) \cap KeysOf(d)
        PROVE  j \in t.combo[d].state
    <3>1. CASE j = k
        BY <3>1, <2>1, <1>2, <1>4
    <3>2. CASE j # k
      <4>1. j \in KeptKeys(s) /\ ~s.combo[d].disabled
          BY <3>2, <2>1, <1>1, <1>4, <1>8
      <4>2. j \in s.combo[d].state
          BY <4>1, <2>1 DEF Rest, KeptCounted
      <4>. QED BY <4>2, <1>1, <1>4
    <3>. QED BY <3>1, <3>2
  <2>. QED BY <2>1 DEF KeptCounted
<1>. QED BY <1>1, <1>4, <1>9, <1>10, <1>11, <1>12, <1>13, <1>14 DEF Rest, t, x

LEMMA SettledRest ==
    ASSUME NEW M, NEW s, Rest(s, M), TwoKeys
    PROVE  Rest(Settled(s), M)
<1>1. PICK kk : TRUE
    OBVIOUS
<1>2. Core(s, M, kk)
    BY RestCore
<1>. QED BY <1>2, SettledSettles, SettlesRest

(* A key that is handed on when it goes down.                                *)
LEMMA SendPressRest ==
    ASSUME NEW M, NEW s, Rest(s, M), NEW k \in Key, k \notin M
    PROVE  Rest(Send(s, Record(k, NoCombo, TRUE)), M \cup {k})
<1>. DEFINE t == Send(s, Record(k, NoCombo, TRUE))
<1>1. \A pressed \in BOOLEAN :
        LET u == Send(s, Record(k, NoCombo, pressed)) IN
        /\ u \in State /\ u.combo = s.combo /\ u.key_buffer = s.key_buffer /\ u.combo_buffer = s.combo_buffer
        /\ pressed => u.reported = s.reported \cup {[key |-> k]}
  <2>1. s \in State /\ NoCombo \in Combo \cup {NoCombo}
      BY DEF Rest
  <2>. QED BY <2>1, Sends DEF Sent
<1>2. TRUE \in BOOLEAN
    OBVIOUS
<1>3. /\ t \in State /\ t.combo = s.combo /\ t.key_buffer = s.key_buffer
      /\ t.combo_buffer = s.combo_buffer /\ t.reported = s.reported \cup {[key |-> k]}
    BY <1>1, <1>2, Zenon
<1>. HIDE DEF t
<1>4. KeptKeys(t) = KeptKeys(s) /\ Alone(t) = Alone(s)
    BY <1>3 DEF KeptKeys, Alone
<1>5. Plain(t) /\ DistinctKeys(t) /\ Fulls(t)
    BY <1>3 DEF Rest, Plain, DistinctKeys, Fulls, Full
<1>6. KeptCounted(t)
    BY <1>3, <1>4 DEF Rest, KeptCounted
<1>7. \A j : [key |-> j] \in t.reported => j = k \/ [key |-> j] \in s.reported
    BY <1>3, KeyIsNoCombo
<1>8. Counted(t, M \cup {k})
    BY <1>3, <1>7 DEF Rest, Counted
<1>9. KeysDown(t, M \cup {k})
  <2>1. \A j \in KeptKeys(t) : j \in M /\ [key |-> j] \notin t.reported
      BY <1>4, <1>7 DEF Rest, KeysDown
  <2>2. \A j \in Key : [key |-> j] \in t.reported => j \in M \cup {k}
      BY <1>7 DEF Rest, KeysDown
  <2>. QED BY <2>1, <2>2 DEF KeysDown
<1>10. Actives(t)
  <2>1. \A d \in Combo : [combo |-> d] \in t.reported => [combo |-> d] \in s.reported
      BY <1>3, KeyIsNoCombo
  <2>. QED BY <1>3, <1>4, <2>1 DEF Rest, Actives
<1>. QED BY <1>3, <1>5, <1>6, <1>8, <1>9, <1>10 DEF Rest, t

(* A key that no combo counts goes up, and is not reported any more.         *)
LEMMA GoneRest ==
    ASSUME NEW M, NEW s, Rest(s, M), NEW k \in Key, s.key_buffer = <<>>,
           \A d \in Combo : k \notin s.combo[d].state, [key |-> k] \notin s.reported
    PROVE  Rest(s, M \ {k})
<1>1. Counted(s, M \ {k})
    BY DEF Rest, Counted
<1>2. KeptKeys(s) = {}
    BY DEF KeptKeys
<1>3. KeysDown(s, M \ {k})
    BY <1>2 DEF Rest, KeysDown
<1>. QED BY <1>1, <1>3 DEF Rest

LEMMA SendReleaseRest ==
    ASSUME NEW M, NEW s, Rest(s, M), NEW k \in Key, s.key_buffer = <<>>,
           \A d \in Combo : k \notin s.combo[d].state
    PROVE  Rest(Send(s, Record(k, NoCombo, FALSE)), M \ {k})
<1>. DEFINE t == Send(s, Record(k, NoCombo, FALSE))
<1>1. \A pressed \in BOOLEAN :
        LET u == Send(s, Record(k, NoCombo, pressed)) IN
        /\ u \in State /\ u.combo = s.combo /\ u.key_buffer = s.key_buffer /\ u.combo_buffer = s.combo_buffer
        /\ ~pressed => u.reported = s.reported \ {[key |-> k]}
  <2>1. s \in State /\ NoCombo \in Combo \cup {NoCombo}
      BY DEF Rest
  <2>. QED BY <2>1, Sends DEF Sent
<1>2. FALSE \in BOOLEAN
    OBVIOUS
<1>3. /\ t \in State /\ t.combo = s.combo /\ t.key_buffer = s.key_buffer
      /\ t.combo_buffer = s.combo_buffer /\ t.reported = s.reported \ {[key |-> k]}
    BY <1>1, <1>2, Zenon
<1>. HIDE DEF t
<1>4. KeptKeys(t) = {} /\ Alone(t) = Alone(s) /\ KeptKeys(s) = {}
    BY <1>3 DEF KeptKeys, Alone
<1>5. Plain(t) /\ DistinctKeys(t) /\ Fulls(t)
    BY <1>3 DEF Rest, Plain, DistinctKeys, Fulls, Full
<1>6. KeptCounted(t)
    BY <1>4 DEF KeptCounted
<1>7. Counted(t, M)
    BY <1>3 DEF Rest, Counted
<1>8. KeysDown(t, M)
    BY <1>3, <1>4 DEF Rest, KeysDown
<1>9. Actives(t)
    BY <1>3, <1>4 DEF Rest, Actives
<1>10. Rest(t, M)
    BY <1>3, <1>5, <1>6, <1>7, <1>8, <1>9 DEF Rest
<1>11. Rest(t, M \ {k})
    BY <1>3, <1>10, GoneRest
<1>. QED BY <1>11 DEF t

(* Combos are switched off.                                                  *)
LEMMA DisableIs ==
    ASSUME NEW s \in State
    PROVE  /\ combo_disable(s) \in State /\ combo_disable(s).key_buffer = <<>>
           /\ \E z \in State :
                 /\ z.combo_buffer = <<>> /\ z.combo = s.combo /\ z.key_buffer = s.key_buffer
                 /\ z.reported = s.reported /\ z.out = s.out /\ ~z.enabled
                 /\ combo_disable(s) = clear_combos(dump_key_buffer(z))
<1>. DEFINE z == [s EXCEPT !.enabled = FALSE, !.combo_buffer = <<>>]
            t == combo_disable(s)
            u == clear_combos(dump_key_buffer(z))
            sent == {What(e) : e \in {x \in Range(s.key_buffer) : IsEvent(x)}}
            joined == s.out \o s.key_buffer
<1>1. <<>> \in Ring
    BY ComboAssumption DEF Ring
<1>2. /\ z \in State /\ z.combo_buffer = <<>> /\ z.combo = s.combo /\ z.key_buffer = s.key_buffer
      /\ z.reported = s.reported /\ z.out = s.out /\ z.enabled = FALSE
    BY <1>1 DEF State
<1>3. t = dump_key_buffer(clear_combos(z))
    BY DEF combo_disable
<1>. HIDE DEF z
<1>4. /\ u \in State /\ u.key_buffer = <<>> /\ u.combo_buffer = <<>> /\ u.reported = s.reported \cup sent
      /\ u.out = joined /\ u.enabled = FALSE /\ u.longest_term = 0
      /\ \A d \in Combo : u.combo[d] = IF s.combo[d].active THEN s.combo[d] ELSE Fresh
  <2>. DEFINE v == dump_key_buffer(z)
  <2>1. /\ v \in State /\ v.combo_buffer = <<>> /\ v.combo = s.combo /\ v.key_buffer = <<>>
        /\ v.reported = s.reported \cup sent /\ v.out = joined /\ v.enabled = FALSE
      BY <1>2, Dumps DEF Sent
  <2>. HIDE DEF v, sent, joined
  <2>2. u = clear_combos(v)
      BY DEF v
  <2>. HIDE DEF u
  <2>. QED BY <2>1, <2>2, Clears
<1>5. /\ t \in State /\ t.key_buffer = <<>> /\ t.combo_buffer = <<>> /\ t.reported = s.reported \cup sent
      /\ t.out = joined /\ t.enabled = FALSE /\ t.longest_term = 0
      /\ \A d \in Combo : t.combo[d] = IF s.combo[d].active THEN s.combo[d] ELSE Fresh
  <2>. DEFINE v == clear_combos(z)
  <2>1. /\ v \in State /\ v.combo_buffer = <<>> /\ v.key_buffer = s.key_buffer /\ v.reported = s.reported
        /\ v.out = s.out /\ v.enabled = FALSE /\ v.longest_term = 0
        /\ \A d \in Combo : v.combo[d] = IF s.combo[d].active THEN s.combo[d] ELSE Fresh
      BY <1>2, Clears
  <2>. HIDE DEF v
  <2>2. t = dump_key_buffer(v)
      BY <1>3 DEF v
  <2>. HIDE DEF t
  <2>. QED BY <2>1, <2>2, Dumps DEF Sent
<1>. HIDE DEF t, u, sent, joined
<1>6. t.combo = u.combo
    BY <1>4, <1>5 DEF State
<1>7. t = u
  <2>. DEFINE C == [Combo -> Bits]
              O == Seq(Entry)
              P == SUBSET Reportable
  <2>1. /\ t \in [combo : C, key_buffer : Buffer, combo_buffer : Ring, longest_term : Age,
                  enabled : BOOLEAN, out : O, reported : P]
        /\ u \in [combo : C, key_buffer : Buffer, combo_buffer : Ring, longest_term : Age,
                  enabled : BOOLEAN, out : O, reported : P]
      BY <1>4, <1>5 DEF State
  <2>2. /\ t.combo = u.combo /\ t.key_buffer = u.key_buffer /\ t.combo_buffer = u.combo_buffer
        /\ t.longest_term = u.longest_term /\ t.enabled = u.enabled /\ t.out = u.out
        /\ t.reported = u.reported
      BY <1>4, <1>5, <1>6
  <2>. HIDE DEF C, O, P
  <2>. QED BY <2>1, <2>2
<1>. QED BY <1>2, <1>5, <1>7 DEF t, u

LEMMA DisableRest ==
    ASSUME NEW M, NEW s, Rest(s, M), TwoKeys
    PROVE  Rest(combo_disable(s), M)
<1>1. s \in State
    BY DEF Rest
<1>2. PICK z \in State :
              /\ z.combo_buffer = <<>> /\ z.combo = s.combo /\ z.key_buffer = s.key_buffer
              /\ z.reported = s.reported
              /\ combo_disable(s) = clear_combos(dump_key_buffer(z))
    BY <1>1, DisableIs
<1>. DEFINE u == clear_combos(dump_key_buffer(z))
<1>3. PICK kk : TRUE
    OBVIOUS
<1>4. Core(z, M, kk)
  <2>1. KeptKeys(z) = KeptKeys(s) /\ Alone(z) = Alone(s)
      BY <1>2 DEF KeptKeys, Alone
  <2>2. DistinctKeys(z) /\ Distinct(z.combo_buffer) /\ Counted(z, M)
      BY <1>2 DEF Rest, DistinctKeys, Distinct, Counted
  <2>3. KeysDown(z, M) /\ CountsKept(z, kk)
      BY <1>2, <2>1 DEF Rest, KeysDown, CountsKept, KeptCounted
  <2>4. Actives(z)
      BY <1>2, <2>1 DEF Rest, Actives
  <2>. QED BY <1>2, <2>2, <2>3, <2>4 DEF Core
<1>5. Settles(z, u, M, kk)
    BY <1>4, DumpSettles
<1>. QED BY <1>2, <1>5, SettlesRest

LEMMA EnableIs ==
    ASSUME NEW s \in State
    PROVE  LET t == combo_enable(s) IN
           /\ t \in State /\ t.combo = s.combo /\ t.key_buffer = s.key_buffer
           /\ t.combo_buffer = s.combo_buffer /\ t.reported = s.reported /\ t.out = s.out /\ t.enabled
BY DEF combo_enable, State

-----------------------------------------------------------------------------
(* The steps.                                                                *)
LEMMA DoneIs ==
    ASSUME NEW s \in State, Done(s)
    PROVE  /\ st' \in State /\ st'.out = <<>> /\ st'.combo = s.combo /\ st'.key_buffer = s.key_buffer
           /\ st'.combo_buffer = s.combo_buffer /\ st'.reported = s.reported
           /\ st'.enabled = s.enabled /\ out' = Events(s.out)
<1>1. st' = [s EXCEPT !.out = <<>>] /\ <<>> \in Seq(Entry) /\ out' = Events(s.out)
    BY DEF Done
<1>. QED BY <1>1 DEF State

LEMMA DoneType ==
    ASSUME NEW s \in State, Plain(s), Done(s)
    PROVE  st' \in State /\ st'.out = <<>> /\ Plain(st')
BY DoneIs DEF Plain

TInv ==
    /\ matrix \subseteq Key /\ timer \in Age \cup {NoTimer}
    /\ st \in State /\ st.out = <<>> /\ Plain(st)

LEMMA AgeIs == 0 \in Age /\ \A n \in Age : n \in Nat
BY MaxTermIs DEF Age

LEMMA SendType ==
    ASSUME NEW s \in State, NEW k \in Key, NEW pressed \in BOOLEAN, Plain(s)
    PROVE  LET t == Send(s, Record(k, NoCombo, pressed)) IN t \in State /\ Plain(t)
<1>. DEFINE t == Send(s, Record(k, NoCombo, pressed))
<1>1. NoCombo \in Combo \cup {NoCombo}
    OBVIOUS
<1>2. t \in State /\ t.key_buffer = s.key_buffer
    BY <1>1, Sends DEF Sent
<1>. HIDE DEF t
<1>3. t \in State /\ Plain(t)
    BY <1>2 DEF Plain
<1>. QED BY <1>3 DEF t

LEMMA HandOnType ==
    ASSUME TInv, NEW k \in Key, NEW pressed \in BOOLEAN, HandOn(k, pressed)
    PROVE  /\ timer' \in Age \cup {NoTimer}
           /\ st' \in State /\ st'.out = <<>> /\ Plain(st')
<1>. DEFINE r == AllCombos(st, k, pressed)
            s == Settled(r.st)
            t == Send(s, Record(k, NoCombo, pressed))
<1>1. r.st \in State /\ r.is_combo_key \in BOOLEAN
    BY AllCombosType DEF TInv, Result
<1>2. s \in State /\ Plain(s)
    BY <1>1, SettledType DEF Plain
<1>. HIDE DEF s
<1>3. t \in State /\ Plain(t)
    BY <1>2, SendType
<1>4. Done(IF r.is_combo_key THEN s ELSE t) /\ timer' \in {NoTimer, timer}
    BY DEF HandOn, s
<1>. HIDE DEF t
<1>5. timer' \in Age \cup {NoTimer}
    BY <1>4 DEF TInv
<1>6. CASE r.is_combo_key
    BY <1>2, <1>4, <1>5, <1>6, DoneType
<1>7. CASE ~r.is_combo_key
    BY <1>3, <1>4, <1>5, <1>7, DoneType
<1>. QED BY <1>6, <1>7

LEMMA TypeStep ==
    ASSUME TInv, [Next]_vars
    PROVE  TInv'
<1>1. /\ matrix \subseteq Key /\ timer \in Age \cup {NoTimer}
      /\ st \in State /\ st.out = <<>> /\ Plain(st)
    BY DEF TInv
<1>2. ASSUME NEW k \in Key, Press(k) PROVE TInv'
  <2>1. matrix' \subseteq Key
      BY <1>1, <1>2 DEF Press
  <2>2. CASE combo_toggle(k)
    <3>. DEFINE s == IF st.enabled THEN combo_disable(st) ELSE combo_enable(st)
                t == Send(s, Record(k, NoCombo, TRUE))
    <3>1. combo_disable(st) \in State /\ Plain(combo_disable(st))
      <4>1. combo_disable(st) \in State /\ combo_disable(st).key_buffer = <<>>
          BY <1>1, DisableIs, Zenon
      <4>. QED BY <4>1 DEF Plain
    <3>2. combo_enable(st) \in State /\ Plain(combo_enable(st))
        BY <1>1, EnableIs DEF Plain
    <3>3. s \in State /\ Plain(s)
        BY <3>1, <3>2
    <3>. HIDE DEF s
    <3>4. t \in State /\ Plain(t)
        BY <3>3, SendType
    <3>5. Done(t) /\ timer' \in {NoTimer, timer}
        BY <2>2 DEF combo_toggle, s
    <3>. HIDE DEF t
    <3>. QED BY <1>1, <2>1, <3>4, <3>5, DoneType DEF TInv
  <2>3. CASE HoldBack(k)
    <3>. DEFINE r == AllCombos(st, k, TRUE)
                t == Buffered(r.st, k)
    <3>1. r.st \in State /\ Plain(r.st)
        BY <1>1, AllCombosType DEF Result
    <3>2. Done(t) /\ TimerSet
        BY <2>3 DEF HoldBack
    <3>. HIDE DEF r
    <3>3. t \in State /\ Plain(t)
        BY <3>1, BufferedIs
    <3>. HIDE DEF t
    <3>4. timer' \in Age \cup {NoTimer}
        BY <1>1, <3>2, AgeIs DEF TimerSet
    <3>. QED BY <2>1, <3>2, <3>3, <3>4, DoneType DEF TInv
  <2>4. CASE HandOn(k, TRUE)
    <3>1. /\ timer' \in Age \cup {NoTimer}
          /\ st' \in State /\ st'.out = <<>> /\ Plain(st')
        BY <1>2, <2>4, HandOnType, TRUE \in BOOLEAN
    <3>. QED BY <2>1, <3>1 DEF TInv
  <2>. QED BY <1>2, <2>2, <2>3, <2>4 DEF Press
<1>3. ASSUME NEW k \in Key, Release(k) PROVE TInv'
  <2>1. matrix' \subseteq Key /\ HandOn(k, FALSE)
      BY <1>1, <1>3 DEF Release
  <2>2. /\ timer' \in Age \cup {NoTimer}
        /\ st' \in State /\ st'.out = <<>> /\ Plain(st')
      BY <2>1, HandOnType, FALSE \in BOOLEAN
  <2>. QED BY <2>1, <2>2 DEF TInv
<1>4. CASE combo_task
  <2>. DEFINE s == Settled(st)
              t == [s EXCEPT !.longest_term = 0]
  <2>1. s \in State /\ s.key_buffer = <<>>
      BY <1>1, SettledType
  <2>2. Done(t) /\ timer' = NoTimer /\ matrix' = matrix
      BY <1>4 DEF combo_task
  <2>. HIDE DEF s
  <2>3. t \in State /\ t.key_buffer = <<>>
      BY <2>1, AgeIs DEF State
  <2>. HIDE DEF t
  <2>4. Plain(t)
      BY <2>3 DEF Plain
  <2>. QED BY <1>1, <2>2, <2>3, <2>4, DoneType DEF TInv
<1>5. CASE Tick
    BY <1>1, <1>5 DEF Tick, TInv
<1>6. CASE UNCHANGED vars
    BY <1>1, <1>6 DEF vars, TInv
<1>. QED BY <1>2, <1>3, <1>4, <1>5, <1>6 DEF Next

LEMMA TypeInit ==
    ASSUME Init
    PROVE  TInv
<1>1. <<>> \in Buffer /\ <<>> \in Ring /\ <<>> \in Seq(Entry)
    BY ComboAssumption DEF Buffer, Ring
<1>2. [c \in Combo |-> Fresh] \in [Combo -> Bits]
    BY DEF Fresh, Bits
<1>3. st \in State /\ st.out = <<>> /\ Plain(st)
    BY <1>1, <1>2, AgeIs DEF Init, State, Plain
<1>. QED BY <1>3 DEF Init, TInv

LEMMA TypeImplied ==
    ASSUME TInv
    PROVE  TypeOK
<1>1. st.key_buffer \in Seq(Entry) /\ Len(st.key_buffer) <= KEY_BUFFER_LENGTH
    BY DEF TInv, State, Buffer
<1>2. Range(st.key_buffer) \subseteq [key : Key, combo : Combo \cup {NoCombo}, pressed : {TRUE}]
  <2>1. ASSUME NEW i \in DOMAIN st.key_buffer
        PROVE  st.key_buffer[i] \in [key : Key, combo : Combo \cup {NoCombo}, pressed : {TRUE}]
    <3>1. st.key_buffer[i] \in Entry
        BY <1>1
    <3>2. st.key_buffer[i].combo = NoCombo /\ st.key_buffer[i].pressed
        BY DEF TInv, Plain
    <3>. QED BY <3>1, <3>2 DEF Entry
  <2>. QED BY <2>1 DEF Range
<1>3. st.combo_buffer \in Seq(Combo) /\ Len(st.combo_buffer) < BUFFER_LENGTH
    BY DEF TInv, State, Ring
<1>4. Range(st.combo_buffer) \subseteq Combo
    BY <1>3 DEF Range
<1>. QED BY <1>1, <1>2, <1>3, <1>4 DEF TInv, TypeOK, State, Bits, reported

(* Every variable has its type, whatever the combos are.                     *)
THEOREM TypeCorrect == Spec => []TypeOK
<1>1. Init => TInv
    BY TypeInit
<1>2. TInv /\ [Next]_vars => TInv'
    BY TypeStep
<1>3. TInv => TypeOK
    BY TypeImplied
<1>. QED BY <1>1, <1>2, <1>3, PTL DEF Spec

LEMMA HandOnRest ==
    ASSUME TwoKeys, RingHolds, AnyOrder, Rest(st, matrix), NEW k \in Key,
           \/ HandOn(k, TRUE) /\ k \notin matrix /\ matrix' = matrix \cup {k}
           \/ HandOn(k, FALSE) /\ matrix' = matrix \ {k}
    PROVE  Rest(st', matrix')
<1>1. CASE HandOn(k, TRUE) /\ k \notin matrix /\ matrix' = matrix \cup {k}
  <2>. DEFINE r == AllCombos(st, k, TRUE)
              s == Settled(r.st)
              t == Send(s, Record(k, NoCombo, TRUE))
  <2>1. ~r.is_combo_key /\ Done(t)
      BY <1>1 DEF HandOn
  <2>2. Rest(r.st, matrix)
      BY <1>1, <2>1, AllCombosPress, PassedRest
  <2>3. Rest(s, matrix)
      BY <2>2, SettledRest
  <2>. HIDE DEF s
  <2>4. Rest(t, matrix \cup {k})
      BY <1>1, <2>3, SendPressRest
  <2>. HIDE DEF t
  <2>5. t \in State
      BY <2>4 DEF Rest
  <2>. QED BY <1>1, <2>1, <2>4, <2>5, DoneIs, SameRest
<1>2. CASE HandOn(k, FALSE) /\ matrix' = matrix \ {k}
  <2>. DEFINE r == AllCombos(st, k, FALSE)
              s == Settled(r.st)
              t == Send(s, Record(k, NoCombo, FALSE))
  <2>1. Done(IF r.is_combo_key THEN s ELSE t)
      BY <1>2 DEF HandOn
  <2>2. Core(st, matrix, k) /\ Fulls(st) /\ Plain(st)
      BY RestCore DEF Rest
  <2>3. /\ Core(r.st, matrix, k) /\ Fulls(r.st)
        /\ \A d \in Combo : k \notin r.st.combo[d].state
        /\ r.is_combo_key => Taken(r.st, k)
      BY <2>2, AllCombosRelease
  <2>4. Settles(r.st, s, matrix, k) /\ (r.is_combo_key => [key |-> k] \notin s.reported)
      BY <2>3, SettledSettles
  <2>5. Rest(s, matrix)
      BY <2>4, SettlesRest
  <2>. HIDE DEF s
  <2>6. \A d \in Combo : k \notin s.combo[d].state
    <3>1. Fresh.state = {}
        BY DEF Fresh
    <3>2. \A d \in Combo : IF s.combo[d].active THEN s.combo[d].state = r.st.combo[d].state
                                                ELSE s.combo[d] = Fresh
        BY <2>4 DEF Settles
    <3>. HIDE DEF r
    <3>. QED BY <2>3, <3>1, <3>2
  <2>7. s.key_buffer = <<>>
      BY <2>4 DEF Settles
  <2>8. CASE r.is_combo_key
    <3>1. Rest(s, matrix \ {k}) /\ s \in State
        BY <2>4, <2>5, <2>6, <2>7, <2>8, GoneRest DEF Rest
    <3>2. Done(s)
        BY <2>1, <2>8
    <3>. QED BY <1>2, <3>1, <3>2, DoneIs, SameRest
  <2>9. CASE ~r.is_combo_key
    <3>1. Rest(t, matrix \ {k})
        BY <2>5, <2>6, <2>7, SendReleaseRest
    <3>2. Done(t)
        BY <2>1, <2>9
    <3>. HIDE DEF t
    <3>3. t \in State
        BY <3>1 DEF Rest
    <3>. QED BY <1>2, <3>1, <3>2, <3>3, DoneIs, SameRest
  <2>. QED BY <2>8, <2>9
<1>. QED BY <1>1, <1>2

LEMMA RestStep ==
    ASSUME TwoKeys, RingHolds, AnyOrder, Rest(st, matrix), [Next]_vars
    PROVE  Rest(st', matrix')
<1>1. ASSUME NEW k \in Key, Press(k) PROVE Rest(st', matrix')
  <2>1. k \notin matrix /\ matrix' = matrix \cup {k}
      BY <1>1 DEF Press
  <2>2. CASE combo_toggle(k)
    <3>. DEFINE s == IF st.enabled THEN combo_disable(st) ELSE combo_enable(st)
                t == Send(s, Record(k, NoCombo, TRUE))
    <3>1. Rest(combo_disable(st), matrix)
        BY DisableRest
    <3>2. Rest(combo_enable(st), matrix)
      <4>. DEFINE u == combo_enable(st)
      <4>1. st \in State
          BY DEF Rest
      <4>2. /\ u \in State /\ u.combo = st.combo /\ u.key_buffer = st.key_buffer
            /\ u.combo_buffer = st.combo_buffer /\ u.reported = st.reported
          BY <4>1, EnableIs
      <4>. HIDE DEF u
      <4>3. Rest(u, matrix)
          BY <4>2, SameRest
      <4>. QED BY <4>3 DEF u
    <3>3. Rest(s, matrix)
        BY <3>1, <3>2
    <3>. HIDE DEF s
    <3>4. Rest(t, matrix \cup {k})
        BY <2>1, <3>3, SendPressRest
    <3>5. Done(t)
        BY <2>2 DEF combo_toggle, s
    <3>. HIDE DEF t
    <3>6. t \in State
        BY <3>4 DEF Rest
    <3>. QED BY <2>1, <3>4, <3>5, <3>6, DoneIs, SameRest
  <2>3. CASE HoldBack(k)
    <3>. DEFINE r == AllCombos(st, k, TRUE)
                t == Buffered(r.st, k)
    <3>1. r.is_combo_key /\ Done(t)
        BY <2>3 DEF HoldBack
    <3>2. Pressed(st, r, COMBOS, k)
        BY <2>1, AllCombosPress
    <3>. HIDE DEF r
    <3>3. Rest(t, matrix \cup {k})
        BY <2>1, <3>1, <3>2, HeldBackRest
    <3>. HIDE DEF t
    <3>4. t \in State
        BY <3>3 DEF Rest
    <3>. QED BY <2>1, <3>1, <3>3, <3>4, DoneIs, SameRest
  <2>4. CASE HandOn(k, TRUE)
      BY <2>1, <2>4, HandOnRest
  <2>. QED BY <1>1, <2>2, <2>3, <2>4 DEF Press
<1>2. ASSUME NEW k \in Key, Release(k) PROVE Rest(st', matrix')
    BY <1>2, HandOnRest DEF Release
<1>3. CASE combo_task
  <2>. DEFINE s == Settled(st)
              t == [s EXCEPT !.longest_term = 0]
  <2>1. Rest(s, matrix)
      BY SettledRest
  <2>2. Done(t) /\ matrix' = matrix
      BY <1>3 DEF combo_task
  <2>. HIDE DEF s
  <2>3. /\ t \in State /\ t.combo = s.combo /\ t.key_buffer = s.key_buffer
        /\ t.combo_buffer = s.combo_buffer /\ t.reported = s.reported
      BY <2>1, AgeIs DEF Rest, State
  <2>. HIDE DEF t
  <2>4. Rest(t, matrix)
      BY <2>1, <2>3, SameRest
  <2>. QED BY <2>2, <2>3, <2>4, DoneIs, SameRest
<1>4. CASE Tick
    BY <1>4 DEF Tick
<1>5. CASE UNCHANGED vars
    BY <1>5 DEF vars
<1>. QED BY <1>1, <1>2, <1>3, <1>4, <1>5 DEF Next

LEMMA RestInit ==
    ASSUME Init, TwoKeys
    PROVE  Rest(st, matrix)
<1>1. /\ st \in State /\ Plain(st) /\ st.key_buffer = <<>> /\ st.combo_buffer = <<>> /\ st.reported = {}
      /\ \A c \in Combo : st.combo[c] = Fresh
    BY TypeInit DEF TInv, Init
<1>2. KeptKeys(st) = {} /\ DistinctKeys(st) /\ Distinct(st.combo_buffer)
    BY <1>1 DEF KeptKeys, DistinctKeys, Distinct
<1>3. \A c \in Combo : st.combo[c].state = {} /\ ~st.combo[c].active
    BY <1>1 DEF Fresh
<1>4. Counted(st, matrix) /\ Actives(st)
    BY <1>1, <1>3 DEF Counted, Actives
<1>5. KeysDown(st, matrix) /\ KeptCounted(st)
    BY <1>1, <1>2 DEF KeysDown, KeptCounted
<1>6. Fulls(st)
  <2>1. \A c \in Combo : KeysOf(c) # {}
      BY DEF TwoKeys, KeysOf, Range
  <2>. QED BY <1>3, <2>1 DEF Fulls, Full
<1>. QED BY <1>1, <1>2, <1>4, <1>5, <1>6 DEF Rest

LEMMA RestImplied ==
    ASSUME Rest(st, matrix)
    PROVE  NothingSticks
<1>1. \A k \in Key : [key |-> k] \in st.reported => k \in matrix
    BY DEF Rest, KeysDown
<1>2. \A c \in Combo : [combo |-> c] \in st.reported => KeysOf(c) \cap matrix # {}
  <2>1. \A c \in Combo : [combo |-> c] \in st.reported => st.combo[c].state # {}
      BY DEF Rest, Actives
  <2>2. \A c \in Combo : st.combo[c].state \subseteq matrix \cap KeysOf(c)
      BY DEF Rest, Counted
  <2>. QED BY <2>1, <2>2
<1>. QED BY <1>1, <1>2 DEF NothingSticks, reported

(* A key or a combo that was reported as pressed, and not yet as released, is *)
(* held down, a combo by at least one of its keys.                            *)
THEOREM NothingEverSticks ==
    ASSUME TwoKeys, RingHolds, AnyOrder
    PROVE  Spec => []NothingSticks
<1>. DEFINE Inv == Rest(st, matrix)
<1>1. Init => Inv
    BY RestInit
<1>2. Inv /\ [Next]_vars => Inv'
    BY RestStep
<1>3. Inv => NothingSticks
    BY RestImplied
<1>. HIDE DEF Inv
<1>. QED BY <1>1, <1>2, <1>3, PTL DEF Spec

-----------------------------------------------------------------------------
-----------------------------------------------------------------------------
(* What a step hands on.                                                     *)

(* r has the events of the first n entries of q, where h says.               *)
Picks(h, r, q, n) ==
    /\ r \in Seq(Entry) /\ h \in [1..Len(r) -> 1..n]
    /\ \A i \in 1..Len(r) : r[i] = q[h[i]] /\ IsEvent(r[i])
    /\ \A i, j \in 1..Len(r) : i < j => h[i] < h[j]
    /\ \A m \in 1..n : IsEvent(q[m]) => \E i \in 1..Len(r) : h[i] = m

LEMMA PicksOne ==
    ASSUME NEW q \in Seq(Entry), NEW n \in 1..Len(q), NEW h, NEW r, Picks(h, r, q, n - 1)
    PROVE  \E g : Picks(g, IF IsEvent(q[n]) THEN Append(r, q[n]) ELSE r, q, n)
<1>1. /\ Len(q) \in Nat /\ n \in Nat /\ n >= 1 /\ n <= Len(q) /\ r \in Seq(Entry) /\ q[n] \in Entry
      /\ Len(r) \in Nat
    BY DEF Picks
<1>2. CASE IsEvent(q[n])
  <2>. DEFINE L == Len(r)
              a == Append(r, q[n])
              g == [i \in 1..(L + 1) |-> IF i = L + 1 THEN n ELSE h[i]]
  <2>1. a \in Seq(Entry) /\ Len(a) = L + 1 /\ a[L + 1] = q[n] /\ \A i \in 1..L : a[i] = r[i]
      BY <1>1
  <2>2. g[L + 1] = n /\ \A i \in 1..L : g[i] = h[i] /\ h[i] \in 1..(n - 1)
    <3>1. L + 1 \in 1..(L + 1) /\ \A i \in 1..L : i \in 1..(L + 1) /\ i # L + 1
        BY <1>1
    <3>2. \A i \in 1..L : h[i] \in 1..(n - 1)
        BY DEF Picks
    <3>. QED BY <3>1, <3>2
  <2>3. \A i \in 1..(L + 1) : i \in 1..L \/ i = L + 1
      BY <1>1
  <2>4. L \in Nat
      BY <1>1
  <2>. HIDE DEF a, L
  <2>5. g \in [1..(L + 1) -> 1..n]
    <3>1. 1..(n - 1) \subseteq 1..n /\ n \in 1..n
        BY <1>1
    <3>2. \A i \in 1..(L + 1) : i # L + 1 => h[i] \in 1..n
        BY <3>1, <2>2, <2>3
    <3>3. \A i \in 1..(L + 1) : (IF i = L + 1 THEN n ELSE h[i]) \in 1..n
        BY <3>1, <3>2
    <3>. QED BY <3>3
  <2>. HIDE DEF g
  <2>6. \A i \in 1..(L + 1) : a[i] = q[g[i]] /\ IsEvent(a[i])
      BY <1>2, <2>1, <2>2, <2>3 DEF Picks, L
  <2>7. \A i, j \in 1..(L + 1) : i < j => g[i] < g[j]
    <3>1. ASSUME NEW i \in 1..(L + 1), NEW j \in 1..(L + 1), i < j PROVE g[i] < g[j]
      <4>1. i \in 1..L
          BY <3>1, <2>4
      <4>2. CASE j \in 1..L
          BY <3>1, <4>1, <4>2, <2>2 DEF Picks, L
      <4>3. CASE j = L + 1
          BY <4>1, <4>3, <2>2, <1>1
      <4>. QED BY <4>2, <4>3, <2>3
    <3>. QED BY <3>1
  <2>8. ASSUME NEW m \in 1..n, IsEvent(q[m]) PROVE \E i \in 1..(L + 1) : g[i] = m
    <3>1. CASE m = n
        BY <3>1, <2>2, <2>4
    <3>2. CASE m # n
      <4>1. m \in 1..(n - 1)
          BY <3>2, <1>1
      <4>2. PICK i \in 1..L : h[i] = m
          BY <4>1, <2>8 DEF Picks, L
      <4>3. i \in 1..(L + 1)
          BY <2>4
      <4>. QED BY <4>2, <4>3, <2>2
    <3>. QED BY <3>1, <3>2
  <2>9. Picks(g, a, q, n)
      BY <2>1, <2>5, <2>6, <2>7, <2>8 DEF Picks
  <2>. QED BY <1>2, <2>9 DEF a
<1>3. CASE ~IsEvent(q[n])
  <2>1. \A m \in 1..n : IsEvent(q[m]) => m \in 1..(n - 1)
      BY <1>1, <1>3
  <2>2. 1..(n - 1) \subseteq 1..n
      BY <1>1
  <2>3. h \in [1..Len(r) -> 1..n]
    <3>1. h \in [1..Len(r) -> 1..(n - 1)]
        BY DEF Picks
    <3>. QED BY <3>1, <2>2
  <2>4. Picks(h, r, q, n)
      BY <2>1, <2>3 DEF Picks
  <2>. QED BY <1>3, <2>4
<1>. QED BY <1>2, <1>3

LEMMA EventsIs ==
    ASSUME NEW q \in Seq(Entry)
    PROVE  \E h : Picks(h, Events(q), q, Len(q))
<1>. DEFINE N == Len(q)
            Step(r, n) == IF n \in 1..N /\ IsEvent(q[n]) THEN Append(r, q[n]) ELSE r
            F == [p \in Seq(Entry) \X Nat |-> Step(p[1], p[2])]
            body(w) == [i \in 0..N |-> IF i = 0 THEN <<>>
                                       ELSE IF IsEvent(q[i]) THEN Append(w[i - 1], q[i]) ELSE w[i - 1]]
            u == CHOOSE w : w = body(w)
<1>1. N \in Nat /\ <<>> \in Seq(Entry) /\ \A i \in 1..N : q[i] \in Entry /\ i \in 0..N /\ i # 0
    OBVIOUS
<1>. HIDE DEF N
<1>2. F \in [Seq(Entry) \X Nat -> Seq(Entry)]
  <2>1. ASSUME NEW r \in Seq(Entry), NEW n \in Nat PROVE Step(r, n) \in Seq(Entry)
    <3>1. n \in 1..N => Append(r, q[n]) \in Seq(Entry)
        BY <1>1
    <3>. QED BY <3>1
  <2>. HIDE DEF Step
  <2>. QED BY <2>1
<1>3. PICK f : Iterates(f, N, Seq(Entry), <<>>, F)
  <2>. HIDE DEF F
  <2>. QED BY <1>1, <1>2, Recursion
<1>4. f \in [0..N -> Seq(Entry)] /\ f[0] = <<>>
  <2>1. 0 \in 0..N
      BY <1>1
  <2>. HIDE DEF F
  <2>. QED BY <1>3, <2>1 DEF Iterates
<1>5. ASSUME NEW i \in 1..N
      PROVE  f[i] = IF IsEvent(q[i]) THEN Append(f[i - 1], q[i]) ELSE f[i - 1]
  <2>1. i \in 0..N /\ i # 0 /\ i - 1 \in 0..N /\ i \in Nat /\ f[i - 1] \in Seq(Entry)
      BY <1>1, <1>4
  <2>2. f[i] = F[<<f[i - 1], i>>] /\ <<f[i - 1], i>> \in Seq(Entry) \X Nat
    <3>. HIDE DEF F
    <3>. QED BY <1>3, <2>1 DEF Iterates
  <2>3. F[<<f[i - 1], i>>] = Step(f[i - 1], i)
    <3>. HIDE DEF Step
    <3>. QED BY <2>2
  <2>. QED BY <2>2, <2>3
<1>. HIDE DEF F
<1>6. f = body(f)
  <2>1. f = [i \in 0..N |-> f[i]]
      BY <1>4
  <2>2. \A i \in 0..N : f[i] = IF i = 0 THEN <<>>
                               ELSE IF IsEvent(q[i]) THEN Append(f[i - 1], q[i]) ELSE f[i - 1]
    <3>1. \A i \in 0..N : i # 0 => i \in 1..N
        BY <1>1
    <3>. QED BY <3>1, <1>4, <1>5
  <2>. QED BY <2>1, <2>2, Zenon
<1>7. Events(q) = u[N]
    BY Zenon DEF Events, N
<1>8. u = body(u)
  <2>. HIDE DEF body
  <2>. QED BY <1>6, Zenon
<1>9. \A i \in 0..N : u[i] = IF i = 0 THEN <<>>
                             ELSE IF IsEvent(q[i]) THEN Append(u[i - 1], q[i]) ELSE u[i - 1]
  <2>1. \A i \in 0..N : body(u)[i] = IF i = 0 THEN <<>>
                             ELSE IF IsEvent(q[i]) THEN Append(u[i - 1], q[i]) ELSE u[i - 1]
      BY Zenon
  <2>. HIDE DEF body, u
  <2>. QED BY <1>8, <2>1, Zenon
<1>. HIDE DEF u, body
<1>. DEFINE S == {i \in Nat : \E h : Picks(h, u[i], q, i)}
<1>10. 0 \in S
  <2>. DEFINE h == [i \in 1..0 |-> 0]
  <2>1. u[0] = <<>>
      BY <1>1, <1>9
  <2>2. Picks(h, <<>>, q, 0)
    <3>1. Len(<<>>) = 0 /\ <<>> \in Seq(Entry) /\ \A i \in 1..0 : FALSE
        OBVIOUS
    <3>2. h \in [1..0 -> 1..0]
        BY <3>1
    <3>. HIDE DEF h
    <3>. QED BY <3>1, <3>2 DEF Picks
  <2>. QED BY <2>1, <2>2
<1>11. ASSUME NEW i \in 1..N, i - 1 \in S PROVE i \in S
  <2>1. PICK h : Picks(h, u[i - 1], q, i - 1)
      BY <1>11
  <2>2. u[i] = IF IsEvent(q[i]) THEN Append(u[i - 1], q[i]) ELSE u[i - 1]
      BY <1>1, <1>9
  <2>3. \E g : Picks(g, u[i], q, i)
      BY <2>1, <2>2, PicksOne DEF N
  <2>4. i \in Nat
      BY <1>1
  <2>. QED BY <2>3, <2>4
<1>. HIDE DEF S
<1>12. \A n \in 0..N : n \in S
    BY <1>1, <1>10, <1>11, Induction
<1>. QED BY <1>1, <1>7, <1>12 DEF S, N

-----------------------------------------------------------------------------
(* Every key that is kept is accounted for once.                             *)

Apart(Q)    == \A b, c \in Q : b # c => ~Overlaps(b, c)
Taker(s, c) == \E i \in DOMAIN s.key_buffer : s.key_buffer[i].combo = c

(* An entry is of a key that no combo has taken, of a combo of Q that took   *)
(* its keys, or a tick.                                                      *)
Accounts(s, Q) ==
    /\ \A i \in DOMAIN s.key_buffer :
          /\ s.key_buffer[i].pressed
          /\ s.key_buffer[i].combo \in Combo =>
                s.key_buffer[i].combo \in Q /\ s.key_buffer[i].key \in KeysOf(s.key_buffer[i].combo)
    /\ \A i, j \in DOMAIN s.key_buffer :
          s.key_buffer[i].combo = s.key_buffer[j].combo /\ s.key_buffer[i].combo \in Combo => i = j
    /\ \A c \in Q : Taker(s, c) => KeysOf(c) \cap Alone(s) = {}
    /\ \A k \in KeptKeys(s) : k \in Alone(s) \/ \E c \in Q : Taker(s, c) /\ k \in KeysOf(c)

(* While the combos of Q are applied, which were complete when all that is   *)
(* in N was down.                                                            *)
Working(s, Q, N) ==
    /\ Accounts(s, Q) /\ Apart(Q) /\ Q \subseteq Combo
    /\ \A c \in Q : /\ KeysOf(c) \subseteq KeptKeys(s)
                    /\ Taker(s, c) => KeysOf(c) \cap N \subseteq s.combo[c].state
    /\ \A c \in Combo : s.combo[c].active => [combo |-> c] \in s.reported \/ Taker(s, c)
    /\ \A c \in Range(s.combo_buffer) :
          /\ c \in Q
          /\ IF s.combo[c].disabled THEN c \in MUST_TAP ELSE KeysOf(c) \cap N \subseteq s.combo[c].state

(* The last of its keys becomes the combo, the others become ticks.          *)
LEMMA MarkedAll ==
    ASSUME NEW s \in State, NEW c \in Combo, DistinctKeys(s), KeysOf(c) # {}, KeysOf(c) \subseteq KeptKeys(s)
    PROVE  LET m == Marked(s, c) IN
           /\ DOMAIN m = DOMAIN s.key_buffer
           /\ \A i \in DOMAIN s.key_buffer : /\ m[i].key = s.key_buffer[i].key
                                             /\ s.key_buffer[i].pressed => m[i].pressed
                                             /\ s.key_buffer[i].key \notin KeysOf(c) => m[i] = s.key_buffer[i]
           /\ \E n \in DOMAIN s.key_buffer :
                /\ s.key_buffer[n].key \in KeysOf(c) /\ Completing(s, c, n) /\ m[n].combo = c
                /\ \A i \in DOMAIN s.key_buffer :
                      s.key_buffer[i].key \in KeysOf(c) /\ i # n => m[i].combo = TICK_EVENT
<1>. DEFINE q == s.key_buffer
            m == Marked(s, c)
<1>1. q \in Seq(Entry) /\ DOMAIN q = 1..Len(q) /\ Len(q) \in Nat
    BY DEF State, Buffer
<1>2. DOMAIN m = DOMAIN q
    BY DEF Marked
<1>3. ASSUME NEW i \in DOMAIN q
      PROVE  m[i] = IF i \notin Chord(s, c) \/ \E n \in 1..(i - 1) : Completing(s, c, n) THEN q[i]
                    ELSE [q[i] EXCEPT !.combo = IF Completing(s, c, i) THEN c ELSE TICK_EVENT]
    BY <1>3, Zenon DEF Marked
<1>. HIDE DEF m
<1>4. PICK n \in 1..Len(q) : Completes(s, c, n) /\ \A i \in 1..(n - 1) : ~Completes(s, c, i)
  <2>. DEFINE S == {n \in Nat : Completes(s, c, n)}
  <2>1. Len(q) \in S
    <3>1. \A j \in Chord(s, c) : j <= Len(q) /\ j \in DOMAIN q
        BY <1>1 DEF Chord
    <3>2. {j \in Chord(s, c) : j <= Len(q)} = Chord(s, c)
        BY <3>1
    <3>3. KeysOf(c) = {q[i].key : i \in Chord(s, c)}
      <4>1. \A k \in KeysOf(c) : \E i \in Chord(s, c) : k = q[i].key
          BY DEF KeptKeys, Chord
      <4>2. \A i \in Chord(s, c) : q[i].key \in KeysOf(c)
          BY DEF Chord
      <4>. QED BY <4>1, <4>2
    <3>. QED BY <1>1, <3>2, <3>3 DEF Completes
  <2>2. PICK n \in S : \A y \in S : n <= y
    <3>. HIDE DEF S
    <3>1. S \in SUBSET Nat
        BY DEF S
    <3>. QED BY <2>1, <3>1, LeastElement
  <2>3. n # 0
    <3>. SUFFICES ASSUME n = 0 PROVE FALSE
        OBVIOUS
    <3>1. {j \in Chord(s, c) : j <= n} = {}
        BY <1>1 DEF Chord
    <3>2. KeysOf(c) = {q[i].key : i \in {j \in Chord(s, c) : j <= n}}
        BY <2>2 DEF Completes
    <3>. QED BY <3>1, <3>2
  <2>4. n \in Nat /\ n <= Len(q)
      BY <2>1, <2>2
  <2>5. ASSUME NEW i \in 1..(n - 1) PROVE ~Completes(s, c, i)
      BY <2>2, <2>4
  <2>. QED BY <2>2, <2>3, <2>4, <2>5, <1>1
<1>5. n \in Chord(s, c)
  <2>. SUFFICES ASSUME n \notin Chord(s, c) PROVE FALSE
      OBVIOUS
  <2>1. {j \in Chord(s, c) : j <= n} = {j \in Chord(s, c) : j <= n - 1}
    <3>1. \A j \in Chord(s, c) : j # n /\ j \in Nat
        BY <1>1 DEF Chord
    <3>. QED BY <3>1, <1>4
  <2>2. Completes(s, c, n - 1)
      BY <1>4, <2>1 DEF Completes
  <2>3. n = 1
      BY <1>4, <2>2
  <2>4. {j \in Chord(s, c) : j <= n - 1} = {}
      BY <1>1, <2>3 DEF Chord
  <2>. QED BY <2>2, <2>4 DEF Completes
<1>6. Completing(s, c, n) /\ n \in DOMAIN q /\ q[n].key \in KeysOf(c)
    BY <1>1, <1>4, <1>5 DEF Completing, Chord
<1>7. ASSUME NEW i \in DOMAIN q, q[i].key \in KeysOf(c) PROVE i <= n
  <2>1. KeysOf(c) = {q[j].key : j \in {x \in Chord(s, c) : x <= n}}
      BY <1>4 DEF Completes
  <2>2. PICK j \in Chord(s, c) : j <= n /\ q[j].key = q[i].key
      BY <2>1, <1>7
  <2>3. j \in DOMAIN q
      BY <2>2 DEF Chord
  <2>4. j = i
      BY <2>2, <2>3 DEF DistinctKeys
  <2>. QED BY <2>4, <2>2
<1>8. \A i \in 1..(n - 1) : ~Completing(s, c, i)
    BY <1>4 DEF Completing
<1>9. ASSUME NEW i \in DOMAIN q
      PROVE  /\ m[i].key = q[i].key /\ (q[i].pressed => m[i].pressed)
             /\ q[i].key \notin KeysOf(c) => m[i] = q[i]
  <2>1. q[i] \in Entry
      BY <1>1
  <2>2. i \in Chord(s, c) => q[i].key \in KeysOf(c)
      BY DEF Chord
  <2>3. \/ m[i] = q[i]
        \/ i \in Chord(s, c) /\ m[i] = [q[i] EXCEPT !.combo = c]
        \/ i \in Chord(s, c) /\ m[i] = [q[i] EXCEPT !.combo = TICK_EVENT]
      BY <1>3, Zenon
  <2>. QED BY <2>1, <2>2, <2>3 DEF Entry
<1>10. m[n].combo = c
  <2>1. q[n] \in Entry
      BY <1>1
  <2>2. m[n] = [q[n] EXCEPT !.combo = c]
      BY <1>3, <1>5, <1>6, <1>8
  <2>. QED BY <2>1, <2>2 DEF Entry
<1>11. ASSUME NEW i \in DOMAIN q, q[i].key \in KeysOf(c), i # n PROVE m[i].combo = TICK_EVENT
  <2>1. i \in Chord(s, c) /\ q[i] \in Entry
      BY <1>1, <1>11 DEF Chord
  <2>2. i < n /\ i \in 1..(n - 1)
      BY <1>1, <1>4, <1>7, <1>11
  <2>3. ~Completing(s, c, i) /\ \A j \in 1..(i - 1) : ~Completing(s, c, j)
    <3>1. \A j \in 1..(i - 1) : j \in 1..(n - 1)
        BY <2>2, <1>4
    <3>. QED BY <2>2, <3>1, <1>8
  <2>4. m[i] = [q[i] EXCEPT !.combo = TICK_EVENT]
      BY <1>3, <2>1, <2>3
  <2>. QED BY <2>1, <2>4 DEF Entry
<1>. QED BY <1>2, <1>6, <1>9, <1>10, <1>11 DEF m

(* The ring loses the combo that is dropped, if it is at the front.          *)
Popped(q, c) == IF q # <<>> /\ Head(q) = c THEN Tail(q) ELSE q

LEMMA DropsRing ==
    ASSUME NEW s \in State, NEW c \in Combo
    PROVE  drop_combo_from_buffer(s, c).combo_buffer = Popped(s.combo_buffer, c)
<1>1. s.combo_buffer \in Seq(Combo)
    BY DEF State, Ring
<1>2. CASE c \notin Range(s.combo_buffer)
  <2>1. s.combo_buffer # <<>> => Head(s.combo_buffer) \in Range(s.combo_buffer)
      BY <1>1, TailOf
  <2>. QED BY <1>2, <2>1 DEF drop_combo_from_buffer, Popped
<1>3. CASE c \in Range(s.combo_buffer)
  <2>. DEFINE q == IF Head(s.combo_buffer) = c THEN Tail(s.combo_buffer) ELSE s.combo_buffer
              b == [s.combo EXCEPT ![c].disabled = TRUE]
              t == [s EXCEPT !.combo = b, !.combo_buffer = q]
  <2>1. drop_combo_from_buffer(s, c) = t
      BY <1>3 DEF drop_combo_from_buffer
  <2>2. q = Popped(s.combo_buffer, c)
    <3>1. s.combo_buffer # <<>>
        BY <1>3 DEF Range
    <3>. QED BY <3>1 DEF Popped
  <2>. HIDE DEF q, b
  <2>3. t.combo_buffer = q
      BY DEF State
  <2>. QED BY <2>1, <2>2, <2>3
<1>. QED BY <1>2, <1>3

LEMMA AppliesRing ==
    ASSUME NEW s \in State, NEW c \in Combo, ~s.combo[c].disabled
    PROVE  apply_combo(s, c).combo_buffer = Popped(s.combo_buffer, c)
<1>. DEFINE a == \E n \in DOMAIN s.key_buffer : Completing(s, c, n)
            b == [s.combo EXCEPT ![c].active = @ \/ a]
            u == [s EXCEPT !.key_buffer = Marked(s, c), !.combo = b]
<1>1. apply_combo(s, c) = drop_combo_from_buffer(u, c)
    BY DEF apply_combo, Marked
<1>2. apply_combo(s, c) \in State /\ Marked(s, c) = apply_combo(s, c).key_buffer
    BY Applies
<1>3. Marked(s, c) \in Buffer
    BY <1>2 DEF State
<1>4. a \in BOOLEAN
    OBVIOUS
<1>. HIDE DEF a
<1>5. b \in [Combo -> Bits]
    BY <1>4 DEF State, Bits
<1>. HIDE DEF b
<1>6. u \in State /\ u.combo_buffer = s.combo_buffer
    BY <1>3, <1>5 DEF State
<1>. HIDE DEF u
<1>. QED BY <1>1, <1>6, DropsRing

(* Once it is popped it is gone.                                             *)
LEMMA PoppedIs ==
    ASSUME NEW q \in Seq(Combo), NEW c, Distinct(q)
    PROVE  /\ Range(Popped(q, c)) \subseteq Range(q)
           /\ \A d \in Range(q) : d # c => d \in Range(Popped(q, c))
           /\ q # <<>> /\ Head(q) = c => c \notin Range(Popped(q, c))
<1>1. CASE q # <<>> /\ Head(q) = c
  <2>. DEFINE r == Tail(q)
  <2>1. Popped(q, c) = r
      BY <1>1 DEF Popped
  <2>2. Range(q) = {c} \cup Range(r)
      BY <1>1, TailOf
  <2>3. c \notin Range(r)
    <3>. SUFFICES ASSUME c \in Range(r) PROVE FALSE
        OBVIOUS
    <3>1. /\ Len(q) \in Nat /\ 1 \in DOMAIN q /\ q[1] = c
          /\ \A i \in DOMAIN r : i + 1 \in DOMAIN q /\ q[i + 1] = r[i] /\ i + 1 # 1
        BY <1>1
    <3>. HIDE DEF r
    <3>2. PICK i \in DOMAIN r : r[i] = c
        BY DEF Range
    <3>. QED BY <3>1, <3>2 DEF Distinct
  <2>. HIDE DEF r
  <2>. QED BY <2>1, <2>2, <2>3
<1>2. CASE ~(q # <<>> /\ Head(q) = c)
    BY <1>2 DEF Popped
<1>. QED BY <1>1, <1>2

(* A combo of the ring is applied, at the front of it or one that must be    *)
(* tapped.                                                                   *)
LEMMA WorksApply ==
    ASSUME NEW M, NEW kk, NEW s, Core(s, M, kk), TwoKeys, NEW Q, NEW N, Working(s, Q, N),
           NEW c \in Combo, c \in Range(s.combo_buffer), ~s.combo[c].disabled,
           c = Head(s.combo_buffer) \/ c \in MUST_TAP
    PROVE  LET t == apply_combo(s, c) IN
           /\ Working(t, Q, N) /\ Taker(t, c) /\ \A d \in Combo : Taker(s, d) => Taker(t, d)
           /\ \A k \in Alone(s) : k \notin KeysOf(c) => k \in Alone(t)
<1>. DEFINE t == apply_combo(s, c)
            q == s.key_buffer
            m == t.key_buffer
<1>1. s \in State /\ DistinctKeys(s) /\ Distinct(s.combo_buffer) /\ Actives(s)
    BY DEF Core
<1>2. s.combo_buffer \in Seq(Combo) /\ c \in Q /\ Q \subseteq Combo /\ Apart(Q) /\ Accounts(s, Q)
    BY <1>1 DEF State, Ring, Working
<1>3. KeysOf(c) # {} /\ KeysOf(c) \subseteq KeptKeys(s)
    BY <1>2 DEF TwoKeys, KeysOf, Range, Working
<1>4. ~s.combo[c].active /\ ~Taker(s, c)
    BY <1>1 DEF Actives, Taker
<1>5. /\ t.reported = s.reported /\ m = Marked(s, c)
      /\ \A d \in Combo : /\ t.combo[d].state = s.combo[d].state
                          /\ d # c => t.combo[d].active = s.combo[d].active
                          /\ d # c => t.combo[d].disabled = s.combo[d].disabled
  <2>1. Core(t, M, kk) /\ DealtWith(s, t, c)
      BY AppliesOne
  <2>2. m = Marked(s, c)
      BY <1>1, Applies
  <2>. HIDE DEF t
  <2>. QED BY <2>1, <2>2 DEF DealtWith
<1>6. /\ KeptKeys(t) = KeptKeys(s) /\ Alone(t) \subseteq Alone(s) /\ Alone(t) \cap KeysOf(c) = {}
  <2>1. DealtWith(s, t, c) /\ Alone(t) \cap KeysOf(c) = {}
      BY AppliesOne
  <2>. HIDE DEF t
  <2>. QED BY <2>1 DEF DealtWith
<1>7. t.combo_buffer = Popped(s.combo_buffer, c)
    BY <1>1, AppliesRing
<1>8. /\ DOMAIN m = DOMAIN q
      /\ \A i \in DOMAIN q : /\ m[i].key = q[i].key /\ (q[i].pressed => m[i].pressed)
                             /\ q[i].key \notin KeysOf(c) => m[i] = q[i]
      /\ \E n \in DOMAIN q : /\ q[n].key \in KeysOf(c) /\ m[n].combo = c
                             /\ \A i \in DOMAIN q : q[i].key \in KeysOf(c) /\ i # n => m[i].combo = TICK_EVENT
  <2>. HIDE DEF t
  <2>1. LET w == Marked(s, c) IN
         /\ DOMAIN w = DOMAIN q
         /\ \A i \in DOMAIN q : /\ w[i].key = q[i].key /\ (q[i].pressed => w[i].pressed)
                                /\ q[i].key \notin KeysOf(c) => w[i] = q[i]
         /\ \E n \in DOMAIN q : /\ q[n].key \in KeysOf(c) /\ w[n].combo = c
                                /\ \A i \in DOMAIN q : q[i].key \in KeysOf(c) /\ i # n => w[i].combo = TICK_EVENT
      BY <1>1, <1>3, MarkedAll
  <2>. QED BY <2>1, <1>5
<1>9. TICK_EVENT \notin Combo /\ NoCombo \notin Combo
    BY DEF TICK_EVENT, NoCombo, Combo
<1>. HIDE DEF t
<1>20. \A i \in DOMAIN q : (q[i].pressed => m[i].pressed)
    BY <1>8
<1>21. DOMAIN m = DOMAIN q /\ \A i \in DOMAIN q : m[i].key = q[i].key
    BY <1>8
<1>22. \A i \in DOMAIN q : q[i].key \notin KeysOf(c) => m[i] = q[i]
    BY <1>8
<1>10. PICK n \in DOMAIN q : /\ q[n].key \in KeysOf(c) /\ m[n].combo = c
                             /\ \A i \in DOMAIN q : q[i].key \in KeysOf(c) /\ i # n => m[i].combo = TICK_EVENT
    BY <1>8
<1>11. Taker(t, c)
    BY <1>21, <1>22, <1>10 DEF Taker
<1>12. ASSUME NEW d \in Combo, d # c PROVE Taker(t, d) => Taker(s, d)
  <2>. SUFFICES ASSUME Taker(t, d) PROVE Taker(s, d)
      OBVIOUS
  <2>1. PICK i \in DOMAIN m : m[i].combo = d
      BY DEF Taker
  <2>2. q[i].key \notin KeysOf(c)
      BY <1>21, <1>22, <1>9, <1>10, <1>12, <2>1
  <2>. QED BY <2>1, <2>2, <1>21, <1>22 DEF Taker
<1>13. ASSUME NEW d \in Combo, Taker(s, d) PROVE Taker(t, d)
  <2>1. PICK i \in DOMAIN q : q[i].combo = d
      BY <1>13 DEF Taker
  <2>2. d \in Q /\ q[i].key \in KeysOf(d) /\ d # c
      BY <2>1, <1>2, <1>4, <1>13 DEF Accounts
  <2>3. q[i].key \notin KeysOf(c)
      BY <2>2, <1>2 DEF Apart, Overlaps
  <2>. QED BY <2>1, <2>3, <1>21, <1>22 DEF Taker
<1>14. ASSUME NEW k \in Alone(s), k \notin KeysOf(c) PROVE k \in Alone(t)
  <2>1. PICK i \in DOMAIN q : q[i].combo = NoCombo /\ q[i].key = k
      BY <1>14 DEF Alone
  <2>2. m[i] = q[i] /\ i \in DOMAIN m
      BY <2>1, <1>21, <1>22, <1>14
  <2>. QED BY <2>1, <2>2 DEF Alone
<1>15. Accounts(t, Q)
  <2>1. ASSUME NEW i \in DOMAIN m
        PROVE  /\ m[i].pressed
               /\ m[i].combo \in Combo => m[i].combo \in Q /\ m[i].key \in KeysOf(m[i].combo)
    <3>1. i \in DOMAIN q /\ q[i].pressed /\ (q[i].pressed => m[i].pressed) /\ m[i].key = q[i].key
        BY <1>2, <1>20, <1>21, <2>1 DEF Accounts
    <3>2. CASE q[i].key \in KeysOf(c)
        BY <3>1, <3>2, <1>2, <1>9, <1>10
    <3>3. CASE q[i].key \notin KeysOf(c)
        BY <3>1, <3>3, <1>2, <1>21, <1>22 DEF Accounts
    <3>. QED BY <3>1, <3>2, <3>3
  <2>2. ASSUME NEW i \in DOMAIN m, NEW j \in DOMAIN m, m[i].combo = m[j].combo, m[i].combo \in Combo
        PROVE  i = j
    <3>1. i \in DOMAIN q /\ j \in DOMAIN q
        BY <1>21, <1>22
    <3>2. CASE m[i].combo = c
      <4>1. \A x \in DOMAIN q : m[x].combo = c => x = n
        <5>1. ASSUME NEW x \in DOMAIN q, m[x].combo = c, x # n PROVE FALSE
          <6>1. q[x].key \notin KeysOf(c)
              BY <5>1, <1>9, <1>10
          <6>2. q[x].combo = c
              BY <5>1, <6>1, <1>21, <1>22
          <6>. QED BY <6>2, <1>4 DEF Taker
        <5>. QED BY <5>1
      <4>. QED BY <4>1, <3>1, <3>2, <2>2
    <3>3. CASE m[i].combo # c
      <4>1. \A x \in DOMAIN q : m[x].combo \in Combo /\ m[x].combo # c => m[x] = q[x]
          BY <1>21, <1>22, <1>9, <1>10
      <4>2. m[i] = q[i] /\ m[j] = q[j]
          BY <4>1, <3>1, <3>3, <2>2
      <4>. QED BY <4>2, <3>1, <2>2, <1>2 DEF Accounts
    <3>. QED BY <3>2, <3>3
  <2>3. ASSUME NEW d \in Q, Taker(t, d) PROVE KeysOf(d) \cap Alone(t) = {}
    <3>1. CASE d = c
        BY <3>1, <1>6
    <3>2. CASE d # c
        BY <3>2, <2>3, <1>2, <1>6, <1>12 DEF Accounts
    <3>. QED BY <3>1, <3>2
  <2>4. ASSUME NEW k \in KeptKeys(t)
        PROVE  k \in Alone(t) \/ \E d \in Q : Taker(t, d) /\ k \in KeysOf(d)
    <3>1. CASE k \in KeysOf(c)
        BY <3>1, <1>2, <1>11
    <3>2. CASE k \notin KeysOf(c)
      <4>1. k \in Alone(s) \/ \E d \in Q : Taker(s, d) /\ k \in KeysOf(d)
          BY <2>4, <1>2, <1>6 DEF Accounts
      <4>. QED BY <4>1, <3>2, <1>2, <1>13, <1>14
    <3>. QED BY <3>1, <3>2
  <2>. QED BY <2>1, <2>2, <2>3, <2>4 DEF Accounts
<1>16. \A d \in Q : /\ KeysOf(d) \subseteq KeptKeys(t)
                    /\ Taker(t, d) => KeysOf(d) \cap N \subseteq t.combo[d].state
  <2>1. ASSUME NEW d \in Q, Taker(t, d) PROVE KeysOf(d) \cap N \subseteq t.combo[d].state
    <3>1. CASE d = c
        BY <3>1, <1>5 DEF Working
    <3>2. CASE d # c
        BY <3>2, <2>1, <1>2, <1>5, <1>12 DEF Working
    <3>. QED BY <3>1, <3>2
  <2>. QED BY <2>1, <1>6 DEF Working
<1>17. \A d \in Combo : t.combo[d].active => [combo |-> d] \in t.reported \/ Taker(t, d)
    BY <1>5, <1>11, <1>13 DEF Working
<1>18. ASSUME NEW d \in Range(t.combo_buffer)
       PROVE  /\ d \in Q
              /\ IF t.combo[d].disabled THEN d \in MUST_TAP ELSE KeysOf(d) \cap N \subseteq t.combo[d].state
  <2>1. /\ Range(t.combo_buffer) \subseteq Range(s.combo_buffer)
        /\ c = Head(s.combo_buffer) => c \notin Range(t.combo_buffer)
    <3>1. s.combo_buffer # <<>>
        BY DEF Range
    <3>. QED BY <3>1, <1>1, <1>2, <1>7, PoppedIs
  <2>2. d \in Q /\ d \in Combo /\ d \in Range(s.combo_buffer)
      BY <2>1, <1>18, <1>2 DEF Working
  <2>3. CASE d = c
      BY <2>1, <2>2, <2>3, <1>5, <1>18 DEF Working
  <2>4. CASE d # c
      BY <2>2, <2>4, <1>5 DEF Working
  <2>. QED BY <2>3, <2>4
<1>19. Working(t, Q, N)
    BY <1>2, <1>15, <1>16, <1>17, <1>18 DEF Working
<1>. QED BY <1>11, <1>13, <1>14, <1>19 DEF t

(* A combo is dropped that must be tapped, or from the front.                *)
LEMMA WorksDrop ==
    ASSUME NEW s \in State, Distinct(s.combo_buffer), NEW Q, NEW N, Working(s, Q, N), NEW c \in Combo,
           \/ c \in MUST_TAP \/ c \notin Range(s.combo_buffer) \/ c = Head(s.combo_buffer)
    PROVE  LET t == drop_combo_from_buffer(s, c) IN
           /\ Working(t, Q, N) /\ Alone(t) = Alone(s) /\ \A d \in Combo : Taker(t, d) = Taker(s, d)
<1>. DEFINE t == drop_combo_from_buffer(s, c)
<1>1. /\ Kept2(s, t)
      /\ \A d \in Combo : t.combo[d].disabled
                            = (s.combo[d].disabled \/ (d = c /\ c \in Range(s.combo_buffer)))
    BY Drops
<1>2. t.combo_buffer = Popped(s.combo_buffer, c)
    BY DropsRing
<1>. HIDE DEF t
<1>3. /\ KeptKeys(t) = KeptKeys(s) /\ Alone(t) = Alone(s)
      /\ \A d : Taker(t, d) = Taker(s, d)
    BY <1>1 DEF Kept2, KeptKeys, Alone, Taker
<1>4. Accounts(t, Q)
  <2>1. t.key_buffer = s.key_buffer
      BY <1>1 DEF Kept2
  <2>. QED BY <2>1, <1>3 DEF Working, Accounts
<1>5. /\ Apart(Q) /\ Q \subseteq Combo
      /\ \A d \in Q : /\ KeysOf(d) \subseteq KeptKeys(t)
                      /\ Taker(t, d) => KeysOf(d) \cap N \subseteq t.combo[d].state
      /\ \A d \in Combo : t.combo[d].active => [combo |-> d] \in t.reported \/ Taker(t, d)
    BY <1>1, <1>3 DEF Working, Kept2
<1>6. ASSUME NEW d \in Range(t.combo_buffer)
      PROVE  /\ d \in Q
             /\ IF t.combo[d].disabled THEN d \in MUST_TAP ELSE KeysOf(d) \cap N \subseteq t.combo[d].state
  <2>1. s.combo_buffer \in Seq(Combo)
      BY DEF State, Ring
  <2>2. /\ d \in Range(s.combo_buffer)
        /\ c \in Range(s.combo_buffer) /\ c = Head(s.combo_buffer) => c \notin Range(t.combo_buffer)
    <3>1. c \in Range(s.combo_buffer) => s.combo_buffer # <<>>
        BY DEF Range
    <3>. QED BY <3>1, <2>1, <1>2, <1>6, PoppedIs
  <2>3. d \in Q /\ d \in Combo
      BY <2>2 DEF Working
  <2>4. d = c => c \in MUST_TAP
      BY <2>2, <1>6
  <2>. QED BY <2>2, <2>3, <2>4, <1>1 DEF Working, Kept2
<1>. QED BY <1>3, <1>4, <1>5, <1>6 DEF Working, t

(* The one at the front is dealt with.                                       *)
LEMMA WorksBuffered ==
    ASSUME NEW M, NEW kk, NEW s, Core(s, M, kk), TwoKeys, NEW Q, NEW N, Working(s, Q, N),
           NEW c \in Combo, s.combo_buffer # <<>>, c = Head(s.combo_buffer)
    PROVE  LET t == apply_buffered(s, c) IN
           /\ Core(t, M, kk) /\ DealtWith(s, t, c) /\ Working(t, Q, N)
           /\ t.combo_buffer = Tail(s.combo_buffer)
           /\ \A d \in Combo : Taker(s, d) => Taker(t, d)
           /\ ~s.combo[c].disabled /\ c \notin MUST_TAP => Taker(t, c)
           /\ \A k \in Alone(s) : (k \in KeysOf(c) => s.combo[c].disabled \/ c \in MUST_TAP) => k \in Alone(t)
<1>. DEFINE t == apply_buffered(s, c)
<1>1. s \in State /\ Distinct(s.combo_buffer) /\ s.combo_buffer \in Seq(Combo)
    BY DEF Core, State, Ring
<1>2. c \in Range(s.combo_buffer)
    BY <1>1, TailOf
<1>3. Popped(s.combo_buffer, c) = Tail(s.combo_buffer)
    BY DEF Popped
<1>4. CASE c \in MUST_TAP
  <2>. DEFINE u == drop_combo_from_buffer(s, c)
  <2>1. t = u
      BY <1>4 DEF apply_buffered
  <2>. HIDE DEF t
  <2>2. Core(u, M, kk) /\ DealtWith(s, u, c)
      BY DropsOne
  <2>3. Working(u, Q, N) /\ Alone(u) = Alone(s) /\ \A d \in Combo : Taker(u, d) = Taker(s, d)
      BY <1>1, <1>4, WorksDrop
  <2>4. u.combo_buffer = Tail(s.combo_buffer)
      BY <1>1, <1>3, DropsRing
  <2>. HIDE DEF u
  <2>. QED BY <1>4, <2>1, <2>2, <2>3, <2>4 DEF t
<1>5. CASE c \notin MUST_TAP
  <2>. DEFINE u == apply_combo(s, c)
  <2>1. t = u /\ ~s.combo[c].disabled
      BY <1>2, <1>5 DEF apply_buffered, Working
  <2>. HIDE DEF t
  <2>2. Core(u, M, kk) /\ DealtWith(s, u, c)
      BY <1>2, AppliesOne
  <2>3. /\ Working(u, Q, N) /\ Taker(u, c) /\ \A d \in Combo : Taker(s, d) => Taker(u, d)
        /\ \A k \in Alone(s) : k \notin KeysOf(c) => k \in Alone(u)
      BY <1>2, <2>1, WorksApply
  <2>4. u.combo_buffer = Tail(s.combo_buffer)
      BY <1>1, <1>3, <2>1, AppliesRing
  <2>. HIDE DEF u
  <2>. QED BY <1>5, <2>1, <2>2, <2>3, <2>4 DEF t
<1>. QED BY <1>4, <1>5

(* No combo of the ring will take k.                                         *)
Spared(s, k) == \A d \in Range(s.combo_buffer) : k \in KeysOf(d) => s.combo[d].disabled \/ d \in MUST_TAP

(* All of the ring is applied, and r is what is handed on.                   *)
Applied(s, r) ==
    /\ r.combo_buffer = <<>> /\ r.reported = s.reported /\ r.out = s.out /\ r.enabled = s.enabled
    /\ KeptKeys(r) = KeptKeys(s)
    /\ \A d \in Combo : r.combo[d].state = s.combo[d].state /\ (s.combo[d].active => r.combo[d].active)
    /\ \A d \in Combo : Taker(s, d) => Taker(r, d)
    /\ \A d \in Range(s.combo_buffer) : ~s.combo[d].disabled /\ d \notin MUST_TAP => Taker(r, d)
    /\ \A k \in Alone(s) : Spared(s, k) => k \in Alone(r)

LEMMA WorksAll ==
    ASSUME NEW M, NEW kk, NEW s, Core(s, M, kk), TwoKeys, NEW Q, NEW N, Working(s, Q, N)
    PROVE  \E r : /\ Core(r, M, kk) /\ Working(r, Q, N) /\ Applied(s, r)
                  /\ apply_combos(s) = clear_combos(dump_key_buffer(r))
<1>. DEFINE q == s.combo_buffer
            L == Len(q)
<1>1. s \in State /\ q \in Seq(Combo) /\ L \in Nat /\ DOMAIN q = 1..L /\ Distinct(q)
    BY DEF Core, State, Ring
<1>2. PICK f \in [0..L -> State] :
              /\ f[0] = s
              /\ \A i \in 1..L : f[i] = apply_buffered(f[i - 1], q[i])
              /\ apply_combos(s) = clear_combos(dump_key_buffer(f[L]))
    BY <1>1, ApplyLoop
<1>. HIDE DEF L, q
<1>. DEFINE Left(r, i) == /\ r.combo_buffer \in Seq(Combo) /\ Len(r.combo_buffer) = L - i
                          /\ \A j \in 1..(L - i) : r.combo_buffer[j] = q[i + j]
            Same(r) == /\ r.reported = s.reported /\ r.out = s.out /\ r.enabled = s.enabled
                       /\ KeptKeys(r) = KeptKeys(s)
                       /\ \A d \in Combo : /\ r.combo[d].state = s.combo[d].state
                                           /\ s.combo[d].active => r.combo[d].active
                                           /\ s.combo[d].disabled => r.combo[d].disabled
                       /\ \A d \in Combo : Taker(s, d) => Taker(r, d)
            Turn(r, i) == /\ \A j \in 1..L : j > i /\ ~s.combo[q[j]].disabled => ~r.combo[q[j]].disabled
                          /\ \A j \in 1..L : j <= i /\ ~s.combo[q[j]].disabled /\ q[j] \notin MUST_TAP
                                                => Taker(r, q[j])
                          /\ \A k \in Alone(s) : Spared(s, k) => k \in Alone(r)
            Good(r, i) == Core(r, M, kk) /\ Working(r, Q, N) /\ Left(r, i) /\ Same(r) /\ Turn(r, i)
            S == {i \in 0..L : Good(f[i], i)}
<1>3. Good(s, 0)
  <2>1. Left(s, 0)
    <3>1. s.combo_buffer = q /\ Len(q) = L
        BY DEF q, L
    <3>. QED BY <3>1, <1>1
  <2>2. Same(s)
      OBVIOUS
  <2>3. Turn(s, 0)
      BY <1>1
  <2>. HIDE DEF Left, Same, Turn
  <2>. QED BY <2>1, <2>2, <2>3
<1>4. ASSUME NEW i \in 1..L, Good(f[i - 1], i - 1) PROVE Good(f[i], i)
  <2>. DEFINE r == f[i - 1]
              t == f[i]
              c == q[i]
  <2>1. c \in Combo /\ i \in Nat /\ i >= 1 /\ i <= L
      BY <1>1
  <2>2. t = apply_buffered(r, c)
      BY <1>2
  <2>3. Core(r, M, kk) /\ Working(r, Q, N) /\ Left(r, i - 1) /\ Same(r) /\ Turn(r, i - 1)
      BY <1>4
  <2>. HIDE DEF r, t
  <2>4. r.combo_buffer # <<>> /\ Head(r.combo_buffer) = c
    <3>1. Len(r.combo_buffer) = L - (i - 1) /\ 1 \in 1..(L - (i - 1)) /\ r.combo_buffer \in Seq(Combo)
        BY <1>1, <2>1, <2>3
    <3>2. r.combo_buffer[1] = q[i - 1 + 1] /\ i - 1 + 1 = i
        BY <2>1, <2>3, <3>1
    <3>. QED BY <3>1, <3>2, <1>1, <2>1
  <2>. HIDE DEF c, Left, Same, Turn
  <2>5. /\ Core(t, M, kk) /\ DealtWith(r, t, c) /\ Working(t, Q, N)
        /\ t.combo_buffer = Tail(r.combo_buffer)
        /\ \A d \in Combo : Taker(r, d) => Taker(t, d)
        /\ ~r.combo[c].disabled /\ c \notin MUST_TAP => Taker(t, c)
        /\ \A k \in Alone(r) : (k \in KeysOf(c) => r.combo[c].disabled \/ c \in MUST_TAP) => k \in Alone(t)
      BY <2>1, <2>2, <2>3, <2>4, WorksBuffered
  <2>6. Left(t, i)
    <3>1. /\ r.combo_buffer \in Seq(Combo) /\ Len(r.combo_buffer) = L - (i - 1)
          /\ \A j \in 1..(L - (i - 1)) : r.combo_buffer[j] = q[i - 1 + j]
        BY <2>3 DEF Left
    <3>2. t.combo_buffer \in Seq(Combo) /\ Len(t.combo_buffer) = L - i
        BY <3>1, <2>1, <2>4, <2>5, <1>1
    <3>3. ASSUME NEW j \in 1..(L - i) PROVE t.combo_buffer[j] = q[i + j]
      <4>1. j + 1 \in 1..(L - (i - 1)) /\ i - 1 + (j + 1) = i + j
          BY <2>1, <1>1
      <4>2. t.combo_buffer[j] = r.combo_buffer[j + 1]
          BY <3>1, <2>1, <2>4, <2>5, <1>1
      <4>. QED BY <3>1, <4>1, <4>2
    <3>. QED BY <3>2, <3>3 DEF Left
  <2>7. Same(t)
    <3>1. /\ t.reported = s.reported /\ t.out = s.out /\ t.enabled = s.enabled /\ KeptKeys(t) = KeptKeys(s)
        BY <2>3, <2>5 DEF Same, DealtWith
    <3>2. \A d \in Combo : /\ t.combo[d].state = s.combo[d].state
                           /\ s.combo[d].active => t.combo[d].active
                           /\ s.combo[d].disabled => t.combo[d].disabled
        BY <2>3, <2>5 DEF Same, DealtWith
    <3>3. \A d \in Combo : Taker(s, d) => Taker(t, d)
        BY <2>3, <2>5 DEF Same
    <3>. QED BY <3>1, <3>2, <3>3 DEF Same
  <2>8. Turn(t, i)
    <3>1. ASSUME NEW j \in 1..L, j > i, ~s.combo[q[j]].disabled PROVE ~t.combo[q[j]].disabled
      <4>1. q[j] \in Combo /\ q[j] # c /\ j > i - 1
        <5>1. j # i /\ j > i - 1
            BY <3>1, <2>1
        <5>. QED BY <5>1, <1>1 DEF Distinct, c
      <4>2. ~r.combo[q[j]].disabled
          BY <2>3, <3>1, <4>1 DEF Turn
      <4>. QED BY <4>1, <4>2, <2>5 DEF DealtWith
    <3>2. ASSUME NEW j \in 1..L, j <= i, ~s.combo[q[j]].disabled, q[j] \notin MUST_TAP PROVE Taker(t, q[j])
      <4>1. CASE j = i
        <5>1. ~r.combo[c].disabled
          <6>1. i > i - 1
              BY <2>1
          <6>. QED BY <6>1, <4>1, <3>2, <2>3 DEF Turn, c
        <5>. QED BY <5>1, <4>1, <3>2, <2>5 DEF c
      <4>2. CASE j # i
        <5>1. j <= i - 1 /\ q[j] \in Combo
            BY <4>2, <3>2, <2>1, <1>1
        <5>. QED BY <5>1, <3>2, <2>3, <2>5 DEF Turn
      <4>. QED BY <4>1, <4>2
    <3>3. ASSUME NEW k \in Alone(s), Spared(s, k) PROVE k \in Alone(t)
      <4>1. k \in Alone(r)
          BY <3>3, <2>3 DEF Turn
      <4>2. c \in Range(q)
          BY <1>1 DEF Range, c
      <4>3. k \in KeysOf(c) => s.combo[c].disabled \/ c \in MUST_TAP
          BY <4>2, <3>3 DEF Spared, q
      <4>4. s.combo[c].disabled => r.combo[c].disabled
          BY <2>1, <2>3 DEF Same
      <4>. QED BY <4>1, <4>3, <4>4, <2>5
    <3>. QED BY <3>1, <3>2, <3>3 DEF Turn
  <2>9. Core(t, M, kk) /\ Working(t, Q, N)
      BY <2>5
  <2>. QED BY <2>6, <2>7, <2>8, <2>9 DEF t
<1>5. Good(f[L], L)
  <2>1. 0 \in S
    <3>1. 0 \in 0..L
        BY <1>1
    <3>. HIDE DEF Good
    <3>. QED BY <3>1, <1>2, <1>3
  <2>2. ASSUME NEW i \in 1..L, i - 1 \in S PROVE i \in S
    <3>1. i \in 0..L
        BY <1>1
    <3>2. Good(f[i - 1], i - 1)
      <4>. HIDE DEF Good
      <4>. QED BY <2>2
    <3>3. Good(f[i], i)
        BY <3>2, <1>4
    <3>. HIDE DEF Good
    <3>. QED BY <3>1, <3>3
  <2>. HIDE DEF S
  <2>3. \A i \in 0..L : i \in S
      BY <1>1, <2>1, <2>2, Induction
  <2>4. L \in S
      BY <2>3, <1>1
  <2>. HIDE DEF Good
  <2>. QED BY <2>4 DEF S
<1>. DEFINE r == f[L]
<1>6. Core(r, M, kk) /\ Working(r, Q, N) /\ Left(r, L) /\ Same(r) /\ Turn(r, L)
    BY <1>5
<1>7. apply_combos(s) = clear_combos(dump_key_buffer(r))
    BY <1>2
<1>. HIDE DEF r
<1>8. r.combo_buffer = <<>>
  <2>1. r.combo_buffer \in Seq(Combo) /\ Len(r.combo_buffer) = 0
      BY <1>1, <1>6
  <2>. QED BY <2>1
<1>9. \A d \in Range(s.combo_buffer) : ~s.combo[d].disabled /\ d \notin MUST_TAP => Taker(r, d)
  <2>1. ASSUME NEW d \in Range(s.combo_buffer) PROVE \E j \in 1..L : j <= L /\ q[j] = d
      BY <1>1 DEF Range, q
  <2>. QED BY <2>1, <1>6
<1>10. Applied(s, r)
  <2>. HIDE DEF Left
  <2>. QED BY <1>6, <1>8, <1>9 DEF Applied
<1>. QED BY <1>6, <1>7, <1>10

-----------------------------------------------------------------------------
(* What the keys that are kept are handed on as.                             *)

(* Each key of A is reported by one entry of q, and no other key by any.     *)
Tells(q, A) ==
    /\ \A i \in DOMAIN q, k \in Key : Reports(q[i], k) => k \in A
    /\ \A i, j \in DOMAIN q, k \in Key : Reports(q[i], k) /\ Reports(q[j], k) => i = j
    /\ \A k \in A : \E i \in DOMAIN q : Reports(q[i], k)

LEMMA ReportsIs ==
    ASSUME NEW e \in Entry, e.pressed, NEW k
    PROVE  Reports(e, k) <=> \/ e.combo = NoCombo /\ e.key = k
                             \/ e.combo \in Combo /\ k \in KeysOf(e.combo)
<1>1. NoCombo \notin Combo
    BY DEF NoCombo, Combo
<1>2. (What(e) = [key |-> k]) <=> (e.combo = NoCombo /\ e.key = k)
  <2>1. CASE e.combo = NoCombo
    <3>1. What(e) = [key |-> e.key]
        BY <2>1 DEF What
    <3>. QED BY <2>1, <3>1, KeyIsNoCombo
  <2>2. CASE e.combo # NoCombo
    <3>1. What(e) = [combo |-> e.combo]
        BY <2>2 DEF What
    <3>. QED BY <2>2, <3>1, KeyIsNoCombo
  <2>. QED BY <2>1, <2>2
<1>. QED BY <1>2 DEF Reports

LEMMA TellsKept ==
    ASSUME NEW s \in State, DistinctKeys(s), NEW Q, NEW N, Working(s, Q, N)
    PROVE  Tells(s.key_buffer, KeptKeys(s)) /\ KeptKeys(s) \subseteq Key
<1>. DEFINE q == s.key_buffer
<1>1. q \in Seq(Entry) /\ \A i \in DOMAIN q : q[i] \in Entry /\ q[i].key \in Key
  <2>1. q \in Seq(Entry)
      BY DEF State, Buffer
  <2>2. \A i \in DOMAIN q : q[i] \in Entry
      BY <2>1
  <2>3. \A e \in Entry : e.key \in Key
      BY DEF Entry
  <2>. QED BY <2>1, <2>2, <2>3
<1>2. /\ \A i \in DOMAIN q : q[i].pressed
      /\ \A i \in DOMAIN q : q[i].combo \in Combo => q[i].combo \in Q /\ Taker(s, q[i].combo)
    BY DEF Working, Accounts, Taker
<1>3. \A i \in DOMAIN q, k \in Key : Reports(q[i], k) <=>
         \/ q[i].combo = NoCombo /\ q[i].key = k
         \/ q[i].combo \in Combo /\ k \in KeysOf(q[i].combo)
    BY <1>1, <1>2, ReportsIs
<1>4. KeptKeys(s) \subseteq Key
    BY <1>1 DEF KeptKeys
<1>5. \A i \in DOMAIN q : q[i].combo = NoCombo => q[i].key \in Alone(s) /\ q[i].key \in KeptKeys(s)
    BY DEF Alone, KeptKeys
<1>6. ASSUME NEW i \in DOMAIN q, NEW k \in Key, Reports(q[i], k) PROVE k \in KeptKeys(s)
    BY <1>2, <1>3, <1>5, <1>6 DEF Working
<1>7. ASSUME NEW i \in DOMAIN q, NEW j \in DOMAIN q, NEW k \in Key, Reports(q[i], k), Reports(q[j], k)
      PROVE  i = j
  <2>1. CASE q[i].combo = NoCombo /\ q[i].key = k
    <3>1. k \in Alone(s)
        BY <2>1, <1>5
    <3>2. ~(q[j].combo \in Combo /\ k \in KeysOf(q[j].combo))
        BY <3>1, <1>2 DEF Working, Accounts
    <3>3. q[j].key = k
        BY <3>2, <1>3, <1>7
    <3>. QED BY <2>1, <3>3 DEF DistinctKeys
  <2>2. CASE q[i].combo \in Combo /\ k \in KeysOf(q[i].combo)
    <3>1. k \notin Alone(s)
        BY <2>2, <1>2 DEF Working, Accounts
    <3>2. q[j].combo \in Combo /\ k \in KeysOf(q[j].combo)
        BY <3>1, <1>3, <1>5, <1>7
    <3>3. q[i].combo = q[j].combo
        BY <2>2, <3>2, <1>2 DEF Working, Apart, Overlaps
    <3>. QED BY <2>2, <3>3 DEF Working, Accounts
  <2>. QED BY <2>1, <2>2, <1>3, <1>7
<1>8. ASSUME NEW k \in KeptKeys(s) PROVE \E i \in DOMAIN q : Reports(q[i], k)
  <2>1. CASE k \in Alone(s)
      BY <2>1, <1>3, <1>4 DEF Alone
  <2>2. CASE k \notin Alone(s)
    <3>1. PICK c \in Q : Taker(s, c) /\ k \in KeysOf(c)
        BY <2>2 DEF Working, Accounts
    <3>2. PICK i \in DOMAIN q : q[i].combo = c
        BY <3>1 DEF Taker
    <3>3. c \in Combo
        BY DEF Working
    <3>. QED BY <3>1, <3>2, <3>3, <1>3, <1>4
  <2>. QED BY <2>1, <2>2
<1>. QED BY <1>4, <1>6, <1>7, <1>8 DEF Tells

LEMMA JoinIs ==
    ASSUME NEW q \in Seq(Entry), NEW b \in Seq(Entry)
    PROVE  LET t == q \o b IN
           /\ t \in Seq(Entry) /\ DOMAIN t = 1..(Len(q) + Len(b))
           /\ \A i \in DOMAIN q : i \in DOMAIN t /\ t[i] = q[i]
           /\ \A i \in DOMAIN b : Len(q) + i \in DOMAIN t /\ t[Len(q) + i] = b[i]
           /\ \A i \in DOMAIN t : i \in DOMAIN q \/ (i - Len(q) \in DOMAIN b /\ i = Len(q) + (i - Len(q)))
OBVIOUS

LEMMA TellsJoin ==
    ASSUME NEW q \in Seq(Entry), NEW b \in Seq(Entry), NEW A, NEW B, A \cap B = {}, Tells(q, A), Tells(b, B)
    PROVE  Tells(q \o b, A \cup B)
<1>. DEFINE t == q \o b
            n == Len(q)
<1>1. /\ DOMAIN t = 1..(n + Len(b))
      /\ \A i \in DOMAIN q : i \in DOMAIN t /\ t[i] = q[i]
      /\ \A i \in DOMAIN b : n + i \in DOMAIN t /\ t[n + i] = b[i]
      /\ \A i \in DOMAIN t : i \in DOMAIN q \/ (i - n \in DOMAIN b /\ i = n + (i - n))
    BY JoinIs
<1>. HIDE DEF t, n
<1>2. \A i \in DOMAIN t : \/ i \in DOMAIN q /\ t[i] = q[i]
                          \/ i - n \in DOMAIN b /\ i = n + (i - n) /\ t[i] = b[i - n]
    BY <1>1
<1>3. ASSUME NEW i \in DOMAIN t, NEW k \in Key, Reports(t[i], k)
      PROVE  k \in A \cup B
    BY <1>2, <1>3 DEF Tells
<1>4. ASSUME NEW i \in DOMAIN t, NEW j \in DOMAIN t, NEW k \in Key, Reports(t[i], k), Reports(t[j], k)
      PROVE  i = j
  <2>1. CASE k \in A
    <3>1. k \notin B
        BY <2>1
    <3>2. ASSUME NEW x \in DOMAIN t, Reports(t[x], k) PROVE x \in DOMAIN q /\ Reports(q[x], k)
        BY <3>1, <3>2, <1>2 DEF Tells
    <3>. QED BY <3>2, <1>4 DEF Tells
  <2>2. CASE k \notin A
    <3>1. ASSUME NEW x \in DOMAIN t, Reports(t[x], k)
          PROVE  x - n \in DOMAIN b /\ x = n + (x - n) /\ Reports(b[x - n], k)
        BY <2>2, <3>1, <1>2 DEF Tells
    <3>2. i - n = j - n
        BY <3>1, <1>4 DEF Tells
    <3>. QED BY <3>1, <3>2, <1>4
  <2>. QED BY <2>1, <2>2
<1>5. ASSUME NEW k \in A \cup B PROVE \E i \in DOMAIN t : Reports(t[i], k)
  <2>1. CASE k \in A
    <3>1. PICK i \in DOMAIN q : Reports(q[i], k)
        BY <2>1 DEF Tells
    <3>. QED BY <3>1, <1>1
  <2>2. CASE k \in B
    <3>1. PICK i \in DOMAIN b : Reports(b[i], k)
        BY <2>2 DEF Tells
    <3>. QED BY <3>1, <1>1
  <2>. QED BY <2>1, <2>2
<1>. QED BY <1>3, <1>4, <1>5 DEF Tells, t

(* What was reported as pressed was so before, in R, or was handed on since, *)
(* and what was released as well.                                            *)
PressOf(e, w) == e.pressed /\ IsEvent(e) /\ What(e) = w
Balanced(s, R) ==
    /\ \A w \in s.reported : w \in R \/ \E j \in DOMAIN s.out : PressOf(s.out[j], w)
    /\ \A i \in DOMAIN s.out : ~s.out[i].pressed =>
          What(s.out[i]) \in R \/ \E j \in 1..(i - 1) : PressOf(s.out[j], What(s.out[i]))

(* So far in a step, before which R was reported: of the keys of K those     *)
(* that are kept no more were handed on.                                     *)
Telling(s, K, R) ==
    /\ KeptKeys(s) \subseteq K /\ Tells(s.out, K \ KeptKeys(s)) /\ Balanced(s, R)

(* All that was kept is handed on, as b.                                     *)
HandsOn(s, t, b) ==
    /\ b \in Seq(Entry) /\ t.out = s.out \o b /\ Tells(b, KeptKeys(s)) /\ \A i \in DOMAIN b : b[i].pressed
    /\ t.reported = s.reported \cup {What(e) : e \in {x \in Range(b) : IsEvent(x)}}

LEMMA HandsOnTells ==
    ASSUME NEW s \in State, NEW t, NEW b, HandsOn(s, t, b), KeptKeys(t) = {}, NEW K, NEW R, Telling(s, K, R)
    PROVE  Telling(t, K, R)
<1>. DEFINE q == s.out
            n == Len(q)
            p == t.out
<1>1. q \in Seq(Entry) /\ b \in Seq(Entry) /\ p = q \o b
    BY DEF HandsOn, State
<1>2. Tells(p, K)
  <2>1. Tells(q, K \ KeptKeys(s)) /\ Tells(b, KeptKeys(s)) /\ KeptKeys(s) \subseteq K
      BY DEF Telling, HandsOn
  <2>2. Tells(q \o b, (K \ KeptKeys(s)) \cup KeptKeys(s))
      BY <1>1, <2>1, TellsJoin
  <2>3. (K \ KeptKeys(s)) \cup KeptKeys(s) = K
      BY <2>1
  <2>. QED BY <1>1, <2>2, <2>3
<1>3. /\ DOMAIN p = 1..(n + Len(b))
      /\ \A i \in DOMAIN q : i \in DOMAIN p /\ p[i] = q[i]
      /\ \A i \in DOMAIN b : n + i \in DOMAIN p /\ p[n + i] = b[i]
      /\ \A i \in DOMAIN p : i \in DOMAIN q \/ (i - n \in DOMAIN b /\ i = n + (i - n))
      /\ DOMAIN q = 1..n /\ n \in Nat
    BY <1>1, JoinIs
<1>. HIDE DEF p, q, n
<1>4. ASSUME NEW w \in t.reported PROVE w \in R \/ \E j \in DOMAIN p : PressOf(p[j], w)
  <2>1. CASE w \in s.reported
    <3>1. w \in R \/ \E j \in DOMAIN q : PressOf(q[j], w)
        BY <2>1 DEF Telling, Balanced, q
    <3>. QED BY <3>1, <1>3
  <2>2. CASE w \notin s.reported
    <3>1. PICK e \in Range(b) : IsEvent(e) /\ What(e) = w
        BY <2>2, <1>4, Zenon DEF HandsOn
    <3>2. PICK i \in DOMAIN b : b[i] = e
        BY <3>1 DEF Range
    <3>3. PressOf(p[n + i], w) /\ n + i \in DOMAIN p
        BY <3>1, <3>2, <1>3 DEF PressOf, HandsOn
    <3>. QED BY <3>3
  <2>. QED BY <2>1, <2>2
<1>5. ASSUME NEW i \in DOMAIN p, ~p[i].pressed
      PROVE  What(p[i]) \in R \/ \E j \in 1..(i - 1) : PressOf(p[j], What(p[i]))
  <2>1. i \in DOMAIN q /\ p[i] = q[i]
      BY <1>3, <1>5 DEF HandsOn
  <2>2. What(q[i]) \in R \/ \E j \in 1..(i - 1) : PressOf(q[j], What(q[i]))
      BY <2>1, <1>5 DEF Telling, Balanced, q
  <2>3. \A j \in 1..(i - 1) : j \in DOMAIN q
      BY <2>1, <1>3
  <2>. QED BY <2>1, <2>2, <2>3, <1>3
<1>6. Balanced(t, R)
    BY <1>4, <1>5 DEF Balanced, p
<1>. QED BY <1>2, <1>6 DEF Telling, p

(* Nothing is kept any more: t is s after all of the ring was applied.       *)
Flushed(s, t, N) ==
    /\ t.key_buffer = <<>> /\ t.combo_buffer = <<>> /\ t.enabled = s.enabled
    /\ \E b : HandsOn(s, t, b)
    /\ \A d \in Combo : IF t.combo[d].active THEN /\ t.combo[d].state = s.combo[d].state
                                                  /\ [combo |-> d] \in t.reported
                                             ELSE t.combo[d] = Fresh
    /\ \A d \in Combo : s.combo[d].active => t.combo[d].active
    /\ \A d \in Range(s.combo_buffer) :
          ~s.combo[d].disabled /\ d \notin MUST_TAP => [combo |-> d] \in t.reported
    /\ \A k \in Alone(s) : Spared(s, k) => [key |-> k] \in t.reported
    /\ \A k \in KeptKeys(s) \cap N :
          [key |-> k] \in t.reported \/ \E c \in Combo : t.combo[c].active /\ k \in t.combo[c].state

LEMMA DumpFlushes ==
    ASSUME NEW M, NEW kk, NEW s, Core(s, M, kk), TwoKeys, NEW Q, NEW N, Working(s, Q, N), s.combo_buffer = <<>>
    PROVE  LET t == clear_combos(dump_key_buffer(s)) IN
           /\ t \in State /\ Flushed(s, t, N)
           /\ \A d \in Combo : Taker(s, d) => [combo |-> d] \in t.reported
<1>. DEFINE u == dump_key_buffer(s)
            t == clear_combos(u)
            b == s.key_buffer
<1>1. s \in State /\ DistinctKeys(s) /\ Actives(s)
    BY DEF Core
<1>2. t \in State /\ t.key_buffer = <<>> /\ t.combo_buffer = <<>> /\ t.enabled = s.enabled
  <2>1. u \in State /\ u.key_buffer = <<>> /\ u.combo_buffer = <<>> /\ u.enabled = s.enabled
      BY <1>1, Dumps DEF Sent
  <2>. HIDE DEF u
  <2>. QED BY <2>1, Clears
<1>3. /\ t.out = s.out \o b
      /\ t.reported = s.reported \cup {What(e) : e \in {x \in Range(b) : IsEvent(x)}}
  <2>. DEFINE sent == {What(e) : e \in {x \in Range(s.key_buffer) : IsEvent(x)}}
  <2>1. u \in State /\ u.out = s.out \o b /\ u.reported = s.reported \cup sent
      BY <1>1, Dumps DEF Sent
  <2>. HIDE DEF u, sent
  <2>2. clear_combos(u).out = u.out /\ clear_combos(u).reported = u.reported
      BY <2>1, Clears
  <2>. QED BY <2>1, <2>2 DEF u, sent
<1>4. \A d \in Combo : t.combo[d] = IF s.combo[d].active THEN s.combo[d] ELSE Fresh
  <2>1. u \in State /\ u.combo = s.combo
      BY <1>1, Dumps DEF Sent
  <2>. HIDE DEF u
  <2>. QED BY <2>1, Clears
<1>. HIDE DEF t, u
<1>5. b \in Seq(Entry)
    BY <1>1 DEF State, Buffer
<1>6. ASSUME NEW i \in DOMAIN b, IsEvent(b[i]) PROVE What(b[i]) \in t.reported
  <2>1. b[i] \in {x \in Range(b) : IsEvent(x)}
      BY <1>6 DEF Range
  <2>2. What(b[i]) \in {What(e) : e \in {x \in Range(b) : IsEvent(x)}}
      BY <2>1
  <2>. QED BY <2>2, <1>3
<1>7. HandsOn(s, t, b)
  <2>1. Tells(b, KeptKeys(s))
      BY <1>1, TellsKept
  <2>2. \A i \in DOMAIN b : b[i].pressed
      BY DEF Working, Accounts
  <2>. QED BY <1>3, <1>5, <2>1, <2>2 DEF HandsOn
<1>8. TICK_EVENT \notin Combo /\ NoCombo \notin Combo /\ NoCombo # TICK_EVENT
    BY DEF TICK_EVENT, NoCombo, Combo
<1>9. ASSUME NEW d \in Combo, Taker(s, d) PROVE [combo |-> d] \in t.reported
  <2>1. PICK i \in DOMAIN b : b[i].combo = d
      BY <1>9 DEF Taker
  <2>2. IsEvent(b[i]) /\ What(b[i]) = [combo |-> d]
      BY <2>1, <1>8 DEF IsEvent, What
  <2>. QED BY <2>2, <1>6
<1>10. ASSUME NEW k \in Alone(s) PROVE [key |-> k] \in t.reported
  <2>1. PICK i \in DOMAIN b : b[i].combo = NoCombo /\ b[i].key = k
      BY DEF Alone
  <2>2. IsEvent(b[i]) /\ What(b[i]) = [key |-> k]
      BY <2>1, <1>8 DEF IsEvent, What
  <2>. QED BY <2>2, <1>6
<1>11. \A d \in Combo : s.combo[d].active => t.combo[d].active
    BY <1>4
<1>12. ASSUME NEW d \in Combo
       PROVE  IF t.combo[d].active THEN t.combo[d].state = s.combo[d].state /\ [combo |-> d] \in t.reported
                                   ELSE t.combo[d] = Fresh
  <2>1. CASE s.combo[d].active
    <3>1. [combo |-> d] \in s.reported \/ Taker(s, d)
        BY <2>1 DEF Working
    <3>2. [combo |-> d] \in t.reported
        BY <3>1, <1>3, <1>9
    <3>. QED BY <3>2, <2>1, <1>4
  <2>2. CASE ~s.combo[d].active
    <3>1. t.combo[d] = Fresh
        BY <2>2, <1>4
    <3>. QED BY <3>1 DEF Fresh
  <2>. QED BY <2>1, <2>2
<1>13. ASSUME NEW k \in KeptKeys(s) \cap N
       PROVE  [key |-> k] \in t.reported \/ \E c \in Combo : t.combo[c].active /\ k \in t.combo[c].state
  <2>1. CASE k \in Alone(s)
      BY <2>1, <1>10
  <2>2. CASE k \notin Alone(s)
    <3>1. PICK c \in Q : Taker(s, c) /\ k \in KeysOf(c)
        BY <2>2 DEF Working, Accounts
    <3>2. c \in Combo /\ k \in s.combo[c].state
        BY <3>1 DEF Working
    <3>3. s.combo[c].active
        BY <3>1, <3>2, <1>1 DEF Taker, Actives
    <3>. QED BY <3>2, <3>3, <1>4
  <2>. QED BY <2>1, <2>2
<1>14. Range(s.combo_buffer) = {}
    BY DEF Range
<1>15. Flushed(s, t, N)
    BY <1>2, <1>7, <1>10, <1>11, <1>12, <1>13, <1>14 DEF Flushed
<1>. QED BY <1>2, <1>9, <1>15 DEF t, u

LEMMA AppliesFlush ==
    ASSUME NEW M, NEW kk, NEW s, Core(s, M, kk), TwoKeys, NEW Q, NEW N, Working(s, Q, N)
    PROVE  LET t == apply_combos(s) IN
           /\ t \in State /\ Flushed(s, t, N)
           /\ \A d \in Combo : Taker(s, d) => [combo |-> d] \in t.reported
<1>1. PICK r : /\ Core(r, M, kk) /\ Working(r, Q, N) /\ Applied(s, r)
               /\ apply_combos(s) = clear_combos(dump_key_buffer(r))
    BY WorksAll
<1>. DEFINE t == apply_combos(s)
<1>2. r.combo_buffer = <<>>
    BY <1>1 DEF Applied
<1>3. /\ t \in State /\ Flushed(r, t, N)
      /\ \A d \in Combo : Taker(r, d) => [combo |-> d] \in t.reported
    BY <1>1, <1>2, DumpFlushes
<1>. HIDE DEF t
<1>4. s \in State /\ s.combo_buffer \in Seq(Combo)
    BY DEF Core, State, Ring
<1>5. PICK b : HandsOn(r, t, b)
    BY <1>3 DEF Flushed
<1>6. r.reported = s.reported /\ r.out = s.out /\ KeptKeys(r) = KeptKeys(s)
    BY <1>1 DEF Applied
<1>7. HandsOn(s, t, b)
    BY <1>5, <1>6 DEF HandsOn
<1>8. \A d \in Combo : Taker(s, d) => [combo |-> d] \in t.reported
    BY <1>1, <1>3 DEF Applied
<1>9. \A d \in Range(s.combo_buffer) :
          ~s.combo[d].disabled /\ d \notin MUST_TAP => [combo |-> d] \in t.reported
  <2>1. \A d \in Range(s.combo_buffer) : d \in Combo
      BY <1>4 DEF Range
  <2>. QED BY <2>1, <1>1, <1>3 DEF Applied
<1>10. \A k \in Alone(s) : Spared(s, k) => [key |-> k] \in t.reported
  <2>1. \A k : Spared(r, k)
      BY <1>2 DEF Spared, Range
  <2>. QED BY <2>1, <1>1, <1>3 DEF Applied, Flushed
<1>11. /\ t.key_buffer = <<>> /\ t.combo_buffer = <<>> /\ t.enabled = s.enabled
       /\ \A d \in Combo : IF t.combo[d].active THEN /\ t.combo[d].state = s.combo[d].state
                                                     /\ [combo |-> d] \in t.reported
                                                ELSE t.combo[d] = Fresh
       /\ \A d \in Combo : s.combo[d].active => t.combo[d].active
       /\ \A k \in KeptKeys(s) \cap N :
             [key |-> k] \in t.reported \/ \E c \in Combo : t.combo[c].active /\ k \in t.combo[c].state
    BY <1>1, <1>3 DEF Applied, Flushed
<1>12. Flushed(s, t, N)
    BY <1>7, <1>9, <1>10, <1>11 DEF Flushed
<1>. QED BY <1>3, <1>8, <1>12 DEF t

(* An empty ring makes no difference.                                        *)
LEMMA SettledIs ==
    ASSUME NEW s \in State
    PROVE  Settled(s) = apply_combos(s)
<1>1. CASE s.combo_buffer # <<>>
    BY <1>1 DEF Settled
<1>2. CASE s.combo_buffer = <<>>
  <2>1. Len(s.combo_buffer) = 0
      BY <1>2
  <2>2. PICK f \in [0..Len(s.combo_buffer) -> State] :
              f[0] = s /\ apply_combos(s) = clear_combos(dump_key_buffer(f[Len(s.combo_buffer)]))
      BY ApplyLoop
  <2>. QED BY <1>2, <2>1, <2>2 DEF Settled
<1>. QED BY <1>1, <1>2

-----------------------------------------------------------------------------
(* A key is released: combos are taken from the ring, and may be applied.    *)

(* A key that is down is kept, was reported, or went into an active combo.   *)
Owed(s, N) ==
    \A k \in N : \/ k \in KeptKeys(s) \/ [key |-> k] \in s.reported
                 \/ \E c \in Combo : s.combo[c].active /\ k \in s.combo[c].state

Mid(s, N) ==
    /\ Plain(s) /\ Working(s, Range(s.combo_buffer), N)
    /\ s.combo_buffer # <<>> => s.enabled
    /\ RELEASE_EARLY = {} => Owed(s, N)

LEMMA PlainIs ==
    ASSUME NEW s, Plain(s)
    PROVE  Alone(s) = KeptKeys(s) /\ \A d \in Combo : ~Taker(s, d)
<1>1. NoCombo \notin Combo
    BY DEF NoCombo, Combo
<1>. QED BY <1>1 DEF Plain, Alone, KeptKeys, Taker

LEMMA WorksFewer ==
    ASSUME NEW s, Plain(s), NEW Q, NEW N, Working(s, Q, N), Range(s.combo_buffer) \subseteq Q
    PROVE  Working(s, Range(s.combo_buffer), N)
<1>. DEFINE P == Range(s.combo_buffer)
<1>1. Alone(s) = KeptKeys(s) /\ \A d \in Combo : ~Taker(s, d)
    BY PlainIs
<1>2. \A i \in DOMAIN s.key_buffer : s.key_buffer[i].combo \notin Combo
    BY DEF Plain, NoCombo, Combo
<1>. HIDE DEF P
<1>3. P \subseteq Q /\ Q \subseteq Combo
    BY DEF P, Working
<1>4. Accounts(s, P)
    BY <1>1, <1>2, <1>3 DEF Working, Accounts
<1>5. Apart(P)
    BY <1>3 DEF Working, Apart
<1>6. \A d \in P : /\ KeysOf(d) \subseteq KeptKeys(s)
                   /\ Taker(s, d) => KeysOf(d) \cap N \subseteq s.combo[d].state
    BY <1>3 DEF Working
<1>7. \A c \in Combo : s.combo[c].active => [combo |-> c] \in s.reported \/ Taker(s, c)
    BY DEF Working
<1>8. \A c \in Range(s.combo_buffer) :
          /\ c \in P
          /\ IF s.combo[c].disabled THEN c \in MUST_TAP ELSE KeysOf(c) \cap N \subseteq s.combo[c].state
    BY DEF P, Working
<1>. QED BY <1>3, <1>4, <1>5, <1>6, <1>7, <1>8 DEF Working, P

(* Nothing is kept, and nothing waits.                                       *)
LEMMA FlushedMid ==
    ASSUME NEW s, NEW t, NEW N, Flushed(s, t, N), RELEASE_EARLY = {} => Owed(s, N)
    PROVE  Mid(t, N)
<1>1. t.key_buffer = <<>> /\ t.combo_buffer = <<>>
    BY DEF Flushed
<1>2. /\ Plain(t) /\ KeptKeys(t) = {} /\ Range(t.combo_buffer) = {}
      /\ \A d : ~Taker(t, d)
    BY <1>1 DEF Plain, KeptKeys, Range, Taker
<1>3. ~Fresh.active
    BY DEF Fresh
<1>4. \A d \in Combo : t.combo[d].active => t.combo[d].state = s.combo[d].state /\ [combo |-> d] \in t.reported
    BY <1>3 DEF Flushed
<1>5. Working(t, Range(t.combo_buffer), N)
  <2>1. Accounts(t, {}) /\ Apart({})
      BY <1>1, <1>2 DEF Accounts, Apart
  <2>. QED BY <1>2, <1>4, <2>1 DEF Working
<1>6. ASSUME Owed(s, N) PROVE Owed(t, N)
  <2>1. s.reported \subseteq t.reported
    <3>1. PICK b : HandsOn(s, t, b)
        BY DEF Flushed
    <3>. QED BY <3>1 DEF HandsOn
  <2>2. ASSUME NEW k \in N
        PROVE  [key |-> k] \in t.reported \/ \E c \in Combo : t.combo[c].active /\ k \in t.combo[c].state
    <3>1. CASE k \in KeptKeys(s)
        BY <3>1 DEF Flushed
    <3>2. CASE k \notin KeptKeys(s)
      <4>1. [key |-> k] \in s.reported \/ \E c \in Combo : s.combo[c].active /\ k \in s.combo[c].state
          BY <3>2, <1>6 DEF Owed
      <4>2. \A c \in Combo : s.combo[c].active => t.combo[c].active
          BY DEF Flushed
      <4>. QED BY <4>1, <4>2, <2>1, <1>4
    <3>. QED BY <3>1, <3>2
  <2>. QED BY <2>2 DEF Owed
<1>. QED BY <1>1, <1>2, <1>5, <1>6 DEF Mid

LEMMA FlushedTells ==
    ASSUME NEW s \in State, NEW t, NEW N, Flushed(s, t, N), NEW K, NEW R, Telling(s, K, R)
    PROVE  Telling(t, K, R)
<1>1. PICK b : HandsOn(s, t, b)
    BY DEF Flushed
<1>2. KeptKeys(t) = {}
    BY DEF Flushed, KeptKeys
<1>. QED BY <1>1, <1>2, HandsOnTells

(* What waits in the ring is still there, or was reported.                   *)
Waits(s, d) == d \in Range(s.combo_buffer) /\ ~s.combo[d].disabled
Stays(s, t, k) ==
    \A d \in Range(s.combo_buffer) : ~s.combo[d].disabled /\ ~must_wait(d) =>
        Waits(t, d) \/ ([combo |-> d] \in t.reported /\ k \notin KeysOf(d))

(* First the combo is applied,                                               *)
LEMMA TappedMid ==
    ASSUME NEW M, NEW k, NEW s, Core(s, M, k), Fulls(s), TwoKeys, NEW N, Mid(s, N),
           NEW K, NEW R, Telling(s, K, R), NEW c \in Combo, k \in KeysOf(c), Tapped(s, c)
    PROVE  LET x == Handled(s, c) IN
           /\ x \in State /\ Mid(x, N) /\ Telling(x, K, R) /\ Stays(s, x, k) /\ x.combo[c].active
           /\ s.reported \subseteq x.reported /\ x.combo_buffer = <<>>
<1>. DEFINE u == apply_combo(s, c)
            x == apply_combos(u)
            Q == Range(s.combo_buffer)
<1>1. /\ Handled(s, c) = x /\ c \in MUST_TAP /\ ~s.combo[c].disabled /\ Full(s, c)
    BY DEF Handled, Tapped
<1>2. s \in State /\ c \in Q /\ s.combo_buffer \in Ring
    BY <1>1 DEF Core, Fulls, State
<1>3. Working(s, Q, N) /\ Apart(Q)
    BY DEF Mid, Working
<1>4. Core(u, M, k) /\ DealtWith(s, u, c)
    BY <1>2, AppliesOne
<1>5. Working(u, Q, N) /\ Taker(u, c)
    BY <1>1, <1>2, <1>3, WorksApply
<1>6. u.combo_buffer = Popped(s.combo_buffer, c)
    BY <1>1, <1>2, AppliesRing
<1>. HIDE DEF u, Q
<1>7. x \in State /\ Flushed(u, x, N)
    BY <1>4, <1>5, AppliesFlush
<1>. HIDE DEF x
<1>8. /\ u.out = s.out /\ u.reported = s.reported /\ KeptKeys(u) = KeptKeys(s) /\ u \in State
      /\ \A d \in Combo : u.combo[d].state = s.combo[d].state /\ (s.combo[d].active => u.combo[d].active)
    BY <1>4 DEF DealtWith
<1>9. Mid(x, N)
  <2>1. Owed(s, N) => Owed(u, N)
      BY <1>8 DEF Owed
  <2>. QED BY <1>7, <2>1, FlushedMid DEF Mid
<1>10. Telling(x, K, R)
  <2>1. Telling(u, K, R)
      BY <1>8 DEF Telling, Balanced
  <2>. QED BY <1>7, <1>8, <2>1, FlushedTells
<1>11. x.combo[c].active
  <2>1. u.combo[c].active
      BY <1>4, <1>5 DEF Taker, Core, Actives
  <2>. QED BY <2>1, <1>7 DEF Flushed
<1>12. ASSUME NEW d \in Range(s.combo_buffer), ~s.combo[d].disabled, ~must_wait(d)
       PROVE  [combo |-> d] \in x.reported /\ k \notin KeysOf(d)
  <2>1. d # c /\ d \in Combo /\ d \notin MUST_TAP
      BY <1>1, <1>2, <1>12 DEF must_wait, Ring, Range
  <2>2. k \notin KeysOf(d)
      BY <1>2, <1>3, <2>1 DEF Apart, Overlaps, Q
  <2>3. d \in Range(u.combo_buffer)
    <3>1. s.combo_buffer \in Seq(Combo) /\ Distinct(s.combo_buffer)
        BY <1>2 DEF Ring, Core
    <3>. QED BY <3>1, <1>6, <2>1, PoppedIs
  <2>4. ~u.combo[d].disabled
      BY <1>4, <1>12, <2>1 DEF DealtWith
  <2>. QED BY <2>1, <2>2, <2>3, <2>4, <1>7 DEF Flushed
<1>13. Stays(s, x, k)
    BY <1>12 DEF Stays
<1>14. s.reported \subseteq x.reported /\ x.combo_buffer = <<>>
  <2>1. PICK b : HandsOn(u, x, b)
      BY <1>7 DEF Flushed
  <2>. QED BY <2>1, <1>7, <1>8 DEF HandsOn, Flushed
<1>. QED BY <1>1, <1>7, <1>9, <1>10, <1>11, <1>13, <1>14

(* or dropped, or left alone.                                                *)
LEMMA UntappedMid ==
    ASSUME NEW M, NEW k, NEW s, Core(s, M, k), TwoKeys, HoldMeetsAll, NEW N, Mid(s, N),
           NEW K, NEW R, Telling(s, K, R), NEW c \in Combo, ~Tapped(s, c)
    PROVE  LET x == Handled(s, c) IN
           /\ x \in State /\ Mid(x, N) /\ Telling(x, K, R) /\ Stays(s, x, k)
           /\ x.reported = s.reported /\ x.key_buffer = s.key_buffer /\ x.enabled = s.enabled
           /\ Range(x.combo_buffer) \subseteq Range(s.combo_buffer)
           /\ \A d \in Combo : x.combo[d].state = s.combo[d].state /\ x.combo[d].active = s.combo[d].active
           /\ \A d \in Combo : d # c => x.combo[d].disabled = s.combo[d].disabled
           /\ ~(Full(s, c) /\ (s.combo[c].disabled \/ c \in MUST_HOLD)) => x = s
           /\ Full(s, c) /\ c \in MUST_HOLD /\ c \in Range(x.combo_buffer) => x.combo[c].disabled
<1>. DEFINE x == Handled(s, c)
            q == s.combo_buffer
<1>1. s \in State /\ q \in Seq(Combo) /\ Distinct(q)
    BY DEF Core, State, Ring
<1>2. CASE ~(Full(s, c) /\ (s.combo[c].disabled \/ c \in MUST_HOLD))
  <2>1. x = s
      BY <1>2 DEF Handled
  <2>2. Stays(s, s, k)
      BY DEF Stays, Waits
  <2>. QED BY <1>1, <1>2, <2>1, <2>2
<1>3. CASE Full(s, c) /\ (s.combo[c].disabled \/ c \in MUST_HOLD)
  <2>. DEFINE Q == Range(q)
  <2>1. x = drop_combo_from_buffer(s, c)
      BY <1>3 DEF Handled
  <2>2. Working(s, Q, N) /\ Plain(s)
      BY DEF Mid
  <2>3. c \in MUST_TAP \/ c \notin Range(q) \/ c = Head(q)
    <3>. SUFFICES ASSUME c \notin MUST_TAP, c \in Range(q) PROVE c = Head(q)
        OBVIOUS
    <3>1. c \in MUST_HOLD
        BY <1>3, <2>2 DEF Working
    <3>2. q # <<>>
        BY DEF Range
    <3>3. Head(q) \in Range(q) /\ Head(q) \in Combo
        BY <1>1, <3>2, TailOf
    <3>4. Overlaps(c, Head(q))
        BY <3>1, <3>3 DEF HoldMeetsAll
    <3>. QED BY <2>2, <3>3, <3>4 DEF Working, Apart
  <2>. HIDE DEF x, Q
  <2>4. Working(x, Q, N)
      BY <1>1, <2>1, <2>2, <2>3, WorksDrop
  <2>5. /\ Kept2(s, x)
        /\ \A d \in Combo : x.combo[d].disabled = (s.combo[d].disabled \/ (d = c /\ c \in Range(q)))
      BY <1>1, <2>1, Drops
  <2>6. x.combo_buffer = Popped(q, c)
      BY <1>1, <2>1, DropsRing
  <2>7. /\ Range(x.combo_buffer) \subseteq Range(q)
        /\ \A d \in Range(q) : d # c => d \in Range(x.combo_buffer)
      BY <1>1, <2>6, PoppedIs
  <2>8. Plain(x) /\ KeptKeys(x) = KeptKeys(s)
      BY <2>2, <2>5 DEF Kept2, Plain, KeptKeys
  <2>9. Mid(x, N)
    <3>1. Working(x, Range(x.combo_buffer), N)
        BY <2>4, <2>7, <2>8, WorksFewer DEF Q
    <3>2. x.combo_buffer # <<>> => x.enabled
      <4>1. q = <<>> => x.combo_buffer = <<>>
          BY <2>6 DEF Popped
      <4>. QED BY <4>1, <2>5 DEF Mid, Kept2
    <3>3. Owed(s, N) => Owed(x, N)
        BY <2>5, <2>8 DEF Owed, Kept2
    <3>. QED BY <2>8, <3>1, <3>2, <3>3 DEF Mid
  <2>10. Telling(x, K, R)
      BY <2>5, <2>8 DEF Telling, Balanced, Kept2
  <2>11. Stays(s, x, k)
    <3>1. ASSUME NEW d \in Range(q), ~s.combo[d].disabled, ~must_wait(d) PROVE Waits(x, d)
      <4>1. d # c /\ d \in Combo
          BY <3>1, <1>1, <1>3 DEF must_wait, Range
      <4>. QED BY <4>1, <3>1, <2>5, <2>7 DEF Waits
    <3>. QED BY <3>1 DEF Stays
  <2>12. \A d \in Combo : s.combo[d].disabled \in BOOLEAN
      BY <1>1 DEF State, Bits
  <2>13. \A d \in Combo : d # c => x.combo[d].disabled = s.combo[d].disabled
      BY <2>5, <2>12
  <2>14. c \in Range(x.combo_buffer) => x.combo[c].disabled
      BY <2>5, <2>7
  <2>. QED BY <1>3, <2>5, <2>7, <2>9, <2>10, <2>11, <2>13, <2>14 DEF x, Kept2
<1>. QED BY <1>2, <1>3

(* One more entry is handed on.                                              *)
LEMMA AppendIs ==
    ASSUME NEW q \in Seq(Entry), NEW e \in Entry
    PROVE  LET t == Append(q, e) IN
           /\ t \in Seq(Entry) /\ Len(q) \in Nat /\ DOMAIN q = 1..Len(q) /\ DOMAIN t = 1..(Len(q) + 1)
           /\ t[Len(q) + 1] = e /\ \A i \in DOMAIN q : t[i] = q[i]
OBVIOUS

LEMMA TellsRelease ==
    ASSUME NEW q \in Seq(Entry), NEW A, Tells(q, A), NEW e \in Entry, ~e.pressed
    PROVE  Tells(Append(q, e), A)
<1>. DEFINE t == Append(q, e)
            n == Len(q)
<1>1. /\ n \in Nat /\ DOMAIN q = 1..n /\ DOMAIN t = 1..(n + 1)
      /\ t[n + 1] = e /\ \A i \in DOMAIN q : t[i] = q[i]
    BY AppendIs
<1>. HIDE DEF t, n
<1>2. \A i \in DOMAIN t : i \in DOMAIN q \/ i = n + 1
    BY <1>1
<1>3. \A k : ~Reports(e, k)
    BY DEF Reports
<1>4. \A i \in DOMAIN t, k \in Key : Reports(t[i], k) => i \in DOMAIN q /\ Reports(q[i], k)
    BY <1>1, <1>2, <1>3
<1>5. \A i \in DOMAIN q : i \in DOMAIN t
    BY <1>1
<1>. QED BY <1>1, <1>4, <1>5 DEF Tells, t

LEMMA TellsPress ==
    ASSUME NEW q \in Seq(Entry), NEW A, Tells(q, A), NEW k \in Key, k \notin A
    PROVE  Tells(Append(q, Record(k, NoCombo, TRUE)), A \cup {k})
<1>. DEFINE e == Record(k, NoCombo, TRUE)
            t == Append(q, e)
            n == Len(q)
<1>1. e \in Entry /\ e.combo = NoCombo /\ e.key = k /\ e.pressed
    BY DEF Entry, Record
<1>2. \A j \in Key : Reports(e, j) <=> j = k
  <2>1. NoCombo \notin Combo
      BY DEF NoCombo, Combo
  <2>. HIDE DEF e
  <2>. QED BY <1>1, <2>1, ReportsIs
<1>. HIDE DEF e
<1>3. /\ n \in Nat /\ DOMAIN q = 1..n /\ DOMAIN t = 1..(n + 1)
      /\ t[n + 1] = e /\ \A i \in DOMAIN q : t[i] = q[i]
    BY <1>1, AppendIs
<1>. HIDE DEF t, n
<1>4. \A i \in DOMAIN t : i \in DOMAIN q \/ i = n + 1
    BY <1>3
<1>5. n + 1 \in DOMAIN t /\ n + 1 \notin DOMAIN q /\ \A i \in DOMAIN q : i \in DOMAIN t
    BY <1>3
<1>6. \A i \in DOMAIN t, j \in Key : Reports(t[i], j) =>
          \/ i \in DOMAIN q /\ Reports(q[i], j) /\ j \in A
          \/ i = n + 1 /\ j = k
    BY <1>2, <1>3, <1>4 DEF Tells
<1>7. ASSUME NEW i \in DOMAIN t, NEW l \in DOMAIN t, NEW j \in Key, Reports(t[i], j), Reports(t[l], j)
      PROVE  i = l
    BY <1>6, <1>7 DEF Tells
<1>8. ASSUME NEW j \in A \cup {k} PROVE \E i \in DOMAIN t : Reports(t[i], j)
  <2>1. CASE j = k
      BY <2>1, <1>2, <1>3, <1>5
  <2>2. CASE j # k
    <3>1. PICK i \in DOMAIN q : Reports(q[i], j)
        BY <2>2 DEF Tells
    <3>. QED BY <3>1, <1>3, <1>5
  <2>. QED BY <2>1, <2>2
<1>. QED BY <1>6, <1>7, <1>8 DEF Tells, t, e

LEMMA BalancedRelease ==
    ASSUME NEW s \in State, NEW R, Balanced(s, R), NEW e \in Entry, ~e.pressed, What(e) \in s.reported,
           NEW t, t.out = Append(s.out, e), t.reported \subseteq s.reported
    PROVE  Balanced(t, R)
<1>. DEFINE q == s.out
            p == t.out
            n == Len(q)
<1>1. q \in Seq(Entry)
    BY DEF State
<1>2. /\ n \in Nat /\ DOMAIN q = 1..n /\ DOMAIN p = 1..(n + 1)
      /\ p[n + 1] = e /\ \A i \in DOMAIN q : p[i] = q[i]
    BY <1>1, AppendIs
<1>3. /\ \A w \in s.reported : w \in R \/ \E j \in DOMAIN q : PressOf(q[j], w)
      /\ \A i \in DOMAIN q : ~q[i].pressed =>
            What(q[i]) \in R \/ \E j \in 1..(i - 1) : PressOf(q[j], What(q[i]))
    BY DEF Balanced
<1>. HIDE DEF p, q, n
<1>4. \A i \in DOMAIN p : i \in DOMAIN q \/ i = n + 1
    BY <1>2
<1>5. \A w \in t.reported : w \in R \/ \E j \in DOMAIN p : PressOf(p[j], w)
  <2>1. \A j \in DOMAIN q : j \in DOMAIN p /\ p[j] = q[j]
      BY <1>2
  <2>. QED BY <2>1, <1>3
<1>6. ASSUME NEW i \in DOMAIN p, ~p[i].pressed
      PROVE  What(p[i]) \in R \/ \E j \in 1..(i - 1) : PressOf(p[j], What(p[i]))
  <2>1. CASE i = n + 1
    <3>1. n + 1 - 1 = n
        BY <1>2
    <3>2. What(p[i]) \in s.reported
        BY <2>1, <1>2
    <3>3. What(p[i]) \in R \/ \E j \in DOMAIN q : PressOf(q[j], What(p[i]))
        BY <3>2, <1>3
    <3>. QED BY <2>1, <3>1, <3>3, <1>2
  <2>2. CASE i # n + 1
    <3>1. i \in DOMAIN q /\ p[i] = q[i]
        BY <2>2, <1>2, <1>4
    <3>2. \A j \in 1..(i - 1) : j \in DOMAIN q /\ p[j] = q[j]
        BY <3>1, <1>2
    <3>. QED BY <3>1, <3>2, <1>3, <1>6
  <2>. QED BY <2>1, <2>2
<1>. QED BY <1>5, <1>6 DEF Balanced, p

(* The combo may end, and no longer counts k.                                *)
LEMMA ForgetMid ==
    ASSUME NEW k \in Key, NEW c \in Combo, NEW x \in State, NEW N, k \notin N, Mid(x, N),
           NEW K, NEW R, Telling(x, K, R),
           NEW y, \/ y = x
                  \/ /\ y = release_combo(x, c, k) /\ x.combo[c].active
                     /\ RELEASE_EARLY = {} => x.combo[c].state = {k}
    PROVE  LET t == Forgotten(y, c, k) IN
           /\ t \in State /\ Mid(t, N) /\ Telling(t, K, R)
           /\ t.combo_buffer = x.combo_buffer /\ t.key_buffer = x.key_buffer /\ t.enabled = x.enabled
           /\ \A d \in Combo : t.combo[d].disabled = x.combo[d].disabled
           /\ \A d \in Combo : d # c => /\ t.combo[d].state = x.combo[d].state
                                        /\ t.combo[d].active = x.combo[d].active
                                        /\ [combo |-> d] \in x.reported => [combo |-> d] \in t.reported
           /\ y = x => t.reported = x.reported
<1>. DEFINE t == Forgotten(y, c, k)
<1>1. Plain(x) /\ Working(x, Range(x.combo_buffer), N) /\ \A d \in Combo : ~Taker(x, d)
    BY PlainIs DEF Mid
<1>2. \A d \in Combo : x.combo[d].active => [combo |-> d] \in x.reported
    BY <1>1 DEF Working
<1>3. /\ y \in State /\ y.combo_buffer = x.combo_buffer /\ y.key_buffer = x.key_buffer /\ y.enabled = x.enabled
      /\ \A d \in Combo : /\ y.combo[d].state = x.combo[d].state
                          /\ y.combo[d].disabled = x.combo[d].disabled
                          /\ d # c => y.combo[d].active = x.combo[d].active
                          /\ y.combo[d].active => x.combo[d].active /\ (y = x \/ d # c)
      /\ y = x \/ y.reported = x.reported \ {[combo |-> c]}
  <2>1. CASE y = x
      BY <2>1
  <2>2. CASE y # x
    <3>1. y = release_combo(x, c, k)
        BY <2>2
    <3>2. /\ Sent(x, release_combo(x, c, k)) /\ release_combo(x, c, k).key_buffer = x.key_buffer
          /\ release_combo(x, c, k).reported = x.reported \ {[combo |-> c]}
          /\ \A d \in Combo : /\ release_combo(x, c, k).combo[d].state = x.combo[d].state
                              /\ release_combo(x, c, k).combo[d].disabled = x.combo[d].disabled
                              /\ release_combo(x, c, k).combo[d].active = (x.combo[d].active /\ d # c)
        BY Releases
    <3>3. \A d \in Combo : x.combo[d].active \in BOOLEAN
        BY DEF State, Bits
    <3>. QED BY <3>1, <3>2, <3>3 DEF Sent
  <2>. QED BY <2>1, <2>2
<1>4. Telling(y, K, R)
  <2>1. CASE y = x
      BY <2>1
  <2>2. CASE y # x
    <3>. DEFINE e == Record(k, c, FALSE)
    <3>1. y = release_combo(x, c, k) /\ x.combo[c].active
        BY <2>2
    <3>2. y.out = Append(x.out, e)
        BY <3>1, ReleasesOut
    <3>3. e \in Entry /\ ~e.pressed
        BY DEF Entry, Record
    <3>4. What(e) = [combo |-> c]
        BY DEF What, Record, NoCombo, Combo
    <3>. HIDE DEF e
    <3>5. What(e) \in x.reported
        BY <3>1, <3>4, <1>2
    <3>6. KeptKeys(y) = KeptKeys(x)
        BY <1>3 DEF KeptKeys
    <3>7. x.out \in Seq(Entry)
        BY DEF State
    <3>8. Tells(y.out, K \ KeptKeys(y))
        BY <3>2, <3>3, <3>6, <3>7, TellsRelease DEF Telling
    <3>9. y.reported \subseteq x.reported
        BY <1>3
    <3>10. Balanced(y, R)
        BY <3>2, <3>3, <3>5, <3>9, BalancedRelease DEF Telling
    <3>. QED BY <3>6, <3>8, <3>10 DEF Telling
  <2>. QED BY <2>1, <2>2
<1>5. /\ t \in State /\ t.combo_buffer = y.combo_buffer /\ t.key_buffer = y.key_buffer
      /\ t.enabled = y.enabled /\ t.out = y.out /\ t.reported = y.reported
      /\ \A d \in Combo : /\ t.combo[d].active = y.combo[d].active
                          /\ t.combo[d].disabled = y.combo[d].disabled
                          /\ t.combo[d].state = y.combo[d].state \ (IF d = c THEN {k} ELSE {})
    BY <1>3, Forgets
<1>. HIDE DEF t
<1>6. /\ KeptKeys(t) = KeptKeys(x) /\ KeptKeys(t) = KeptKeys(y) /\ Plain(t)
      /\ \A d \in Combo : ~Taker(t, d)
    BY <1>1, <1>3, <1>5 DEF KeptKeys, Plain, Taker
<1>7. Telling(t, K, R)
    BY <1>4, <1>5, <1>6 DEF Telling, Balanced
<1>8. \A d \in Combo : /\ d # c => t.combo[d].state = x.combo[d].state /\ t.combo[d].active = x.combo[d].active
                       /\ t.combo[d].disabled = x.combo[d].disabled
                       /\ t.combo[d].active => x.combo[d].active /\ (y = x \/ d # c)
                       /\ \A j \in x.combo[d].state : j # k => j \in t.combo[d].state
  <2>1. ASSUME NEW d \in Combo
        PROVE  /\ t.combo[d].disabled = x.combo[d].disabled
               /\ t.combo[d].state = x.combo[d].state \ (IF d = c THEN {k} ELSE {})
      BY <1>3, <1>5
  <2>2. ASSUME NEW d \in Combo, d # c
        PROVE  t.combo[d].active = x.combo[d].active
      BY <2>2, <1>3, <1>5
  <2>3. ASSUME NEW d \in Combo, t.combo[d].active
        PROVE  x.combo[d].active /\ (y = x \/ d # c)
    <3>1. y.combo[d].active
        BY <2>3, <1>5
    <3>. QED BY <3>1, <1>3
  <2>4. ASSUME NEW d \in Combo, NEW j \in x.combo[d].state, j # k
        PROVE  j \in t.combo[d].state
      BY <2>1, <2>4
  <2>5. ASSUME NEW d \in Combo, d # c
        PROVE  t.combo[d].state = x.combo[d].state
    <3>1. t.combo[d].state = x.combo[d].state \ {}
        BY <2>1, <2>5
    <3>. QED BY <3>1
  <2>. HIDE DEF t
  <2>. QED BY <2>1, <2>2, <2>3, <2>4, <2>5
<1>9. y = x \/ t.reported = x.reported \ {[combo |-> c]}
    BY <1>3, <1>5
<1>10. \A d \in Combo : (d # c \/ y = x) /\ [combo |-> d] \in x.reported => [combo |-> d] \in t.reported
    BY <1>5, <1>9, KeyIsNoCombo
<1>11. Working(t, Range(t.combo_buffer), N)
  <2>. DEFINE Q == Range(x.combo_buffer)
  <2>1. Range(t.combo_buffer) = Q
      BY <1>3, <1>5
  <2>2. Accounts(t, Q)
    <3>1. t.key_buffer = x.key_buffer
        BY <1>3, <1>5
    <3>2. Alone(t) = Alone(x)
        BY <3>1 DEF Alone
    <3>. HIDE DEF Q
    <3>3. Accounts(x, Q)
        BY <1>1 DEF Working, Q
    <3>4. \A k1 \in KeptKeys(t) : k1 \in Alone(t)
        BY <1>6, PlainIs
    <3>5. Q \subseteq Combo
        BY <1>1 DEF Working, Q
    <3>. QED BY <3>1, <3>2, <3>3, <3>4, <3>5, <1>6 DEF Accounts
  <2>3. \A d \in Combo : t.combo[d].active => [combo |-> d] \in t.reported
      BY <1>2, <1>8, <1>10
  <2>. HIDE DEF Q
  <2>4. /\ Apart(Q) /\ Q \subseteq Combo /\ \A d \in Q : KeysOf(d) \subseteq KeptKeys(t)
      BY <1>1, <1>6 DEF Working, Q
  <2>5. ASSUME NEW d \in Q
        PROVE  IF t.combo[d].disabled THEN d \in MUST_TAP ELSE KeysOf(d) \cap N \subseteq t.combo[d].state
    <3>1. IF x.combo[d].disabled THEN d \in MUST_TAP ELSE KeysOf(d) \cap N \subseteq x.combo[d].state
        BY <1>1 DEF Working, Q
    <3>2. d \in Combo
        BY <2>4
    <3>3. \A j \in N : j # k
        OBVIOUS
    <3>. QED BY <3>1, <3>2, <3>3, <1>8
  <2>. QED BY <2>1, <2>2, <2>3, <2>4, <2>5, <1>6 DEF Working
<1>12. ASSUME RELEASE_EARLY = {} PROVE Owed(t, N)
  <2>1. ASSUME NEW j \in N
        PROVE  \/ j \in KeptKeys(t) \/ [key |-> j] \in t.reported
               \/ \E d \in Combo : t.combo[d].active /\ j \in t.combo[d].state
    <3>1. j # k
        OBVIOUS
    <3>2. \/ j \in KeptKeys(x) \/ [key |-> j] \in x.reported
          \/ \E d \in Combo : x.combo[d].active /\ j \in x.combo[d].state
        BY <1>12 DEF Mid, Owed
    <3>3. [key |-> j] \in x.reported => [key |-> j] \in t.reported
        BY <1>5, <1>9, KeyIsNoCombo
    <3>4. ASSUME NEW d \in Combo, x.combo[d].active, j \in x.combo[d].state
          PROVE  t.combo[d].active /\ j \in t.combo[d].state
      <4>1. j \in t.combo[d].state
          BY <3>1, <3>4, <1>8
      <4>2. d = c => y = x
          BY <3>1, <3>4, <1>12
      <4>3. t.combo[d].active
          BY <3>4, <4>2, <1>3, <1>5
      <4>. QED BY <4>1, <4>3
    <3>. QED BY <3>2, <3>3, <3>4, <1>6
  <2>. QED BY <2>1 DEF Owed
<1>13. Mid(t, N)
  <2>1. t.combo_buffer # <<>> => t.enabled
      BY <1>3, <1>5 DEF Mid
  <2>. QED BY <1>6, <1>11, <1>12, <2>1 DEF Mid
<1>14. y = x => t.reported = x.reported
    BY <1>5
<1>. QED BY <1>3, <1>5, <1>7, <1>8, <1>10, <1>13, <1>14 DEF t

(* What one combo does with the release of k.                                *)
LEMMA ReleaseMid ==
    ASSUME NEW M, NEW k \in Key, NEW s, Core(s, M, k), Fulls(s), TwoKeys, HoldMeetsAll,
           NEW N, k \notin N, Mid(s, N), NEW K, NEW R, Telling(s, K, R), NEW c \in Combo, k \in KeysOf(c)
    PROVE  LET t == ReleaseInCombo(s, c, k) IN
           /\ t \in State /\ Mid(t, N) /\ Telling(t, K, R) /\ Stays(s, t, k)
           /\ \A d \in Combo : [combo |-> d] \in s.reported /\ k \notin KeysOf(d) => [combo |-> d] \in t.reported
<1>. DEFINE x == Handled(s, c)
            y == Ended(s, x, c, k)
            t == Forgotten(y, c, k)
<1>1. /\ x \in State /\ Mid(x, N) /\ Telling(x, K, R) /\ Stays(s, x, k) /\ s.reported \subseteq x.reported
      /\ Tapped(s, c) => x.combo[c].active
      /\ ~Tapped(s, c) => \A d \in Combo : /\ x.combo[d].state = s.combo[d].state
                                           /\ x.combo[d].active = s.combo[d].active
  <2>1. CASE Tapped(s, c)
      BY <2>1, TappedMid
  <2>2. CASE ~Tapped(s, c)
      BY <2>2, UntappedMid
  <2>. QED BY <2>1, <2>2
<1>2. Tapped(s, c) => ~s.combo[c].active
    BY DEF Tapped, Full
<1>. HIDE DEF x
<1>3. \/ y = x
      \/ /\ y = release_combo(x, c, k) /\ x.combo[c].active
         /\ RELEASE_EARLY = {} => x.combo[c].state = {k}
  <2>1. CASE LastHeld(s, c, k)
    <3>1. s.combo[c].active /\ s.combo[c].state = {k}
        BY <2>1 DEF LastHeld, Held
    <3>. QED BY <2>1, <3>1, <1>1, <1>2 DEF Ended
  <2>2. CASE ~LastHeld(s, c, k) /\ ReleasesEarly(s, c, k)
    <3>1. RELEASE_EARLY # {} /\ (s.combo[c].active \/ Tapped(s, c))
        BY <2>2 DEF ReleasesEarly, Held
    <3>. QED BY <2>2, <3>1, <1>1, <1>2 DEF Ended
  <2>3. CASE ~LastHeld(s, c, k) /\ ~ReleasesEarly(s, c, k)
      BY <2>3 DEF Ended
  <2>. QED BY <2>1, <2>2, <2>3
<1>4. ReleaseInCombo(s, c, k) = t
    BY ReleaseIs DEF x
<1>. HIDE DEF y
<1>5. /\ t \in State /\ Mid(t, N) /\ Telling(t, K, R)
      /\ t.combo_buffer = x.combo_buffer
      /\ \A d \in Combo : t.combo[d].disabled = x.combo[d].disabled
      /\ \A d \in Combo : d # c => ([combo |-> d] \in x.reported => [combo |-> d] \in t.reported)
    BY <1>1, <1>3, ForgetMid
<1>. HIDE DEF t
<1>6. Stays(s, t, k)
  <2>1. ASSUME NEW d \in Range(s.combo_buffer), ~s.combo[d].disabled, ~must_wait(d)
        PROVE  Waits(t, d) \/ ([combo |-> d] \in t.reported /\ k \notin KeysOf(d))
    <3>1. d \in Combo
        BY DEF Core, State, Ring, Range
    <3>2. Waits(x, d) => Waits(t, d)
        BY <3>1, <1>5 DEF Waits
    <3>3. k \notin KeysOf(d) => d # c
        OBVIOUS
    <3>4. Waits(x, d) \/ ([combo |-> d] \in x.reported /\ k \notin KeysOf(d))
        BY <2>1, <1>1 DEF Stays
    <3>. QED BY <3>1, <3>2, <3>3, <3>4, <1>5
  <2>. QED BY <2>1 DEF Stays
<1>. QED BY <1>1, <1>4, <1>5, <1>6

(* What the ring holds is complete, or has been disabled.                    *)
FullRing(s) == \A d \in Range(s.combo_buffer) : s.combo[d].disabled \/ Full(s, d)

(* A release that no combo keeps back changes little: c will not take k.     *)
LEMMA ReleasePasses ==
    ASSUME NEW M, NEW k \in Key, NEW s, Core(s, M, k), Fulls(s), FullRing(s), TwoKeys, HoldMeetsAll, AnyOrder,
           NEW N, k \notin N, Mid(s, N), NEW c \in Combo, k \in KeysOf(c), ~Swallowed(s, c, k)
    PROVE  LET t == ReleaseInCombo(s, c, k) IN
           /\ t.reported = s.reported /\ t.key_buffer = s.key_buffer /\ t.enabled = s.enabled
           /\ Range(t.combo_buffer) \subseteq Range(s.combo_buffer) /\ FullRing(t)
           /\ \A d \in Combo : d # c => /\ t.combo[d].state = s.combo[d].state
                                        /\ t.combo[d].active = s.combo[d].active
                                        /\ t.combo[d].disabled = s.combo[d].disabled
           /\ c \in Range(t.combo_buffer) => t.combo[c].disabled
           /\ ~Held(s, c, k)
<1>. DEFINE x == Handled(s, c)
            t == Forgotten(x, c, k)
<1>1. s \in State /\ Range(s.combo_buffer) \subseteq Combo
    BY DEF Core, State, Ring, Range
<1>2. ~Held(s, c, k) /\ (Full(s, c) /\ ~s.combo[c].disabled /\ s.enabled => c \in MUST_HOLD)
    BY DEF Swallowed, IsPart, keys_pressed_in_order, AnyOrder
<1>3. Full(s, c) /\ ~s.combo[c].disabled => c \in MUST_HOLD
  <2>. SUFFICES ASSUME Full(s, c), ~s.combo[c].disabled PROVE c \in MUST_HOLD
      OBVIOUS
  <2>1. c \in Range(s.combo_buffer)
      BY DEF Fulls
  <2>2. s.enabled
      BY <2>1 DEF Range, Mid
  <2>. QED BY <2>2, <1>2
<1>4. ~Tapped(s, c)
    BY <1>3 DEF Tapped
<1>5. ~LastHeld(s, c, k) /\ ~ReleasesEarly(s, c, k)
    BY <1>2, <1>4 DEF LastHeld, ReleasesEarly
<1>6. ReleaseInCombo(s, c, k) = t
    BY <1>5, ReleaseIs DEF Ended
<1>7. x = s \/ (x = drop_combo_from_buffer(s, c) /\ Full(s, c))
    BY <1>4 DEF Handled
<1>8. /\ x \in State /\ x.reported = s.reported /\ x.key_buffer = s.key_buffer /\ x.enabled = s.enabled
      /\ Range(x.combo_buffer) \subseteq Range(s.combo_buffer)
      /\ \A d \in Combo : x.combo[d].state = s.combo[d].state /\ x.combo[d].active = s.combo[d].active
      /\ \A d \in Combo : d # c => (x.combo[d].disabled = s.combo[d].disabled)
      /\ c \in Range(x.combo_buffer) => x.combo[c].disabled
  <2>1. CASE x = s
    <3>1. c \in Range(s.combo_buffer) => s.combo[c].disabled
      <4>. SUFFICES ASSUME c \in Range(s.combo_buffer), ~s.combo[c].disabled PROVE FALSE
          OBVIOUS
      <4>1. Full(s, c) /\ c \in MUST_HOLD
          BY <1>3 DEF FullRing
      <4>2. x = drop_combo_from_buffer(s, c)
          BY <4>1, <1>4 DEF Handled
      <4>3. \A d \in Combo : x.combo[d].disabled
                               = (s.combo[d].disabled \/ (d = c /\ c \in Range(s.combo_buffer)))
          BY <4>2, <1>1, Drops
      <4>4. x.combo[c].disabled
          BY <4>3
      <4>. QED BY <4>4, <2>1
    <3>. HIDE DEF x
    <3>. QED BY <3>1, <2>1, <1>1
  <2>2. CASE x = drop_combo_from_buffer(s, c)
    <3>. HIDE DEF x
    <3>1. /\ Kept2(s, x) /\ Shifted(s.combo_buffer, x.combo_buffer, c)
          /\ \A d \in Combo : x.combo[d].disabled
                                = (s.combo[d].disabled \/ (d = c /\ c \in Range(s.combo_buffer)))
        BY <2>2, <1>1, Drops
    <3>2. Range(x.combo_buffer) \subseteq Range(s.combo_buffer)
      <4>1. s.combo_buffer \in Ring
          BY <1>1 DEF State
      <4>. QED BY <4>1, <3>1, ShiftedIs
    <3>3. \A d \in Combo : s.combo[d].disabled \in BOOLEAN
        BY <1>1 DEF State, Bits
    <3>4. \A d \in Combo : d # c => (x.combo[d].disabled = s.combo[d].disabled)
        BY <3>1, <3>3
    <3>5. c \in Range(x.combo_buffer) => x.combo[c].disabled
        BY <3>1, <3>2
    <3>. QED BY <3>1, <3>2, <3>4, <3>5 DEF Kept2
  <2>. QED BY <1>7, <2>1, <2>2
<1>. HIDE DEF x
<1>9. /\ t.combo_buffer = x.combo_buffer /\ t.enabled = x.enabled /\ t.key_buffer = x.key_buffer
      /\ t.reported = x.reported
      /\ \A d \in Combo : /\ t.combo[d].active = x.combo[d].active
                          /\ t.combo[d].disabled = x.combo[d].disabled
                          /\ d # c => t.combo[d].state = x.combo[d].state
  <2>1. /\ t.combo_buffer = x.combo_buffer /\ t.enabled = x.enabled /\ t.key_buffer = x.key_buffer
        /\ t.reported = x.reported
        /\ \A d \in Combo : /\ t.combo[d].active = x.combo[d].active
                            /\ t.combo[d].disabled = x.combo[d].disabled
                            /\ t.combo[d].state = x.combo[d].state \ (IF d = c THEN {k} ELSE {})
      BY <1>8, Forgets
  <2>. HIDE DEF t
  <2>. QED BY <2>1
<1>. HIDE DEF t
<1>10. \A d \in Combo : d # c => /\ t.combo[d].state = s.combo[d].state
                                 /\ t.combo[d].active = s.combo[d].active
                                 /\ t.combo[d].disabled = s.combo[d].disabled
    BY <1>8, <1>9
<1>11. c \in Range(t.combo_buffer) => t.combo[c].disabled
    BY <1>8, <1>9
<1>12. Range(t.combo_buffer) \subseteq Range(s.combo_buffer)
    BY <1>8, <1>9
<1>13. FullRing(t)
  <2>1. ASSUME NEW d \in Range(t.combo_buffer), d # c, ~t.combo[d].disabled PROVE Full(t, d)
    <3>1. d \in Combo /\ d \in Range(s.combo_buffer)
        BY <1>1, <1>12
    <3>2. Full(s, d)
        BY <3>1, <2>1, <1>10 DEF FullRing
    <3>. QED BY <3>1, <3>2, <2>1, <1>10 DEF Full
  <2>. QED BY <2>1, <1>11 DEF FullRing
<1>. QED BY <1>2, <1>6, <1>8, <1>9, <1>10, <1>11, <1>12, <1>13

(* So far, no combo has kept the release back.                               *)
Passes(s, t, k, n) ==
    /\ t.reported = s.reported /\ t.key_buffer = s.key_buffer /\ t.enabled = s.enabled /\ FullRing(t)
    /\ \A d \in Combo : ~(d <= n) => /\ t.combo[d].state = s.combo[d].state
                                     /\ t.combo[d].active = s.combo[d].active
    /\ \A d \in Combo : d <= n /\ k \in KeysOf(d) =>
          ~Held(s, d, k) /\ (d \in Range(t.combo_buffer) => t.combo[d].disabled)

LEMMA ReleasesMid ==
    ASSUME NEW M, NEW k \in Key, NEW s, Core(s, M, k), Fulls(s), FullRing(s), TwoKeys, HoldMeetsAll, AnyOrder,
           NEW N, k \notin N, Mid(s, N), NEW K, NEW R, Telling(s, K, R)
    PROVE  LET r == AllCombos(s, k, FALSE) IN
           /\ Core(r.st, M, k) /\ Mid(r.st, N) /\ Telling(r.st, K, R) /\ Stays(s, r.st, k)
           /\ ~r.is_combo_key => /\ r.st.reported = s.reported /\ r.st.key_buffer = s.key_buffer
                                 /\ Spared(r.st, k) /\ \A d \in Combo : ~Held(s, d, k)
<1>. DEFINE Rep(t) == \A d \in Combo :
                [combo |-> d] \in s.reported /\ k \notin KeysOf(d) => [combo |-> d] \in t.reported
            Good(r, n) ==
              /\ Core(r.st, M, k) /\ Fulls(r.st)
              /\ Mid(r.st, N) /\ Telling(r.st, K, R) /\ Stays(s, r.st, k) /\ Rep(r.st)
              /\ ~r.is_combo_key => Passes(s, r.st, k, n)
<1>1. s \in State /\ Plain(s)
    BY DEF Core, Mid
<1>2. COMBOS \in Nat /\ Combo = 1..COMBOS
    BY ComboAssumption DEF Combo
<1>3. PICK f \in [0..COMBOS -> Result] :
              /\ f[0] = [st |-> s, is_combo_key |-> FALSE]
              /\ \A c \in Combo : f[c] = process_single_combo(f[c - 1], c, k, FALSE)
              /\ AllCombos(s, k, FALSE) = f[COMBOS]
  <2>1. \A pressed \in BOOLEAN : \E f \in [0..COMBOS -> Result] :
              /\ f[0] = [st |-> s, is_combo_key |-> FALSE]
              /\ \A c \in Combo : f[c] = process_single_combo(f[c - 1], c, k, pressed)
              /\ AllCombos(s, k, pressed) = f[COMBOS]
      BY <1>1, CombosLoop
  <2>2. FALSE \in BOOLEAN
      OBVIOUS
  <2>. QED BY <2>1, <2>2, Zenon
<1>. DEFINE S == {n \in 0..COMBOS : Good(f[n], n)}
<1>4. 0 \in S
  <2>1. f[0].st = s /\ ~f[0].is_combo_key
      BY <1>3
  <2>2. 0 \in 0..COMBOS /\ \A d \in Combo : ~(d <= 0)
      BY <1>2
  <2>3. Stays(s, s, k)
      BY DEF Stays, Waits
  <2>4. Passes(s, s, k, 0)
      BY <2>2 DEF Passes
  <2>. QED BY <2>1, <2>2, <2>3, <2>4
<1>5. ASSUME NEW c \in 1..COMBOS, c - 1 \in S PROVE c \in S
  <2>. DEFINE r == f[c - 1]
              t == ReleaseInCombo(r.st, c, k)
              w == r.is_combo_key \/ Swallowed(r.st, c, k)
  <2>1. /\ c \in Combo /\ c \in 0..COMBOS /\ \A d \in Combo : d <= c => d <= c - 1 \/ d = c
        /\ \A d \in Combo : ~(d <= c) => ~(d <= c - 1) /\ d # c
        /\ ~(c <= c - 1)
      BY <1>2
  <2>2. Good(r, c - 1)
      BY <1>5
  <2>3. f[c] = process_single_combo(r, c, k, FALSE)
      BY <1>3, <2>1
  <2>. HIDE DEF r
  <2>4. CASE k \notin KeysOf(c)
    <3>1. f[c] = r
        BY <2>3, <2>4 DEF process_single_combo
    <3>2. Passes(s, r.st, k, c - 1) => Passes(s, r.st, k, c)
        BY <2>1, <2>4 DEF Passes
    <3>. HIDE DEF Rep
    <3>. QED BY <3>1, <3>2, <2>1, <2>2
  <2>5. CASE k \in KeysOf(c)
    <3>1. f[c] = [st |-> t, is_combo_key |-> w]
        BY <2>3, <2>5 DEF process_single_combo
    <3>2. Core(t, M, k) /\ Fulls(t)
      <4>1. Plain(r.st)
          BY <2>2 DEF Mid
      <4>. QED BY <4>1, <2>1, <2>2, <2>5, ReleaseKeeps
    <3>3. /\ Mid(t, N) /\ Telling(t, K, R) /\ Stays(r.st, t, k)
          /\ \A d \in Combo : [combo |-> d] \in r.st.reported /\ k \notin KeysOf(d) => [combo |-> d] \in t.reported
        BY <2>1, <2>2, <2>5, ReleaseMid
    <3>4. Rep(t)
        BY <3>3, <2>2
    <3>5. Stays(s, t, k)
      <4>. SUFFICES ASSUME NEW d \in Range(s.combo_buffer), ~s.combo[d].disabled, ~must_wait(d)
                    PROVE  Waits(t, d) \/ ([combo |-> d] \in t.reported /\ k \notin KeysOf(d))
          BY DEF Stays
      <4>1. d \in Combo
          BY <1>1 DEF State, Ring, Range
      <4>2. Waits(r.st, d) \/ ([combo |-> d] \in r.st.reported /\ k \notin KeysOf(d))
          BY <2>2 DEF Stays
      <4>3. Waits(r.st, d) => Waits(t, d) \/ ([combo |-> d] \in t.reported /\ k \notin KeysOf(d))
          BY <3>3 DEF Stays, Waits
      <4>. QED BY <4>1, <4>2, <4>3, <3>3
    <3>6. ~w => Passes(s, t, k, c)
      <4>. SUFFICES ASSUME ~w PROVE Passes(s, t, k, c)
          OBVIOUS
      <4>1. ~r.is_combo_key /\ ~Swallowed(r.st, c, k)
          OBVIOUS
      <4>2. Passes(s, r.st, k, c - 1)
          BY <4>1, <2>2
      <4>3. FullRing(r.st)
          BY <4>2 DEF Passes
      <4>4. /\ t.reported = r.st.reported /\ t.key_buffer = r.st.key_buffer /\ t.enabled = r.st.enabled
            /\ Range(t.combo_buffer) \subseteq Range(r.st.combo_buffer) /\ FullRing(t)
            /\ \A d \in Combo : d # c => /\ t.combo[d].state = r.st.combo[d].state
                                         /\ t.combo[d].active = r.st.combo[d].active
                                         /\ t.combo[d].disabled = r.st.combo[d].disabled
            /\ c \in Range(t.combo_buffer) => t.combo[c].disabled
            /\ ~Held(r.st, c, k)
          BY <4>1, <4>3, <2>1, <2>2, <2>5, ReleasePasses
      <4>. HIDE DEF t
      <4>5. ~Held(s, c, k)
          BY <4>2, <4>4, <2>1 DEF Passes, Held
      <4>. QED BY <4>2, <4>4, <4>5, <2>1 DEF Passes
    <3>. HIDE DEF t, Rep
    <3>7. f[c].st = t /\ (~f[c].is_combo_key => ~w)
      <4>1. w \in BOOLEAN
          OBVIOUS
      <4>. HIDE DEF w
      <4>2. f[c].st = t /\ f[c].is_combo_key = w
          BY <3>1
      <4>. QED BY <4>2, Zenon
    <3>. HIDE DEF w
    <3>. QED BY <3>2, <3>3, <3>4, <3>5, <3>6, <3>7, <2>1
  <2>. QED BY <2>4, <2>5
<1>. HIDE DEF S
<1>6. COMBOS \in S
    BY <1>2, <1>4, <1>5, Induction
<1>7. \A d \in Combo : d <= COMBOS
    BY <1>2
<1>8. Good(f[COMBOS], COMBOS)
    BY <1>6 DEF S
<1>. DEFINE r == f[COMBOS]
<1>9. ASSUME ~r.is_combo_key
      PROVE  /\ r.st.reported = s.reported /\ r.st.key_buffer = s.key_buffer
             /\ Spared(r.st, k) /\ \A d \in Combo : ~Held(s, d, k)
  <2>1. Passes(s, r.st, k, COMBOS)
      BY <1>8, <1>9
  <2>2. Range(r.st.combo_buffer) \subseteq Combo
      BY <1>8 DEF Core, State, Ring, Range
  <2>. HIDE DEF r
  <2>3. Spared(r.st, k)
      BY <2>1, <2>2, <1>7 DEF Spared, Passes
  <2>4. ASSUME NEW d \in Combo PROVE ~Held(s, d, k)
    <3>1. CASE k \in KeysOf(d)
        BY <2>1, <3>1, <1>7 DEF Passes
    <3>2. CASE k \notin KeysOf(d)
        BY <3>2 DEF Core, Counted, Held
    <3>. QED BY <3>1, <3>2
  <2>. QED BY <2>1, <2>3, <2>4 DEF Passes
<1>. HIDE DEF Rep
<1>. QED BY <1>3, <1>8, <1>9

-----------------------------------------------------------------------------
(* What a step hands on, without the ticks.                                  *)

(* A key that one entry reports is reported by one event.                    *)
LEMMA OneEvent ==
    ASSUME NEW q \in Seq(Entry), NEW A, Tells(q, A), NEW k \in Key, k \in A
    PROVE  LET r == Events(q) IN Cardinality({i \in DOMAIN r : Reports(r[i], k)}) = 1
<1>. DEFINE r == Events(q)
            S == {i \in DOMAIN r : Reports(r[i], k)}
<1>1. PICK h : Picks(h, r, q, Len(q))
    BY EventsIs
<1>. HIDE DEF r
<1>2. /\ r \in Seq(Entry) /\ DOMAIN r = 1..Len(r) /\ Len(r) \in Nat
      /\ Len(q) \in Nat /\ DOMAIN q = 1..Len(q)
    BY <1>1 DEF Picks
<1>3. PICK m \in DOMAIN q : Reports(q[m], k)
    BY DEF Tells
<1>4. IsEvent(q[m])
  <2>1. q[m] \in Entry /\ q[m].pressed
      BY <1>3 DEF Reports
  <2>2. q[m].combo = NoCombo \/ q[m].combo \in Combo
      BY <2>1, <1>3, ReportsIs
  <2>3. NoCombo # TICK_EVENT /\ \A c \in Combo : c # TICK_EVENT
      BY ComboAssumption DEF NoCombo, TICK_EVENT, Combo
  <2>. QED BY <2>2, <2>3 DEF IsEvent
<1>5. PICK i \in DOMAIN r : h[i] = m
    BY <1>1, <1>2, <1>3, <1>4 DEF Picks
<1>6. i \in S
    BY <1>1, <1>2, <1>3, <1>5 DEF Picks
<1>7. ASSUME NEW j \in S PROVE j = i
  <2>1. h[j] \in DOMAIN q /\ Reports(q[h[j]], k)
      BY <1>1, <1>2 DEF Picks
  <2>2. h[j] = h[i]
      BY <2>1, <1>3, <1>5 DEF Tells
  <2>3. ~(i < j) /\ ~(j < i)
    <3>1. h[i] \in Nat /\ h[j] \in Nat /\ i \in 1..Len(r) /\ j \in 1..Len(r)
        BY <1>1, <1>2 DEF Picks
    <3>2. i < j => h[i] < h[j]
        BY <1>1, <3>1 DEF Picks
    <3>3. j < i => h[j] < h[i]
        BY <1>1, <3>1 DEF Picks
    <3>. QED BY <3>1, <3>2, <3>3, <2>2
  <2>4. i \in Nat /\ j \in Nat
      BY <1>2
  <2>. QED BY <2>3, <2>4
<1>8. S = {i}
    BY <1>6, <1>7
<1>9. Cardinality({i}) = 1
    BY FS_Singleton
<1>. QED BY <1>8, <1>9 DEF r

(* A release still has its press before it.                                  *)
LEMMA EventsBalanced ==
    ASSUME NEW s \in State, NEW R, Balanced(s, R)
    PROVE  LET r == Events(s.out) IN
           \A i \in DOMAIN r : ~r[i].pressed =>
              What(r[i]) \in R \/ \E j \in 1..(i - 1) : r[j].pressed /\ What(r[j]) = What(r[i])
<1>. DEFINE q == s.out
            r == Events(q)
<1>1. q \in Seq(Entry)
    BY DEF State
<1>2. PICK h : Picks(h, r, q, Len(q))
    BY <1>1, EventsIs
<1>. HIDE DEF r
<1>3. /\ r \in Seq(Entry) /\ DOMAIN r = 1..Len(r) /\ Len(r) \in Nat
      /\ Len(q) \in Nat /\ DOMAIN q = 1..Len(q)
    BY <1>1, <1>2 DEF Picks
<1>4. ASSUME NEW i \in DOMAIN r, ~r[i].pressed, What(r[i]) \notin R
      PROVE  \E j \in 1..(i - 1) : r[j].pressed /\ What(r[j]) = What(r[i])
  <2>1. h[i] \in DOMAIN q /\ r[i] = q[h[i]]
      BY <1>2, <1>3 DEF Picks
  <2>2. PICK m \in 1..(h[i] - 1) : PressOf(q[m], What(q[h[i]]))
      BY <2>1, <1>4 DEF Balanced
  <2>3. m \in DOMAIN q /\ m < h[i] /\ m \in Nat /\ h[i] \in Nat
      BY <1>3, <2>1
  <2>4. PICK j \in 1..Len(r) : h[j] = m
      BY <1>2, <1>3, <2>2, <2>3 DEF Picks, PressOf
  <2>5. r[j] = q[m]
      BY <1>2, <2>4 DEF Picks
  <2>6. j < i
    <3>1. i < j => h[i] < h[j]
        BY <1>2, <1>3, <2>4 DEF Picks
    <3>2. i # j
        BY <2>3, <2>4
    <3>3. i \in Nat /\ j \in Nat
        BY <1>3
    <3>. QED BY <3>1, <3>2, <3>3, <2>3, <2>4
  <2>7. j \in 1..(i - 1)
      BY <1>3, <2>6
  <2>. QED BY <2>1, <2>2, <2>5, <2>7 DEF PressOf
<1>. QED BY <1>4 DEF r

(* The properties of a step that ends in x.                                  *)
LEMMA StepTells ==
    ASSUME NEW x \in State, Done(x), NEW A, Tells(x.out, A), A \subseteq Key,
           NEW K, K \subseteq KeptKeys(x) \cup A
    PROVE  \A k \in K : k \in Kept' \/ ReportedOnce(k)'
<1>1. st'.key_buffer = x.key_buffer /\ out' = Events(x.out) /\ x.out \in Seq(Entry)
    BY DoneIs DEF State
<1>2. Kept' = KeptKeys(x)
    BY <1>1 DEF Kept, KeptKeys
<1>3. ASSUME NEW k \in A PROVE ReportedOnce(k)'
  <2>1. Cardinality({i \in DOMAIN out' : Reports(out'[i], k)}) = 1
      BY <1>1, OneEvent
  <2>. QED BY <2>1 DEF ReportedOnce, Reports, What
<1>. QED BY <1>2, <1>3

LEMMA StepBalanced ==
    ASSUME NEW x \in State, Done(x), Balanced(x, reported)
    PROVE  \A i \in DOMAIN out' : ~out'[i].pressed => PressedBefore(i)
<1>1. out' = Events(x.out)
    BY DoneIs
<1>. QED BY <1>1, EventsBalanced DEF PressedBefore

-----------------------------------------------------------------------------
(* Between two steps, with Rest: the combos of the ring are complete, share  *)
(* no key and may come; nothing else counts a key that is not kept; and of   *)
(* what is down nothing was lost.                                            *)
Neat(s, M) ==
    /\ \A c \in Range(s.combo_buffer) : ~s.combo[c].disabled /\ Full(s, c)
    /\ Apart(Range(s.combo_buffer))
    /\ \A c \in Combo : IF s.combo[c].active THEN [combo |-> c] \in s.reported
                                             ELSE s.combo[c].state \subseteq KeptKeys(s)
    /\ s.combo_buffer # <<>> => s.enabled
    /\ \A k \in KeptKeys(s) : \E c \in Combo : k \in KeysOf(c)
    /\ RELEASE_EARLY = {} => Owed(s, M)

LEMMA NeatMid ==
    ASSUME NEW M, NEW s, Rest(s, M), Neat(s, M), NEW N, N \subseteq M
    PROVE  Mid(s, N) /\ FullRing(s)
<1>. DEFINE Q == Range(s.combo_buffer)
<1>1. s \in State /\ Plain(s) /\ Q \subseteq Combo
    BY DEF Rest, State, Ring, Range
<1>2. Alone(s) = KeptKeys(s) /\ \A d \in Combo : ~Taker(s, d)
    BY <1>1, PlainIs
<1>3. \A i \in DOMAIN s.key_buffer : s.key_buffer[i].combo \notin Combo /\ s.key_buffer[i].pressed
  <2>1. NoCombo \notin Combo
      BY ComboAssumption DEF NoCombo, Combo
  <2>. QED BY <1>1, <2>1 DEF Plain
<1>4. Accounts(s, Q)
    BY <1>1, <1>2, <1>3 DEF Accounts
<1>5. \A c \in Q : /\ KeysOf(c) \subseteq KeptKeys(s) /\ ~s.combo[c].disabled
                   /\ s.combo[c].state = KeysOf(c)
    BY <1>1 DEF Neat, Full
<1>6. Working(s, Q, N)
    BY <1>1, <1>2, <1>4, <1>5 DEF Working, Neat
<1>7. Owed(s, M) => Owed(s, N)
    BY DEF Owed
<1>. QED BY <1>1, <1>6, <1>7 DEF Mid, FullRing, Neat

(* With nothing kept it is so.                                               *)
LEMMA FlushedNeat ==
    ASSUME NEW s, NEW t, NEW N, Flushed(s, t, N), RELEASE_EARLY = {} => Owed(s, N)
    PROVE  Neat(t, N) /\ KeptKeys(t) = {}
<1>1. t.key_buffer = <<>> /\ t.combo_buffer = <<>>
    BY DEF Flushed
<1>2. KeptKeys(t) = {} /\ Range(t.combo_buffer) = {}
    BY <1>1 DEF KeptKeys, Range
<1>3. ASSUME NEW c \in Combo
      PROVE  IF t.combo[c].active THEN [combo |-> c] \in t.reported ELSE t.combo[c].state = {}
  <2>1. CASE t.combo[c].active
      BY <2>1 DEF Flushed
  <2>2. CASE ~t.combo[c].active
    <3>1. t.combo[c] = Fresh
        BY <2>2 DEF Flushed
    <3>. QED BY <2>2, <3>1 DEF Fresh
  <2>. QED BY <2>1, <2>2
<1>4. RELEASE_EARLY = {} => Owed(t, N)
    BY FlushedMid DEF Mid
<1>. QED BY <1>1, <1>2, <1>3, <1>4 DEF Neat, Apart

LEMMA SendsKey ==
    ASSUME NEW s \in State, NEW k \in Key
    PROVE  LET p == Send(s, Record(k, NoCombo, TRUE))
               r == Send(s, Record(k, NoCombo, FALSE)) IN
           /\ Sent(s, p) /\ p.combo = s.combo /\ p.key_buffer = s.key_buffer
           /\ p.reported = s.reported \cup {[key |-> k]}
           /\ Sent(s, r) /\ r.combo = s.combo /\ r.key_buffer = s.key_buffer
           /\ r.reported = s.reported \ {[key |-> k]}
<1>1. \A pressed \in BOOLEAN :
        LET u == Send(s, Record(k, NoCombo, pressed)) IN
        /\ Sent(s, u) /\ u.combo = s.combo /\ u.key_buffer = s.key_buffer
        /\ pressed => u.reported = s.reported \cup {[key |-> k]}
        /\ ~pressed => u.reported = s.reported \ {[key |-> k]}
  <2>1. NoCombo \in Combo \cup {NoCombo}
      OBVIOUS
  <2>. QED BY <2>1, Sends
<1>2. TRUE \in BOOLEAN /\ FALSE \in BOOLEAN
    OBVIOUS
<1>. QED BY <1>1, <1>2, Zenon

LEMMA SendsPress ==
    ASSUME NEW s \in State, NEW M, Neat(s, M), NEW K, NEW R, Telling(s, K, R), NEW k \in Key, k \notin K
    PROVE  LET t == Send(s, Record(k, NoCombo, TRUE)) IN
           /\ t \in State /\ Neat(t, M \cup {k}) /\ KeptKeys(t) = KeptKeys(s)
           /\ t.combo = s.combo /\ t.combo_buffer = s.combo_buffer
           /\ t.enabled = s.enabled /\ t.reported = s.reported \cup {[key |-> k]}
           /\ Tells(t.out, (K \ KeptKeys(s)) \cup {k}) /\ Balanced(t, R)
<1>. DEFINE e == Record(k, NoCombo, TRUE)
            t == Send(s, e)
            q == s.out
<1>1. e \in Entry /\ e.pressed /\ e.combo = NoCombo /\ e.key = k /\ IsEvent(e)
    BY ComboAssumption DEF Record, Entry, NoCombo, IsEvent, TICK_EVENT
<1>2. What(e) = [key |-> k]
    BY <1>1 DEF What
<1>3. /\ Sent(s, t) /\ t.combo = s.combo /\ t.key_buffer = s.key_buffer
      /\ t.reported = s.reported \cup {[key |-> k]}
    BY SendsKey
<1>4. t.out = Append(q, e) /\ q \in Seq(Entry)
    BY SendsOut DEF State
<1>. HIDE DEF t, e
<1>5. /\ Len(q) \in Nat /\ DOMAIN q = 1..Len(q) /\ DOMAIN t.out = 1..(Len(q) + 1)
      /\ t.out[Len(q) + 1] = e /\ \A i \in DOMAIN q : t.out[i] = q[i]
    BY <1>1, <1>4, AppendIs
<1>6. Tells(t.out, (K \ KeptKeys(s)) \cup {k})
    BY <1>4, TellsPress DEF Telling, e
<1>7. KeptKeys(t) = KeptKeys(s)
    BY <1>3 DEF KeptKeys
<1>8. Neat(t, M \cup {k})
  <2>1. Owed(s, M) => Owed(t, M \cup {k})
      BY <1>3, <1>7 DEF Owed
  <2>2. \A c \in Combo : Full(s, c) => Full(t, c)
      BY <1>3 DEF Full
  <2>3. t.combo_buffer = s.combo_buffer /\ t.enabled = s.enabled /\ Range(s.combo_buffer) \subseteq Combo
      BY <1>3 DEF Sent, State, Ring, Range
  <2>. QED BY <1>3, <1>7, <2>1, <2>2, <2>3 DEF Neat
<1>9. Balanced(t, R)
  <2>1. Balanced(s, R)
      BY DEF Telling
  <2>2. Len(q) + 1 \in DOMAIN t.out /\ \A i \in DOMAIN q : i \in DOMAIN t.out
      BY <1>5
  <2>3. ASSUME NEW w \in t.reported PROVE w \in R \/ \E j \in DOMAIN t.out : PressOf(t.out[j], w)
    <3>1. CASE w \in s.reported
        BY <3>1, <2>1, <2>2, <1>5 DEF Balanced
    <3>2. CASE w = [key |-> k]
        BY <3>2, <2>2, <1>1, <1>2, <1>5 DEF PressOf
    <3>. QED BY <3>1, <3>2, <1>3
  <2>4. ASSUME NEW i \in DOMAIN t.out, ~t.out[i].pressed
        PROVE  What(t.out[i]) \in R \/ \E j \in 1..(i - 1) : PressOf(t.out[j], What(t.out[i]))
    <3>1. i \in DOMAIN q
        BY <2>4, <1>1, <1>5
    <3>2. t.out[i] = q[i] /\ \A j \in 1..(i - 1) : j \in DOMAIN q
        BY <3>1, <1>5
    <3>. QED BY <2>1, <2>4, <3>1, <3>2, <1>5 DEF Balanced
  <2>. QED BY <2>3, <2>4 DEF Balanced
<1>. QED BY <1>3, <1>6, <1>7, <1>8, <1>9 DEF t, e, Sent

LEMMA SendsRelease ==
    ASSUME NEW s \in State, NEW M, Neat(s, M), NEW K, NEW R, Telling(s, K, R), NEW k \in Key, k \notin M
    PROVE  LET t == Send(s, Record(k, NoCombo, FALSE)) IN
           /\ t \in State /\ Neat(t, M) /\ KeptKeys(t) = KeptKeys(s)
           /\ t.combo = s.combo /\ t.combo_buffer = s.combo_buffer
           /\ t.enabled = s.enabled /\ t.reported = s.reported \ {[key |-> k]}
           /\ Tells(t.out, K \ KeptKeys(s)) /\ ([key |-> k] \in s.reported => Balanced(t, R))
<1>. DEFINE e == Record(k, NoCombo, FALSE)
            t == Send(s, e)
            q == s.out
<1>1. e \in Entry /\ ~e.pressed /\ e.combo = NoCombo /\ e.key = k
    BY ComboAssumption DEF Record, Entry, NoCombo
<1>2. What(e) = [key |-> k]
    BY <1>1 DEF What
<1>3. /\ Sent(s, t) /\ t.combo = s.combo /\ t.key_buffer = s.key_buffer
      /\ t.reported = s.reported \ {[key |-> k]}
    BY SendsKey
<1>4. t.out = Append(q, e) /\ q \in Seq(Entry)
    BY SendsOut DEF State
<1>. HIDE DEF t, e
<1>5. Tells(t.out, K \ KeptKeys(s))
    BY <1>1, <1>4, TellsRelease DEF Telling
<1>6. [key |-> k] \in s.reported => Balanced(t, R)
    BY <1>1, <1>2, <1>3, <1>4, BalancedRelease DEF Telling
<1>7. KeptKeys(t) = KeptKeys(s)
    BY <1>3 DEF KeptKeys
<1>8. Neat(t, M)
  <2>1. Owed(s, M) => Owed(t, M)
    <3>1. \A j \in M : [key |-> j] # [key |-> k]
        BY KeyIsNoCombo
    <3>. QED BY <3>1, <1>3, <1>7 DEF Owed
  <2>2. \A c \in Combo : Full(s, c) => Full(t, c)
      BY <1>3 DEF Full
  <2>3. t.combo_buffer = s.combo_buffer /\ t.enabled = s.enabled /\ Range(s.combo_buffer) \subseteq Combo
      BY <1>3 DEF Sent, State, Ring, Range
  <2>4. \A c \in Combo : [combo |-> c] \in s.reported => [combo |-> c] \in t.reported
      BY <1>3, KeyIsNoCombo
  <2>. QED BY <1>3, <1>7, <2>1, <2>2, <2>3, <2>4 DEF Neat
<1>. QED BY <1>3, <1>5, <1>6, <1>7, <1>8 DEF t, e, Sent

-----------------------------------------------------------------------------
(* The properties, of one step.                                              *)
OnceStep == \A k \in Kept \cup (matrix' \ matrix) : k \in Kept' \/ ReportedOnce(k)'
PairStep == \A i \in DOMAIN out' : ~out'[i].pressed => PressedBefore(i)
FireStep == \A c \in Combo : Ready(c) /\ ~Ready(c)' =>
                \/ [combo |-> c] \in reported'
                \/ \E b \in Range(st.combo_buffer') : Overlaps(b, c) /\ Len(Keys[b]) >= Len(Keys[c])
                \/ c \in MUST_HOLD \cup MUST_TAP
                \/ ~st.enabled'

(* A step that ends in x: what was ready still is, or was reported, or gave  *)
(* way.                                                                      *)
Fires(x) ==
    \A c \in Range(st.combo_buffer) : ~st.combo[c].disabled /\ ~must_wait(c) =>
        \/ Waits(x, c) \/ [combo |-> c] \in x.reported \/ ~x.enabled
        \/ \E b \in Range(x.combo_buffer) : Overlaps(b, c) /\ Len(Keys[b]) >= Len(Keys[c])

LEMMA StepFires ==
    ASSUME NEW x \in State, Done(x), Fires(x)
    PROVE  FireStep
<1>1. /\ st'.combo = x.combo /\ st'.combo_buffer = x.combo_buffer /\ st'.reported = x.reported
      /\ st'.enabled = x.enabled
    BY DoneIs
<1>2. ASSUME NEW c \in Combo, Ready(c), ~Ready(c)', ~must_wait(c)
      PROVE  \/ [combo |-> c] \in reported' \/ ~st.enabled'
             \/ \E b \in Range(st.combo_buffer') : Overlaps(b, c) /\ Len(Keys[b]) >= Len(Keys[c])
  <2>1. c \in Range(st.combo_buffer) /\ ~st.combo[c].disabled
      BY <1>2 DEF Ready
  <2>2. ~Waits(x, c)
      BY <1>1, <1>2 DEF Ready, Waits
  <2>3. reported' = x.reported /\ st.enabled' = x.enabled /\ st.combo_buffer' = x.combo_buffer
      BY <1>1 DEF reported
  <2>. QED BY <1>2, <2>1, <2>2, <2>3 DEF Fires
<1>. QED BY <1>2 DEF FireStep, must_wait

LEMMA StepNeat ==
    ASSUME NEW x \in State, Done(x), NEW M, Neat(x, M)
    PROVE  Neat(st', M)
<1>1. /\ st'.combo = x.combo /\ st'.combo_buffer = x.combo_buffer /\ st'.reported = x.reported
      /\ st'.enabled = x.enabled /\ st'.key_buffer = x.key_buffer
    BY DoneIs
<1>2. KeptKeys(st') = KeptKeys(x) /\ \A c \in Combo : Full(x, c) => Full(st', c)
    BY <1>1 DEF KeptKeys, Full
<1>3. Owed(x, M) => Owed(st', M)
    BY <1>1, <1>2 DEF Owed
<1>4. Range(x.combo_buffer) \subseteq Combo
    BY DEF State, Ring, Range
<1>. QED BY <1>1, <1>2, <1>3, <1>4 DEF Neat

(* When a step begins nothing was handed on.                                 *)
LEMMA BeginTelling ==
    ASSUME NEW s \in State, s.out = <<>>
    PROVE  Telling(s, KeptKeys(s), s.reported)
<1>1. DOMAIN s.out = {}
    OBVIOUS
<1>2. Tells(s.out, KeptKeys(s) \ KeptKeys(s)) /\ Balanced(s, s.reported)
    BY <1>1 DEF Tells, Balanced
<1>. QED BY <1>2 DEF Telling

(* After all was handed on.                                                  *)
LEMMA FlushedFires ==
    ASSUME NEW s, NEW x, NEW N, Flushed(s, x, N), s \in State,
           NEW d \in Combo, Waits(s, d), ~must_wait(d)
    PROVE  [combo |-> d] \in x.reported
BY DEF Flushed, Waits, must_wait

LEMMA FlushedReports ==
    ASSUME NEW s, NEW x, NEW N, Flushed(s, x, N)
    PROVE  s.reported \subseteq x.reported
BY DEF Flushed, HandsOn

-----------------------------------------------------------------------------
(* The release of a key.                                                     *)
LEMMA ReleaseStep ==
    ASSUME TwoKeys, HoldMeetsAll, AnyOrder, TInv, Rest(st, matrix), Neat(st, matrix),
           NEW k \in Key, k \in matrix, matrix' = matrix \ {k}, HandOn(k, FALSE)
    PROVE  Neat(st', matrix') /\ OnceStep /\ FireStep /\ (RELEASE_EARLY = {} => PairStep)
<1>. DEFINE r == AllCombos(st, k, FALSE)
            N == matrix \ {k}
            K == KeptKeys(st)
            R == st.reported
            s == Settled(r.st)
            e == Record(k, NoCombo, FALSE)
            x == IF r.is_combo_key THEN s ELSE Send(s, e)
<1>1. st \in State /\ st.out = <<>> /\ Plain(st) /\ matrix \subseteq Key
    BY DEF TInv
<1>2. Core(st, matrix, k) /\ Fulls(st)
    BY RestCore DEF Rest
<1>3. k \notin N /\ N \subseteq matrix
    OBVIOUS
<1>4. Mid(st, N) /\ FullRing(st)
  <2>. HIDE DEF N
  <2>. QED BY <1>3, NeatMid
<1>5. Telling(st, K, R)
    BY <1>1, BeginTelling
<1>6. Done(x)
    BY DEF HandOn
<1>7. Kept = K /\ reported = R /\ K \subseteq Key
  <2>1. K \subseteq matrix
      BY DEF Rest, KeysDown
  <2>. QED BY <1>1, <2>1 DEF Kept, KeptKeys, reported
<1>8. matrix' = N /\ matrix' \ matrix = {}
    OBVIOUS
<1>. HIDE DEF N, K, R
<1>9. /\ Core(r.st, matrix, k) /\ Mid(r.st, N) /\ Telling(r.st, K, R) /\ Stays(st, r.st, k)
      /\ ~r.is_combo_key => /\ r.st.reported = st.reported /\ r.st.key_buffer = st.key_buffer
                            /\ Spared(r.st, k) /\ \A d \in Combo : ~Held(st, d, k)
    BY <1>2, <1>3, <1>4, <1>5, ReleasesMid
<1>10. r \in Result
  <2>1. \A b \in BOOLEAN : AllCombos(st, k, b) \in Result
      BY <1>1, AllCombosType
  <2>. QED BY <2>1
<1>. HIDE DEF r
<1>11. r.st \in State /\ r.is_combo_key \in BOOLEAN
    BY <1>10 DEF Result
<1>12. s \in State /\ Flushed(r.st, s, N)
  <2>1. Working(r.st, Range(r.st.combo_buffer), N)
      BY <1>9 DEF Mid
  <2>. QED BY <2>1, <1>9, <1>11, AppliesFlush, SettledIs
<1>. HIDE DEF s
<1>13. Neat(s, N) /\ KeptKeys(s) = {}
  <2>1. RELEASE_EARLY = {} => Owed(r.st, N)
      BY <1>9 DEF Mid
  <2>. QED BY <2>1, <1>12, FlushedNeat
<1>14. Telling(s, K, R)
    BY <1>9, <1>11, <1>12, FlushedTells
<1>15. ASSUME ~r.is_combo_key, RELEASE_EARLY = {} PROVE [key |-> k] \in s.reported
  <2>1. Owed(st, matrix)
      BY <1>15 DEF Neat
  <2>2. k \in KeptKeys(st) \/ [key |-> k] \in st.reported
      BY <2>1, <1>9, <1>15 DEF Owed, Held
  <2>3. CASE k \in KeptKeys(st)
    <3>1. k \in KeptKeys(r.st)
        BY <2>3, <1>9, <1>15 DEF KeptKeys
    <3>2. k \in Alone(r.st)
        BY <3>1, <1>9, PlainIs DEF Mid
    <3>. QED BY <3>2, <1>9, <1>12, <1>15 DEF Flushed
  <2>4. CASE [key |-> k] \in st.reported
      BY <2>4, <1>9, <1>12, <1>15, FlushedReports
  <2>. QED BY <2>2, <2>3, <2>4
<1>16. /\ x \in State /\ Neat(x, N) /\ Tells(x.out, K)
       /\ RELEASE_EARLY = {} => Balanced(x, R)
       /\ \A d \in Combo : [combo |-> d] \in s.reported => [combo |-> d] \in x.reported
  <2>1. K \ KeptKeys(s) = K
      BY <1>13
  <2>2. CASE r.is_combo_key
      BY <2>1, <2>2, <1>12, <1>13, <1>14 DEF Telling
  <2>3. CASE ~r.is_combo_key
    <3>1. x = Send(s, e)
        BY <2>3
    <3>2. /\ Send(s, e) \in State /\ Neat(Send(s, e), N) /\ Tells(Send(s, e).out, K)
          /\ [key |-> k] \in s.reported => Balanced(Send(s, e), R)
          /\ Send(s, e).reported = s.reported \ {[key |-> k]}
      <4>1. /\ Send(s, e) \in State /\ Neat(Send(s, e), N) /\ Tells(Send(s, e).out, K \ KeptKeys(s))
            /\ [key |-> k] \in s.reported => Balanced(Send(s, e), R)
            /\ Send(s, e).reported = s.reported \ {[key |-> k]}
        <5>. HIDE DEF x
        <5>. QED BY <1>3, <1>12, <1>13, <1>14, SendsRelease, Zenon
      <4>. QED BY <4>1, <2>1
    <3>. HIDE DEF x, e
    <3>3. \A d \in Combo : [combo |-> d] # [key |-> k]
        BY KeyIsNoCombo
    <3>. QED BY <3>1, <3>2, <3>3, <2>3, <1>15
  <2>. QED BY <2>2, <2>3
<1>. HIDE DEF x
<1>17. Fires(x)
  <2>1. ASSUME NEW d \in Range(st.combo_buffer), ~st.combo[d].disabled, ~must_wait(d)
        PROVE  [combo |-> d] \in x.reported
    <3>1. d \in Combo
        BY <1>1 DEF State, Ring, Range
    <3>2. Waits(r.st, d) \/ [combo |-> d] \in r.st.reported
        BY <2>1, <1>9 DEF Stays
    <3>3. [combo |-> d] \in s.reported
        BY <3>1, <3>2, <2>1, <1>11, <1>12, FlushedFires, FlushedReports
    <3>. QED BY <3>1, <3>3, <1>16
  <2>. QED BY <2>1 DEF Fires
<1>18. Neat(st', matrix')
    BY <1>6, <1>8, <1>16, StepNeat
<1>19. OnceStep
  <2>1. \A j \in K : j \in Kept' \/ ReportedOnce(j)'
      BY <1>6, <1>7, <1>16, StepTells
  <2>. QED BY <2>1, <1>7, <1>8 DEF OnceStep
<1>20. RELEASE_EARLY = {} => PairStep
    BY <1>6, <1>7, <1>16, StepBalanced DEF PairStep
<1>. QED BY <1>6, <1>16, <1>17, <1>18, <1>19, <1>20, StepFires

-----------------------------------------------------------------------------
(* The press of a key that no combo wants, or of all combos.                 *)
LEMMA PressPasses ==
    ASSUME NEW M, NEW s, Rest(s, M), NEW k \in Key, k \notin M
    PROVE  LET r == AllCombos(s, k, TRUE) IN r \in Result /\ (~r.is_combo_key => r.st = s)
<1>1. s \in State /\ Plain(s)
    BY DEF Rest
<1>2. COMBOS \in Nat /\ Combo = 1..COMBOS
    BY ComboAssumption DEF Combo
<1>3. PICK f \in [0..COMBOS -> Result] :
              /\ f[0] = [st |-> s, is_combo_key |-> FALSE]
              /\ \A c \in Combo : f[c] = process_single_combo(f[c - 1], c, k, TRUE)
              /\ AllCombos(s, k, TRUE) = f[COMBOS]
  <2>1. \A pressed \in BOOLEAN : \E f \in [0..COMBOS -> Result] :
              /\ f[0] = [st |-> s, is_combo_key |-> FALSE]
              /\ \A c \in Combo : f[c] = process_single_combo(f[c - 1], c, k, pressed)
              /\ AllCombos(s, k, pressed) = f[COMBOS]
      BY <1>1, CombosLoop
  <2>2. TRUE \in BOOLEAN
      OBVIOUS
  <2>. QED BY <2>1, <2>2, Zenon
<1>. DEFINE S == {n \in 0..COMBOS : ~f[n].is_combo_key => f[n].st = s}
<1>4. 0 \in S
  <2>1. f[0].st = s
      BY <1>3
  <2>. QED BY <2>1, <1>2
<1>5. ASSUME NEW c \in 1..COMBOS, c - 1 \in S PROVE c \in S
  <2>. DEFINE r == f[c - 1]
  <2>1. c \in Combo /\ c \in 0..COMBOS
      BY <1>2
  <2>2. ~r.is_combo_key => r.st = s
      BY <1>5
  <2>3. f[c] = process_single_combo(r, c, k, TRUE)
      BY <1>3, <2>1
  <2>. HIDE DEF r
  <2>4. CASE k \notin KeysOf(c)
      BY <2>1, <2>2, <2>3, <2>4 DEF process_single_combo
  <2>5. CASE k \in KeysOf(c) /\ IsPart(r.st, c, k)
    <3>1. f[c] = [st |-> PressInCombo(r.st, c, k), is_combo_key |-> TRUE]
        BY <2>3, <2>5 DEF process_single_combo
    <3>. QED BY <3>1, <2>1
  <2>6. CASE k \in KeysOf(c) /\ ~IsPart(r.st, c, k)
    <3>. DEFINE t == ReleaseInCombo(r.st, c, k)
                w == r.is_combo_key \/ Swallowed(r.st, c, k)
    <3>1. f[c] = [st |-> t, is_combo_key |-> w]
        BY <2>3, <2>6 DEF process_single_combo
    <3>2. r.st = s => t = s
      <4>1. k \notin s.combo[c].state
          BY <2>1 DEF Rest, Counted
      <4>. QED BY <4>1, <1>1, <2>1, <2>6, NothingToForget
    <3>3. w \in BOOLEAN /\ (~w => ~r.is_combo_key)
        OBVIOUS
    <3>. HIDE DEF t, w
    <3>. QED BY <3>1, <3>2, <3>3, <2>1, <2>2
  <2>. QED BY <2>4, <2>5, <2>6
<1>. HIDE DEF S
<1>6. COMBOS \in S
    BY <1>2, <1>4, <1>5, Induction
<1>7. COMBOS \in 0..COMBOS
    BY <1>2
<1>. QED BY <1>3, <1>6, <1>7 DEF S

(* It is handed on behind all that was kept.                                 *)
LEMMA PassedStep ==
    ASSUME TwoKeys, TInv, Rest(st, matrix), Neat(st, matrix),
           NEW k \in Key, k \notin matrix, matrix' = matrix \cup {k}, HandOn(k, TRUE)
    PROVE  Neat(st', matrix') /\ OnceStep /\ FireStep /\ PairStep
<1>. DEFINE r == AllCombos(st, k, TRUE)
            K == KeptKeys(st)
            R == st.reported
            s == Settled(st)
            x == Send(s, Record(k, NoCombo, TRUE))
<1>1. st \in State /\ st.out = <<>> /\ Plain(st) /\ matrix \subseteq Key
    BY DEF TInv
<1>2. Core(st, matrix, k)
    BY RestCore
<1>3. Mid(st, matrix)
    BY NeatMid
<1>4. Telling(st, K, R)
    BY <1>1, BeginTelling
<1>5. Done(x)
  <2>1. ~r.is_combo_key /\ Done(Send(Settled(r.st), Record(k, NoCombo, TRUE)))
      BY DEF HandOn
  <2>2. r.st = st
      BY <2>1, PressPasses
  <2>. QED BY <2>1, <2>2
<1>6. Kept = K /\ reported = R /\ K \subseteq Key /\ k \notin K
  <2>1. K \subseteq matrix
      BY DEF Rest, KeysDown
  <2>. QED BY <1>1, <2>1 DEF Kept, KeptKeys, reported
<1>7. matrix' \ matrix = {k}
    OBVIOUS
<1>. HIDE DEF K, R
<1>8. s \in State /\ Flushed(st, s, matrix)
  <2>1. Working(st, Range(st.combo_buffer), matrix)
      BY <1>3 DEF Mid
  <2>. QED BY <2>1, <1>1, <1>2, AppliesFlush, SettledIs
<1>. HIDE DEF s
<1>9. Neat(s, matrix) /\ KeptKeys(s) = {}
    BY <1>3, <1>8, FlushedNeat DEF Mid
<1>10. Telling(s, K, R)
    BY <1>1, <1>4, <1>8, FlushedTells
<1>11. /\ x \in State /\ Neat(x, matrix \cup {k}) /\ Tells(x.out, (K \ KeptKeys(s)) \cup {k})
       /\ Balanced(x, R) /\ x.reported = s.reported \cup {[key |-> k]}
    BY <1>6, <1>8, <1>9, <1>10, SendsPress
<1>. HIDE DEF x
<1>12. Tells(x.out, K \cup {k}) /\ K \cup {k} \subseteq Key
  <2>1. (K \ KeptKeys(s)) \cup {k} = K \cup {k}
      BY <1>9
  <2>. QED BY <2>1, <1>6, <1>11
<1>13. Fires(x)
  <2>1. ASSUME NEW d \in Range(st.combo_buffer), ~st.combo[d].disabled, ~must_wait(d)
        PROVE  [combo |-> d] \in x.reported
    <3>1. d \in Combo
        BY <1>1 DEF State, Ring, Range
    <3>2. [combo |-> d] \in s.reported
        BY <3>1, <2>1, <1>1, <1>8, FlushedFires DEF Waits
    <3>. QED BY <3>2, <1>11
  <2>. QED BY <2>1 DEF Fires
<1>14. Neat(st', matrix')
    BY <1>5, <1>11, StepNeat
<1>15. OnceStep
  <2>1. \A j \in K \cup {k} : j \in Kept' \/ ReportedOnce(j)'
      BY <1>5, <1>11, <1>12, StepTells
  <2>. QED BY <2>1, <1>6, <1>7 DEF OnceStep
<1>16. PairStep
    BY <1>5, <1>6, <1>11, StepBalanced DEF PairStep
<1>. QED BY <1>5, <1>11, <1>13, <1>14, <1>15, <1>16, StepFires

(* Time is up: all that is kept is handed on.                                *)
LEMMA TaskStep ==
    ASSUME TwoKeys, TInv, Rest(st, matrix), Neat(st, matrix), combo_task
    PROVE  Neat(st', matrix') /\ OnceStep /\ FireStep /\ PairStep
<1>. DEFINE K == KeptKeys(st)
            R == st.reported
            s == Settled(st)
            x == [s EXCEPT !.longest_term = 0]
<1>1. st \in State /\ st.out = <<>> /\ Plain(st) /\ matrix \subseteq Key
    BY DEF TInv
<1>2. Core(st, matrix, COMBOS)
    BY RestCore
<1>3. Mid(st, matrix)
    BY NeatMid
<1>4. Telling(st, K, R)
    BY <1>1, BeginTelling
<1>5. Done(x) /\ matrix' = matrix
    BY DEF combo_task
<1>6. Kept = K /\ reported = R /\ K \subseteq Key
  <2>1. K \subseteq matrix
      BY DEF Rest, KeysDown
  <2>. QED BY <1>1, <2>1 DEF Kept, KeptKeys, reported
<1>. HIDE DEF K, R
<1>8. s \in State /\ Flushed(st, s, matrix)
  <2>1. Working(st, Range(st.combo_buffer), matrix)
      BY <1>3 DEF Mid
  <2>. QED BY <2>1, <1>1, <1>2, AppliesFlush, SettledIs
<1>. HIDE DEF s
<1>9. Neat(s, matrix) /\ KeptKeys(s) = {}
    BY <1>3, <1>8, FlushedNeat DEF Mid
<1>10. Telling(s, K, R)
    BY <1>1, <1>4, <1>8, FlushedTells
<1>11. /\ x \in State /\ x.combo = s.combo /\ x.combo_buffer = s.combo_buffer /\ x.key_buffer = s.key_buffer
       /\ x.enabled = s.enabled /\ x.reported = s.reported /\ x.out = s.out
  <2>1. 0 \in Age
      BY AgeIs
  <2>. QED BY <1>8, <2>1 DEF State
<1>. HIDE DEF x
<1>12. Tells(x.out, K) /\ Balanced(x, R)
  <2>1. K \ KeptKeys(s) = K
      BY <1>9
  <2>. QED BY <2>1, <1>10, <1>11 DEF Telling, Balanced
<1>13. Neat(x, matrix)
  <2>1. KeptKeys(x) = KeptKeys(s) /\ Range(s.combo_buffer) \subseteq Combo
      BY <1>8, <1>11 DEF KeptKeys, State, Ring, Range
  <2>2. \A c \in Combo : Full(s, c) => Full(x, c)
      BY <1>11 DEF Full
  <2>3. Owed(s, matrix) => Owed(x, matrix)
      BY <1>11, <2>1 DEF Owed
  <2>. QED BY <1>9, <1>11, <2>1, <2>2, <2>3 DEF Neat
<1>14. Fires(x)
  <2>1. ASSUME NEW d \in Range(st.combo_buffer), ~st.combo[d].disabled, ~must_wait(d)
        PROVE  [combo |-> d] \in x.reported
    <3>1. d \in Combo
        BY <1>1 DEF State, Ring, Range
    <3>2. [combo |-> d] \in s.reported
        BY <3>1, <2>1, <1>1, <1>8, FlushedFires DEF Waits
    <3>. QED BY <3>2, <1>11
  <2>. QED BY <2>1 DEF Fires
<1>15. Neat(st', matrix')
    BY <1>5, <1>11, <1>13, StepNeat
<1>16. OnceStep
  <2>1. \A j \in K : j \in Kept' \/ ReportedOnce(j)'
      BY <1>5, <1>6, <1>11, <1>12, StepTells
  <2>. QED BY <2>1, <1>5, <1>6 DEF OnceStep
<1>17. PairStep
    BY <1>5, <1>6, <1>11, <1>12, StepBalanced DEF PairStep
<1>. QED BY <1>5, <1>11, <1>14, <1>15, <1>16, <1>17, StepFires

-----------------------------------------------------------------------------
(* Combos are switched off: all that is kept is handed on as it is.          *)
LEMMA DisableNeat ==
    ASSUME TwoKeys, NEW M, NEW s, Rest(s, M), Neat(s, M), NEW K, NEW R, Telling(s, K, R)
    PROVE  LET t == combo_disable(s) IN
           t \in State /\ Neat(t, M) /\ KeptKeys(t) = {} /\ Telling(t, K, R) /\ ~t.enabled
<1>. DEFINE t == combo_disable(s)
<1>1. s \in State /\ Plain(s)
    BY DEF Rest
<1>2. t \in State
    BY <1>1, DisableIs, Zenon
<1>3. PICK z \in State :
              /\ z.combo_buffer = <<>> /\ z.combo = s.combo /\ z.key_buffer = s.key_buffer
              /\ z.reported = s.reported /\ z.out = s.out /\ ~z.enabled
              /\ t = clear_combos(dump_key_buffer(z))
    BY <1>1, DisableIs
<1>. HIDE DEF t
<1>4. PICK kk : TRUE
    OBVIOUS
<1>5. KeptKeys(z) = KeptKeys(s) /\ Alone(z) = Alone(s) /\ Plain(z)
    BY <1>1, <1>3 DEF KeptKeys, Alone, Plain
<1>6. Core(z, M, kk)
  <2>1. DistinctKeys(z) /\ Distinct(z.combo_buffer) /\ Counted(z, M)
      BY <1>3 DEF Rest, DistinctKeys, Distinct, Counted
  <2>2. KeysDown(z, M) /\ CountsKept(z, kk)
      BY <1>3, <1>5 DEF Rest, KeysDown, CountsKept, KeptCounted
  <2>3. Actives(z)
      BY <1>3, <1>5 DEF Rest, Actives
  <2>. QED BY <1>3, <2>1, <2>2, <2>3 DEF Core
<1>7. Working(z, {}, M)
  <2>1. NoCombo \notin Combo
      BY ComboAssumption DEF NoCombo, Combo
  <2>2. Accounts(z, {})
    <3>1. Alone(z) = KeptKeys(z)
        BY <1>5, PlainIs
    <3>2. \A i \in DOMAIN z.key_buffer : z.key_buffer[i].combo \notin Combo /\ z.key_buffer[i].pressed
        BY <1>5, <2>1 DEF Plain
    <3>. QED BY <3>1, <3>2 DEF Accounts
  <2>3. Range(z.combo_buffer) = {}
      BY <1>3 DEF Range
  <2>4. \A c \in Combo : z.combo[c].active => [combo |-> c] \in z.reported
      BY <1>3 DEF Neat
  <2>. QED BY <2>2, <2>3, <2>4 DEF Working, Apart
<1>8. Flushed(z, t, M)
    BY <1>3, <1>6, <1>7, DumpFlushes
<1>9. Owed(s, M) => Owed(z, M)
    BY <1>3, <1>5 DEF Owed
<1>10. Neat(t, M) /\ KeptKeys(t) = {}
    BY <1>8, <1>9, FlushedNeat DEF Neat
<1>11. Telling(z, K, R)
    BY <1>3, <1>5 DEF Telling, Balanced
<1>12. ~t.enabled
    BY <1>3, <1>8 DEF Flushed
<1>13. Telling(t, K, R)
    BY <1>8, <1>11, FlushedTells
<1>. QED BY <1>2, <1>10, <1>12, <1>13 DEF t

(* A key with the keycode that switches combos is handed on.                 *)
LEMMA ToggleStep ==
    ASSUME TwoKeys, TInv, Rest(st, matrix), Neat(st, matrix),
           NEW k \in Key, k \notin matrix, matrix' = matrix \cup {k}, combo_toggle(k)
    PROVE  Neat(st', matrix') /\ OnceStep /\ FireStep /\ PairStep
<1>. DEFINE K == KeptKeys(st)
            R == st.reported
            s == IF st.enabled THEN combo_disable(st) ELSE combo_enable(st)
            x == Send(s, Record(k, NoCombo, TRUE))
<1>1. st \in State /\ st.out = <<>> /\ Plain(st) /\ matrix \subseteq Key
    BY DEF TInv
<1>2. Telling(st, K, R)
    BY <1>1, BeginTelling
<1>3. Done(x)
    BY DEF combo_toggle
<1>4. Kept = K /\ reported = R /\ K \subseteq Key /\ k \notin K
  <2>1. K \subseteq matrix
      BY DEF Rest, KeysDown
  <2>. QED BY <1>1, <2>1 DEF Kept, KeptKeys, reported
<1>5. matrix' \ matrix = {k}
    OBVIOUS
<1>6. /\ s \in State /\ Neat(s, matrix) /\ Telling(s, K, R)
      /\ ~s.enabled \/ (s.combo = st.combo /\ s.combo_buffer = st.combo_buffer)
  <2>1. CASE st.enabled
    <3>1. s = combo_disable(st)
        BY <2>1
    <3>. HIDE DEF s, K, R
    <3>. QED BY <3>1, <1>2, DisableNeat
  <2>2. CASE ~st.enabled
    <3>1. s = combo_enable(st)
        BY <2>2
    <3>. HIDE DEF s
    <3>2. /\ s \in State /\ s.combo = st.combo /\ s.key_buffer = st.key_buffer
          /\ s.combo_buffer = st.combo_buffer /\ s.reported = st.reported /\ s.out = st.out /\ s.enabled
        BY <3>1, <1>1, EnableIs
    <3>3. KeptKeys(s) = KeptKeys(st) /\ Range(st.combo_buffer) \subseteq Combo
        BY <1>1, <3>2 DEF KeptKeys, State, Ring, Range
    <3>4. Neat(s, matrix)
      <4>1. \A c \in Combo : Full(st, c) => Full(s, c)
          BY <3>2 DEF Full
      <4>2. Owed(st, matrix) => Owed(s, matrix)
          BY <3>2, <3>3 DEF Owed
      <4>. QED BY <3>2, <3>3, <4>1, <4>2 DEF Neat
    <3>5. Telling(s, K, R)
        BY <3>2, <3>3, <1>2 DEF Telling, Balanced
    <3>. QED BY <3>2, <3>4, <3>5
  <2>. QED BY <2>1, <2>2
<1>. HIDE DEF s, K, R
<1>7. /\ x \in State /\ Neat(x, matrix \cup {k}) /\ Tells(x.out, (K \ KeptKeys(s)) \cup {k})
      /\ Balanced(x, R) /\ KeptKeys(x) = KeptKeys(s)
      /\ x.combo = s.combo /\ x.combo_buffer = s.combo_buffer /\ x.enabled = s.enabled
  <2>1. s \in State /\ Neat(s, matrix) /\ Telling(s, K, R) /\ k \notin K
      BY <1>4, <1>6
  <2>2. x = Send(s, Record(k, NoCombo, TRUE))
      OBVIOUS
  <2>. HIDE DEF x
  <2>3. x \in State /\ Neat(x, matrix \cup {k}) /\ KeptKeys(x) = KeptKeys(s)
      BY <2>1, <2>2, SendsPress
  <2>4. Tells(x.out, (K \ KeptKeys(s)) \cup {k}) /\ Balanced(x, R)
      BY <2>1, <2>2, SendsPress
  <2>5. x.combo = s.combo /\ x.combo_buffer = s.combo_buffer /\ x.enabled = s.enabled
      BY <2>1, <2>2 DEF Send, State
  <2>. QED BY <2>3, <2>4, <2>5
<1>. HIDE DEF x
<1>8. Fires(x)
    BY <1>6, <1>7 DEF Fires, Waits
<1>9. Neat(st', matrix')
    BY <1>3, <1>7, StepNeat
<1>10. OnceStep
  <2>1. K \cup {k} \subseteq KeptKeys(x) \cup ((K \ KeptKeys(s)) \cup {k})
      BY <1>7
  <2>2. (K \ KeptKeys(s)) \cup {k} \subseteq Key
      BY <1>4
  <2>3. \A j \in K \cup {k} : j \in Kept' \/ ReportedOnce(j)'
      BY <2>1, <2>2, <1>3, <1>7, StepTells
  <2>. QED BY <2>3, <1>4, <1>5 DEF OnceStep
<1>11. PairStep
    BY <1>3, <1>4, <1>7, StepBalanced DEF PairStep
<1>. QED BY <1>3, <1>7, <1>8, <1>9, <1>10, <1>11, StepFires

-----------------------------------------------------------------------------
(* A combo that becomes ready gives way to those that are, or overtakes all. *)
LEMMA DropsExactly ==
    ASSUME NEW s \in State, NEW b \in Combo, NEW c \in Combo, b # c, s.combo_buffer # <<>>
    PROVE  LET t == DropOne(s, b, c) IN
           /\ Kept2(s, t)
           /\ s.combo[c].disabled \/ ~Overlaps(b, c) => t = s
           /\ ~s.combo[c].disabled /\ Overlaps(b, c) /\ Len(Keys[c]) < Len(Keys[b]) =>
                /\ t.combo_buffer = s.combo_buffer /\ t.combo[c].disabled
                /\ \A d \in Combo : d # c => t.combo[d] = s.combo[d]
           /\ ~s.combo[c].disabled /\ Overlaps(b, c) /\ ~(Len(Keys[c]) < Len(Keys[b])) =>
                /\ t.combo_buffer = Popped(s.combo_buffer, b) /\ ~t.combo[c].disabled
<1>1. s.combo \in [Combo -> Bits] /\ s.combo_buffer \in Ring
    BY DEF State
<1>. DEFINE t == DropOne(s, b, c)
<1>2. Kept2(s, t)
    BY DropOneIs
<1>3. CASE s.combo[c].disabled \/ ~Overlaps(b, c)
    BY <1>2, <1>3 DEF DropOne
<1>4. CASE ~s.combo[c].disabled /\ Overlaps(b, c)
  <2>. DEFINE x == Dropped(b, c)
              f == [s.combo EXCEPT ![x] = [@ EXCEPT !.disabled = TRUE]]
              q == IF x # c /\ Head(s.combo_buffer) = b THEN Tail(s.combo_buffer) ELSE s.combo_buffer
              u == [s EXCEPT !.combo = f, !.combo_buffer = q]
  <2>1. t = u
      BY <1>4 DEF DropOne
  <2>2. x = IF Len(Keys[c]) < Len(Keys[b]) THEN c ELSE b
      BY DEF Dropped
  <2>. HIDE DEF x
  <2>3. x \in Combo
      BY <2>2
  <2>4. f[x].disabled /\ \A d \in Combo : d # x => f[d] = s.combo[d]
      BY <1>1, <2>3 DEF Bits
  <2>5. q = IF x # c THEN Popped(s.combo_buffer, b) ELSE s.combo_buffer
      BY DEF Popped
  <2>. HIDE DEF f, q
  <2>6. u.combo = f /\ u.combo_buffer = q
      BY DEF State
  <2>. HIDE DEF u, t
  <2>7. CASE Len(Keys[c]) < Len(Keys[b])
      BY <1>2, <1>4, <2>1, <2>2, <2>4, <2>5, <2>6, <2>7 DEF t
  <2>8. CASE ~(Len(Keys[c]) < Len(Keys[b]))
      BY <1>2, <1>4, <2>1, <2>2, <2>4, <2>5, <2>6, <2>8 DEF t
  <2>. QED BY <2>7, <2>8
<1>. QED BY <1>3, <1>4

LEMMA GivesWay ==
    ASSUME NEW s \in State, NEW c \in Combo,
           \A b \in Range(s.combo_buffer) : b # c /\ (Overlaps(b, c) => Len(Keys[c]) < Len(Keys[b]))
    PROVE  LET t == DropOverlapping(s, c) IN
           /\ t.combo_buffer = s.combo_buffer /\ \A d \in Combo : d # c => t.combo[d] = s.combo[d]
           /\ ~t.combo[c].disabled => \A b \in Range(s.combo_buffer) : ~Overlaps(b, c)
<1>. DEFINE q == s.combo_buffer
            N == Len(q)
<1>1. q \in Seq(Combo) /\ N \in Nat /\ DOMAIN q = 1..N
    BY DEF State, Ring
<1>2. PICK f \in [0..N -> State] :
              /\ f[0] = s /\ DropOverlapping(s, c) = f[N]
              /\ \A i \in 1..N : f[i] = DropOne(f[i - 1], q[i], c) /\ f[i - 1].combo_buffer # <<>>
    BY DropLoop
<1>3. \A i \in 1..N : /\ q[i] \in Combo /\ q[i] # c /\ q[i] \in Range(q)
                      /\ Overlaps(q[i], c) => Len(Keys[c]) < Len(Keys[q[i]])
    BY <1>1 DEF Range
<1>. HIDE DEF N, q
<1>. DEFINE Good(r, i) ==
                /\ r.combo_buffer = q /\ \A d \in Combo : d # c => r.combo[d] = s.combo[d]
                /\ ~r.combo[c].disabled => \A j \in 1..N : j <= i => ~Overlaps(q[j], c)
            S == {i \in Nat : i <= N /\ Good(f[i], i)}
<1>4. 0 \in S
  <2>1. \A j \in 1..N : ~(j <= 0)
      BY <1>1
  <2>. QED BY <2>1, <1>1, <1>2 DEF q
<1>5. ASSUME NEW i \in 1..N, i - 1 \in S PROVE i \in S
  <2>. DEFINE r == f[i - 1]
              t == f[i]
              b == q[i]
  <2>1. i \in Nat /\ i <= N /\ i - 1 \in 0..N
      BY <1>1
  <2>2. r \in State /\ r.combo_buffer # <<>> /\ t = DropOne(r, b, c)
      BY <2>1, <1>2
  <2>3. Good(r, i - 1)
      BY <1>5
  <2>4. b \in Combo /\ b # c /\ (Overlaps(b, c) => Len(Keys[c]) < Len(Keys[b]))
      BY <1>3
  <2>. HIDE DEF r, t, b
  <2>5. /\ r.combo[c].disabled \/ ~Overlaps(b, c) => t = r
        /\ ~r.combo[c].disabled /\ Overlaps(b, c) =>
             /\ t.combo_buffer = r.combo_buffer /\ t.combo[c].disabled
             /\ \A d \in Combo : d # c => t.combo[d] = r.combo[d]
      BY <2>2, <2>4, DropsExactly
  <2>6. \A j \in 1..N : j <= i => j <= i - 1 \/ j = i
      BY <1>1, <2>1
  <2>7. Good(t, i)
    <3>1. CASE r.combo[c].disabled
        BY <3>1, <2>3, <2>5
    <3>2. CASE ~r.combo[c].disabled /\ Overlaps(b, c)
        BY <3>2, <2>3, <2>5
    <3>3. CASE ~r.combo[c].disabled /\ ~Overlaps(b, c)
        BY <3>3, <2>3, <2>5, <2>6 DEF b
    <3>. QED BY <3>1, <3>2, <3>3
  <2>. HIDE DEF Good
  <2>. QED BY <2>1, <2>7 DEF t
<1>6. N \in S
  <2>. HIDE DEF S
  <2>1. \A n \in 0..N : n \in S
      BY <1>1, <1>4, <1>5, Induction
  <2>. QED BY <2>1, <1>1
<1>7. Good(f[N], N)
    BY <1>6
<1>8. ASSUME ~f[N].combo[c].disabled, NEW b \in Range(q) PROVE ~Overlaps(b, c)
  <2>1. PICK j \in 1..N : q[j] = b /\ j <= N
      BY <1>1 DEF Range
  <2>. QED BY <2>1, <1>7, <1>8
<1>. QED BY <1>2, <1>7, <1>8 DEF q

LEMMA OvertakesRing ==
    ASSUME NEW s \in State, NEW c \in Combo, ~s.combo[c].disabled,
           \A b \in Range(s.combo_buffer) : b # c /\ Overlaps(b, c) /\ ~(Len(Keys[c]) < Len(Keys[b]))
    PROVE  LET t == DropOverlapping(s, c) IN t.combo_buffer = <<>> /\ ~t.combo[c].disabled
<1>. DEFINE q == s.combo_buffer
            N == Len(q)
<1>1. q \in Seq(Combo) /\ N \in Nat /\ DOMAIN q = 1..N
    BY DEF State, Ring
<1>2. PICK f \in [0..N -> State] :
              /\ f[0] = s /\ DropOverlapping(s, c) = f[N]
              /\ \A i \in 1..N : f[i] = DropOne(f[i - 1], q[i], c) /\ f[i - 1].combo_buffer # <<>>
    BY DropLoop
<1>3. \A i \in 1..N : q[i] \in Combo /\ q[i] # c /\ Overlaps(q[i], c) /\ ~(Len(Keys[c]) < Len(Keys[q[i]]))
    BY <1>1 DEF Range
<1>. HIDE DEF N
<1>. DEFINE Good(r, i) ==
                /\ Len(r.combo_buffer) = N - i /\ \A j \in 1..(N - i) : r.combo_buffer[j] = q[j + i]
                /\ ~r.combo[c].disabled
            S == {i \in Nat : i <= N /\ Good(f[i], i)}
<1>4. 0 \in S
    BY <1>1, <1>2 DEF N
<1>. HIDE DEF q
<1>5. ASSUME NEW i \in 1..N, i - 1 \in S PROVE i \in S
  <2>. DEFINE r == f[i - 1]
              t == f[i]
              b == q[i]
              p == r.combo_buffer
  <2>1. i \in Nat /\ i <= N /\ i - 1 \in 0..N
      BY <1>1
  <2>2. r \in State /\ p # <<>> /\ t = DropOne(r, b, c)
      BY <2>1, <1>2
  <2>3. Good(r, i - 1)
      BY <1>5
  <2>4. b \in Combo /\ b # c /\ Overlaps(b, c) /\ ~(Len(Keys[c]) < Len(Keys[b]))
      BY <1>3
  <2>5. p \in Seq(Combo)
      BY <2>2 DEF State, Ring
  <2>6. Len(p) = N - (i - 1) /\ \A j \in 1..(N - (i - 1)) : p[j] = q[j + (i - 1)]
      BY <2>3
  <2>7. p[1] = b
    <3>1. 1 \in 1..(N - (i - 1)) /\ 1 + (i - 1) = i
        BY <1>1, <2>1
    <3>. QED BY <3>1, <2>6
  <2>8. ~r.combo[c].disabled
      BY <2>3
  <2>. HIDE DEF r, t, b
  <2>9. t.combo_buffer = Popped(p, b) /\ ~t.combo[c].disabled
      BY <2>2, <2>4, <2>8, DropsExactly
  <2>. HIDE DEF p
  <2>10. t.combo_buffer = Tail(p)
      BY <2>2, <2>5, <2>7, <2>9 DEF Popped
  <2>11. Len(Tail(p)) = N - i /\ \A j \in 1..(N - i) : Tail(p)[j] = q[j + i]
    <3>1. Len(Tail(p)) = N - i
        BY <1>1, <2>1, <2>2, <2>5, <2>6
    <3>2. ASSUME NEW j \in 1..(N - i) PROVE Tail(p)[j] = q[j + i]
      <4>1. j + 1 \in 1..(N - (i - 1)) /\ (j + 1) + (i - 1) = j + i
          BY <1>1, <2>1
      <4>2. Tail(p)[j] = p[j + 1]
          BY <1>1, <2>1, <2>2, <2>5, <3>1
      <4>. QED BY <4>1, <4>2, <2>6
    <3>. QED BY <3>1, <3>2
  <2>12. Good(t, i)
      BY <2>9, <2>10, <2>11
  <2>. HIDE DEF Good
  <2>. QED BY <2>1, <2>12 DEF t
<1>6. N \in S
  <2>. HIDE DEF S
  <2>1. \A n \in 0..N : n \in S
      BY <1>1, <1>4, <1>5, Induction
  <2>. QED BY <2>1, <1>1
<1>7. Good(f[N], N)
    BY <1>6
<1>8. Len(f[N].combo_buffer) = 0 /\ f[N].combo_buffer \in Seq(Combo)
  <2>1. N - N = 0 /\ N \in 0..N
      BY <1>1
  <2>2. f[N] \in State
      BY <2>1, <1>2
  <2>. QED BY <2>1, <2>2, <1>7 DEF State, Ring
<1>9. f[N].combo_buffer = <<>>
    BY <1>8
<1>. QED BY <1>2, <1>7, <1>9

(* What the ring holds is complete and may come.                             *)
Ringed(s) ==
    /\ Distinct(s.combo_buffer) /\ Apart(Range(s.combo_buffer))
    /\ \A d \in Range(s.combo_buffer) : ~s.combo[d].disabled /\ Full(s, d)

(* c overtakes what the ring q has.                                          *)
OvertakesIt(q, c) == \A b \in Range(q) : Overlaps(b, c) /\ Len(Keys[b]) <= Len(Keys[c])

LEMMA ReadyRing ==
    ASSUME TwoKeys, RingHolds, OvertakesAll, NEW s \in State, Ringed(s),
           NEW c \in Combo, ~s.combo[c].disabled, Full(s, c), c \notin Range(s.combo_buffer)
    PROVE  LET t == BecomesReady(s, c) IN
           /\ Ringed(t)
           /\ \/ Range(s.combo_buffer) \subseteq Range(t.combo_buffer)
              \/ Range(t.combo_buffer) = {c} /\ OvertakesIt(s.combo_buffer, c)
<1>. DEFINE q == s.combo_buffer
            r == DropOverlapping(s, c)
            t == BecomesReady(s, c)
<1>1. q \in Ring /\ Range(q) \subseteq Combo /\ q \in Seq(Combo)
    BY DEF State, Ring, Range
<1>2. \A b \in Combo : Len(Keys[b]) \in Nat
    BY ComboAssumption
<1>3. Kept2(s, r)
    BY DropsOverlapping DEF Overtakes
<1>4. /\ r.combo[c].disabled => t = r
      /\ ~r.combo[c].disabled => t.combo_buffer = Enqueued(r.combo_buffer, c) /\ t.combo = r.combo
    BY ReadyIs
<1>. HIDE DEF r, t
<1>5. \A d \in Combo : Full(s, d) => Full(r, d)
    BY <1>3 DEF Kept2, Full
<1>6. CASE \A b \in Range(q) : Overlaps(b, c) => Len(Keys[c]) < Len(Keys[b])
  <2>1. /\ r.combo_buffer = q /\ \A d \in Combo : d # c => r.combo[d] = s.combo[d]
        /\ ~r.combo[c].disabled => \A b \in Range(q) : ~Overlaps(b, c)
    <3>1. \A b \in Range(q) : b # c /\ (Overlaps(b, c) => Len(Keys[c]) < Len(Keys[b]))
        BY <1>6
    <3>. QED BY <3>1, GivesWay DEF r
  <2>2. \A d \in Range(q) : ~r.combo[d].disabled /\ Full(r, d)
      BY <2>1, <1>1, <1>5 DEF Ringed
  <2>3. CASE r.combo[c].disabled
    <3>1. t = r
        BY <2>3, <1>4
    <3>2. Ringed(r)
        BY <2>1, <2>2 DEF Ringed
    <3>. QED BY <2>1, <3>1, <3>2 DEF t
  <2>4. CASE ~r.combo[c].disabled
    <3>1. t.combo_buffer = Enqueued(q, c) /\ t.combo = r.combo
        BY <2>1, <2>4, <1>4
    <3>2. Distinct(t.combo_buffer) /\ Range(t.combo_buffer) = Range(q) \cup {c}
        BY <3>1, <1>1, EnqueuedIs DEF Ringed
    <3>3. \A d \in Range(t.combo_buffer) : ~t.combo[d].disabled /\ Full(t, d)
        BY <3>1, <3>2, <2>2, <2>4, <1>1, <1>5 DEF Full
    <3>4. Apart(Range(q) \cup {c})
        BY <2>1, <2>4 DEF Ringed, Apart, Overlaps
    <3>. QED BY <3>2, <3>3, <3>4 DEF Ringed, t
  <2>. QED BY <2>3, <2>4
<1>7. CASE \E b \in Range(q) : Overlaps(b, c) /\ ~(Len(Keys[c]) < Len(Keys[b]))
  <2>1. PICK b \in Range(q) : Overlaps(b, c) /\ ~(Len(Keys[c]) < Len(Keys[b]))
      BY <1>7
  <2>2. b \in Combo /\ b # c /\ Overlaps(c, b) /\ Len(Keys[c]) >= Len(Keys[b])
      BY <2>1, <1>1, <1>2 DEF Overlaps
  <2>3. ASSUME NEW d \in Range(q)
        PROVE  d # c /\ Overlaps(d, c) /\ Len(Keys[d]) <= Len(Keys[c]) /\ ~(Len(Keys[c]) < Len(Keys[d]))
    <3>1. d \in Combo /\ d # c
        BY <1>1
    <3>2. CASE d = b
        BY <3>1, <3>2, <2>1, <2>2, <1>2
    <3>3. CASE d # b
      <4>1. ~Overlaps(b, d)
          BY <3>3 DEF Ringed, Apart
      <4>2. Overlaps(c, d) /\ Len(Keys[c]) >= Len(Keys[d])
          BY <4>1, <3>1, <2>2 DEF OvertakesAll
      <4>. QED BY <4>2, <3>1, <1>2 DEF Overlaps
    <3>. QED BY <3>2, <3>3
  <2>4. r.combo_buffer = <<>> /\ ~r.combo[c].disabled
      BY <2>3, OvertakesRing DEF r
  <2>5. t.combo_buffer = Enqueued(<<>>, c) /\ t.combo = r.combo
      BY <2>4, <1>4
  <2>6. Distinct(t.combo_buffer) /\ Range(t.combo_buffer) = {c}
    <3>1. <<>> \in Ring /\ Distinct(<<>>) /\ Range(<<>>) = {}
        BY ComboAssumption DEF Ring, Distinct, Range
    <3>. QED BY <3>1, <2>5, EnqueuedIs
  <2>7. ~t.combo[c].disabled /\ Full(t, c)
      BY <2>4, <2>5, <1>5 DEF Full
  <2>8. OvertakesIt(q, c)
      BY <2>3 DEF OvertakesIt
  <2>. QED BY <2>6, <2>7, <2>8 DEF Ringed, Apart, t
<1>. QED BY <1>6, <1>7

(* The same of any press.                                                    *)
LEMMA PressRing ==
    ASSUME TwoKeys, RingHolds, OvertakesAll, NEW s \in State, Ringed(s), NEW k \in Key,
           NEW c \in Combo, ~s.combo[c].disabled, ~s.combo[c].active, c \notin Range(s.combo_buffer)
    PROVE  LET t == PressInCombo(s, c, k) IN
           /\ Ringed(t)
           /\ \/ Range(s.combo_buffer) \subseteq Range(t.combo_buffer)
              \/ Range(t.combo_buffer) = {c} /\ OvertakesIt(s.combo_buffer, c)
<1>. DEFINE r == Counting(s, c, k)
            u == [r EXCEPT !.combo[c].disabled = TRUE]
            t == PressInCombo(s, c, k)
<1>1. Range(s.combo_buffer) \subseteq Combo
    BY DEF State, Ring, Range
<1>2. /\ r \in State /\ r.combo_buffer = s.combo_buffer
      /\ \A d \in Combo : /\ r.combo[d].active = s.combo[d].active
                          /\ r.combo[d].disabled = s.combo[d].disabled
                          /\ d # c => r.combo[d].state = s.combo[d].state
    BY Counts
<1>3. t = IF r.combo[c].state # KeysOf(c) THEN r ELSE IF TooLate(c) THEN u ELSE BecomesReady(r, c)
    BY PressIs
<1>. HIDE DEF r, t
<1>4. Ringed(r) /\ ~r.combo[c].disabled /\ ~r.combo[c].active
  <2>1. \A d \in Range(s.combo_buffer) : d \in Combo /\ d # c
      BY <1>1
  <2>2. \A d \in Range(s.combo_buffer) : Full(s, d) => Full(r, d)
      BY <2>1, <1>2 DEF Full
  <2>. QED BY <2>1, <2>2, <1>2 DEF Ringed
<1>5. CASE r.combo[c].state # KeysOf(c)
    BY <1>2, <1>3, <1>4, <1>5 DEF t
<1>6. CASE r.combo[c].state = KeysOf(c) /\ TooLate(c)
  <2>1. /\ u.combo_buffer = r.combo_buffer
        /\ \A d \in Combo : /\ u.combo[d].active = r.combo[d].active
                            /\ u.combo[d].state = r.combo[d].state
                            /\ d # c => u.combo[d].disabled = r.combo[d].disabled
    <3>1. r \in State
        BY <1>2
    <3>2. /\ u \in State /\ u.combo_buffer = r.combo_buffer /\ u.key_buffer = r.key_buffer
          /\ u.enabled = r.enabled /\ u.reported = r.reported /\ u.out = r.out
          /\ \A d \in Combo : /\ u.combo[d].active = r.combo[d].active
                              /\ u.combo[d].state = r.combo[d].state
                              /\ r.combo[d].disabled \/ d = c => u.combo[d].disabled
                              /\ d # c => u.combo[d].disabled = r.combo[d].disabled
        BY <3>1, Disables, Zenon
    <3>. HIDE DEF u
    <3>. QED BY <3>2
  <2>2. t = u
      BY <1>3, <1>6
  <2>. HIDE DEF u
  <2>3. \A d \in Range(s.combo_buffer) : d \in Combo /\ d # c
      BY <1>1
  <2>4. \A d \in Range(s.combo_buffer) : Full(r, d) => Full(u, d)
      BY <2>1, <2>3 DEF Full
  <2>5. Ringed(u)
      BY <2>1, <2>3, <2>4, <1>2, <1>4 DEF Ringed
  <2>. QED BY <2>1, <2>2, <2>5, <1>2 DEF t
<1>7. CASE r.combo[c].state = KeysOf(c) /\ ~TooLate(c)
  <2>1. t = BecomesReady(r, c)
      BY <1>3, <1>7
  <2>2. Full(r, c)
      BY <1>4, <1>7 DEF Full
  <2>3. c \notin Range(r.combo_buffer)
      BY <1>2
  <2>4. /\ Ringed(t)
        /\ \/ Range(r.combo_buffer) \subseteq Range(t.combo_buffer)
           \/ Range(t.combo_buffer) = {c} /\ OvertakesIt(r.combo_buffer, c)
      BY <2>1, <2>2, <2>3, <1>2, <1>4, ReadyRing
  <2>. QED BY <2>4, <1>2 DEF t
<1>. QED BY <1>5, <1>6, <1>7

(* What has left the ring was overtaken, by one of the first n combos.       *)
Gone(s, t, n) ==
    \A a \in Range(s.combo_buffer) :
        \/ a \in Range(t.combo_buffer)
        \/ \E b \in Range(t.combo_buffer) : b <= n /\ Overlaps(a, b) /\ Len(Keys[a]) <= Len(Keys[b])

LEMMA PressesRing ==
    ASSUME TwoKeys, RingHolds, AnyOrder, OvertakesAll, NEW M, NEW s, Rest(s, M), Ringed(s),
           NEW k \in Key, k \notin M
    PROVE  LET r == AllCombos(s, k, TRUE) IN
           /\ Pressed(s, r, COMBOS, k) /\ Ringed(r.st)
           /\ r.is_combo_key => \E c \in Combo : k \in KeysOf(c)
           /\ MeetsOvertaken => Gone(s, r.st, COMBOS)
<1>. DEFINE Rung(r, n) ==
              /\ Ringed(r.st) /\ (r.is_combo_key => \E c \in Combo : k \in KeysOf(c))
              /\ MeetsOvertaken => Gone(s, r.st, n)
<1>1. s \in State /\ Plain(s)
    BY DEF Rest
<1>2. COMBOS \in Nat /\ Combo = 1..COMBOS
    BY ComboAssumption DEF Combo
<1>3. PICK f \in [0..COMBOS -> Result] :
              /\ f[0] = [st |-> s, is_combo_key |-> FALSE]
              /\ \A c \in Combo : f[c] = process_single_combo(f[c - 1], c, k, TRUE)
              /\ AllCombos(s, k, TRUE) = f[COMBOS]
  <2>1. \A pressed \in BOOLEAN : \E f \in [0..COMBOS -> Result] :
              /\ f[0] = [st |-> s, is_combo_key |-> FALSE]
              /\ \A c \in Combo : f[c] = process_single_combo(f[c - 1], c, k, pressed)
              /\ AllCombos(s, k, pressed) = f[COMBOS]
      BY <1>1, CombosLoop
  <2>2. TRUE \in BOOLEAN
      OBVIOUS
  <2>. QED BY <2>1, <2>2, Zenon
<1>. DEFINE S == {n \in 0..COMBOS : Pressed(s, f[n], n, k) /\ Rung(f[n], n)}
<1>4. 0 \in S
  <2>1. f[0].st = s /\ ~f[0].is_combo_key
      BY <1>3
  <2>2. 0 \in 0..COMBOS /\ \A d \in Combo : ~(d <= 0)
      BY <1>2
  <2>3. \A d \in Combo : k \notin s.combo[d].state
      BY DEF Rest, Counted
  <2>4. Pressed(s, f[0], 0, k)
      BY <2>1, <2>2, <2>3, <1>1 DEF Pressed, Rest
  <2>5. Gone(s, s, 0)
      BY DEF Gone
  <2>. QED BY <2>1, <2>2, <2>4, <2>5
<1>5. ASSUME NEW c \in 1..COMBOS, c - 1 \in S PROVE c \in S
  <2>. DEFINE r == f[c - 1]
  <2>1. /\ c \in Combo /\ c \in 0..COMBOS /\ c - 1 \in 0..COMBOS /\ ~(c <= c - 1) /\ c <= c
        /\ \A d \in Combo : d <= c - 1 => d <= c /\ d < c
      BY <1>2
  <2>2. Pressed(s, r, c - 1, k) /\ Rung(r, c - 1) /\ r \in Result
      BY <1>5, <1>3, <2>1
  <2>3. f[c] = process_single_combo(r, c, k, TRUE)
      BY <1>3, <2>1
  <2>. HIDE DEF r
  <2>4. Pressed(s, f[c], c, k)
      BY <2>1, <2>2, <2>3, PressedByOne
  <2>5. k \notin r.st.combo[c].state
      BY <2>1, <2>2 DEF Pressed
  <2>6. r.st \in State /\ Range(r.st.combo_buffer) \subseteq Combo /\ Range(s.combo_buffer) \subseteq Combo
      BY <2>2, <1>1 DEF Result, State, Ring, Range
  <2>7. Gone(s, r.st, c - 1) => Gone(s, r.st, c)
      BY <2>1, <2>6 DEF Gone
  <2>8. Rung(f[c], c)
    <3>1. CASE k \notin KeysOf(c)
        BY <2>2, <2>3, <2>7, <3>1 DEF process_single_combo
    <3>2. CASE k \in KeysOf(c) /\ ~IsPart(r.st, c, k)
      <4>. DEFINE t == ReleaseInCombo(r.st, c, k)
                  w == r.is_combo_key \/ Swallowed(r.st, c, k)
      <4>1. f[c] = [st |-> t, is_combo_key |-> w]
          BY <2>3, <3>2 DEF process_single_combo
      <4>2. t = r.st /\ ~Swallowed(r.st, c, k)
          BY <3>2, <2>1, <2>5, <2>6, NothingToForget
      <4>3. f[c].st = r.st
          BY <4>1, <4>2
      <4>. QED BY <4>3, <3>2, <2>1, <2>2, <2>7
    <3>3. CASE k \in KeysOf(c) /\ IsPart(r.st, c, k)
      <4>. DEFINE t == PressInCombo(r.st, c, k)
      <4>1. f[c] = [st |-> t, is_combo_key |-> TRUE]
          BY <2>3, <3>3 DEF process_single_combo
      <4>2. ~r.st.combo[c].disabled
          BY <3>3 DEF IsPart
      <4>3. ~r.st.combo[c].active
          BY <4>2, <2>1, <2>2 DEF Pressed, Rest, Actives
      <4>4. c \notin Range(r.st.combo_buffer)
          BY <3>3, <2>2, <2>5 DEF Ringed, Full
      <4>5. /\ Ringed(t)
            /\ \/ Range(r.st.combo_buffer) \subseteq Range(t.combo_buffer)
               \/ Range(t.combo_buffer) = {c} /\ OvertakesIt(r.st.combo_buffer, c)
          BY <4>2, <4>3, <4>4, <2>1, <2>2, <2>6, PressRing
      <4>6. f[c].st = t
          BY <4>1
      <4>. HIDE DEF t
      <4>7. ASSUME MeetsOvertaken PROVE Gone(s, t, c)
        <5>1. Gone(s, r.st, c - 1)
            BY <4>7, <2>2
        <5>2. CASE Range(r.st.combo_buffer) \subseteq Range(t.combo_buffer)
            BY <5>1, <5>2, <2>1, <2>6 DEF Gone
        <5>3. CASE Range(t.combo_buffer) = {c} /\ OvertakesIt(r.st.combo_buffer, c)
          <6>1. ASSUME NEW a \in Range(s.combo_buffer)
                PROVE  Overlaps(a, c) /\ Len(Keys[a]) <= Len(Keys[c])
            <7>1. CASE a \in Range(r.st.combo_buffer)
                BY <7>1, <5>3 DEF OvertakesIt
            <7>2. CASE a \notin Range(r.st.combo_buffer)
              <8>1. PICK b \in Range(r.st.combo_buffer) :
                        b <= c - 1 /\ Overlaps(a, b) /\ Len(Keys[a]) <= Len(Keys[b])
                  BY <5>1, <7>2 DEF Gone
              <8>2. Overlaps(b, c) /\ Len(Keys[b]) <= Len(Keys[c])
                  BY <5>3 DEF OvertakesIt
              <8>3. a \in Combo /\ b \in Combo /\ a # b /\ b < c
                  BY <7>2, <8>1, <2>1, <2>6
              <8>4. Overlaps(a, c)
                  BY <4>7, <8>1, <8>2, <8>3, <2>1 DEF MeetsOvertaken
              <8>5. Len(Keys[a]) \in Nat /\ Len(Keys[b]) \in Nat /\ Len(Keys[c]) \in Nat
                  BY <8>3, <2>1, ComboAssumption
              <8>. QED BY <8>1, <8>2, <8>4, <8>5
            <7>. QED BY <7>1, <7>2
          <6>2. c \in Range(t.combo_buffer)
              BY <5>3
          <6>. QED BY <6>1, <6>2, <2>1 DEF Gone
        <5>. QED BY <4>5, <5>2, <5>3
      <4>. QED BY <4>5, <4>6, <4>7, <3>3, <2>1
    <3>. QED BY <3>1, <3>2, <3>3
  <2>. HIDE DEF Rung
  <2>. QED BY <2>1, <2>4, <2>8
<1>. HIDE DEF S
<1>6. COMBOS \in S
    BY <1>2, <1>4, <1>5, Induction
<1>7. Pressed(s, f[COMBOS], COMBOS, k) /\ Rung(f[COMBOS], COMBOS)
    BY <1>6 DEF S
<1>. QED BY <1>3, <1>7

-----------------------------------------------------------------------------
(* A press that is kept back.                                                *)

(* The buffer has room for one more key of a combo.                          *)
LEMMA Room ==
    ASSUME BufferHolds, NEW s \in State, DistinctKeys(s), NEW k, k \notin KeptKeys(s),
           \A j \in KeptKeys(s) \cup {k} : \E c \in Combo : j \in KeysOf(c)
    PROVE  Len(s.key_buffer) < KEY_BUFFER_LENGTH
<1>. DEFINE U == UNION {KeysOf(c) : c \in Combo}
            q == s.key_buffer
            n == Len(q)
            g == [i \in 1..(n + 1) |-> IF i = n + 1 THEN k ELSE q[i].key]
<1>1. q \in Seq(Entry) /\ n \in Nat /\ DOMAIN q = 1..n
    BY DEF State, Buffer
<1>2. IsFiniteSet(U)
  <2>1. ASSUME NEW c \in Combo PROVE IsFiniteSet(KeysOf(c))
    <3>. DEFINE f == Keys[c]
    <3>1. f \in Seq(Key) /\ Len(f) \in Nat
        BY ComboAssumption
    <3>2. f \in Surjection(1..Len(f), KeysOf(c))
        BY <3>1 DEF Surjection, KeysOf, Range
    <3>3. IsFiniteSet(1..Len(f))
        BY <3>1, FS_Interval
    <3>. QED BY <3>2, <3>3, FS_Surjection
  <2>. DEFINE W == {KeysOf(c) : c \in Combo}
              f == [c \in Combo |-> KeysOf(c)]
  <2>2. f \in Surjection(Combo, W)
      BY DEF Surjection
  <2>3. IsFiniteSet(Combo)
      BY ComboAssumption, FS_Interval DEF Combo
  <2>4. IsFiniteSet(W)
      BY <2>2, <2>3, FS_Surjection
  <2>5. \A T \in W : IsFiniteSet(T)
      BY <2>1
  <2>. HIDE DEF W
  <2>6. IsFiniteSet(UNION W)
      BY <2>4, <2>5, FS_UNION
  <2>. QED BY <2>6 DEF W
<1>3. \A i \in 1..n : q[i].key \in KeptKeys(s) /\ q[i].key # k
    BY <1>1 DEF KeptKeys
<1>4. KeptKeys(s) \cup {k} \subseteq U
    OBVIOUS
<1>5. \A i \in 1..(n + 1) : i \in 1..n \/ i = n + 1
    BY <1>1
<1>. HIDE DEF U, n
<1>6. g \in [1..(n + 1) -> U]
    BY <1>3, <1>4, <1>5
<1>7. \A i, j \in 1..(n + 1) : g[i] = g[j] => i = j
  <2>1. ASSUME NEW i \in 1..(n + 1), NEW j \in 1..(n + 1), g[i] = g[j] PROVE i = j
    <3>1. CASE i \in 1..n /\ j \in 1..n
      <4>1. i # n + 1 /\ j # n + 1
          BY <3>1, <1>1
      <4>2. q[i].key = q[j].key
          BY <2>1, <4>1
      <4>. QED BY <3>1, <4>2, <1>1 DEF DistinctKeys
    <3>2. CASE i = n + 1 /\ j # n + 1
        BY <3>2, <2>1, <1>3, <1>5
    <3>3. CASE j = n + 1 /\ i # n + 1
        BY <3>3, <2>1, <1>3, <1>5
    <3>. QED BY <3>1, <3>2, <3>3, <1>5
  <2>. QED BY <2>1
<1>. HIDE DEF g
<1>8. g \in Injection(1..(n + 1), U)
    BY <1>6, <1>7 DEF Injection, IsInjective
<1>9. Cardinality(1..(n + 1)) <= Cardinality(U)
    BY <1>2, <1>8, FS_Injection
<1>10. Cardinality(1..(n + 1)) = n + 1
  <2>1. 1 \in Int /\ n + 1 \in Int /\ ~(1 > n + 1) /\ (n + 1) - 1 + 1 = n + 1
      BY <1>1
  <2>. QED BY <2>1, FS_Interval
<1>11. Cardinality(U) <= KEY_BUFFER_LENGTH /\ Cardinality(U) \in Nat
  <2>1. Cardinality(U) \in Nat
      BY <1>2, FS_CardinalityType
  <2>. QED BY <2>1 DEF BufferHolds, U
<1>. QED BY <1>1, <1>9, <1>10, <1>11, ComboAssumption DEF n

LEMMA HoldStep ==
    ASSUME TwoKeys, RingHolds, AnyOrder, OvertakesAll, BufferHolds, TInv, Rest(st, matrix), Neat(st, matrix),
           NEW k \in Key, k \notin matrix, matrix' = matrix \cup {k}, HoldBack(k)
    PROVE  Neat(st', matrix') /\ OnceStep /\ (MeetsOvertaken => FireStep) /\ PairStep
<1>. DEFINE r == AllCombos(st, k, TRUE)
            t == r.st
            x == Buffered(r.st, k)
            M == matrix \cup {k}
            e == Record(k, NoCombo, TRUE)
<1>1. st \in State /\ st.out = <<>> /\ Plain(st) /\ matrix \subseteq Key
    BY DEF TInv
<1>2. r.is_combo_key /\ Done(x)
    BY DEF HoldBack
<1>3. Ringed(st)
    BY DEF Neat, Ringed, Rest
<1>4. /\ Pressed(st, r, COMBOS, k) /\ Ringed(t) /\ \E c \in Combo : k \in KeysOf(c)
      /\ MeetsOvertaken => Gone(st, t, COMBOS)
    BY <1>2, <1>3, PressesRing
<1>. HIDE DEF r
<1>5. /\ t \in State /\ t.key_buffer = st.key_buffer /\ t.enabled = st.enabled /\ t.reported = st.reported
      /\ t.out = <<>> /\ st.enabled
      /\ \A d \in Combo : t.combo[d].active = st.combo[d].active
      /\ \A d \in Combo : IF k \in t.combo[d].state
                          THEN t.combo[d].state = st.combo[d].state \cup {k} /\ ~st.combo[d].active
                          ELSE t.combo[d].state = st.combo[d].state
    BY <1>1, <1>2, <1>4 DEF Pressed
<1>. HIDE DEF t
<1>6. Plain(t) /\ DistinctKeys(t) /\ KeptKeys(t) = KeptKeys(st)
    BY <1>1, <1>5 DEF Plain, DistinctKeys, KeptKeys, Rest
<1>7. k \notin KeptKeys(st) /\ KeptKeys(st) \subseteq matrix
    BY DEF Rest, KeysDown
<1>8. \A j \in KeptKeys(t) \cup {k} : \E c \in Combo : j \in KeysOf(c)
    BY <1>4, <1>6 DEF Neat
<1>9. Len(t.key_buffer) < KEY_BUFFER_LENGTH
    BY <1>5, <1>6, <1>7, <1>8, Room
<1>10. x = [t EXCEPT !.key_buffer = Append(@, e)]
    BY <1>9 DEF Buffered, t
<1>11. /\ x \in State /\ x.combo = t.combo /\ x.combo_buffer = t.combo_buffer
       /\ x.reported = t.reported /\ x.enabled = t.enabled /\ x.out = t.out
    BY <1>5, <1>6, BufferedIs DEF t
<1>12. x.key_buffer = Append(t.key_buffer, e)
    BY <1>5, <1>10 DEF State
<1>13. KeptKeys(x) = KeptKeys(st) \cup {k}
  <2>. DEFINE q == t.key_buffer
              p == Append(q, e)
  <2>1. e \in Entry /\ e.key = k
      BY ComboAssumption DEF Record, Entry, NoCombo
  <2>2. q \in Seq(Entry)
      BY <1>5 DEF State, Buffer
  <2>. HIDE DEF e
  <2>3. /\ Len(q) \in Nat /\ DOMAIN q = 1..Len(q) /\ DOMAIN p = 1..(Len(q) + 1)
        /\ p[Len(q) + 1] = e /\ \A i \in DOMAIN q : p[i] = q[i]
      BY <2>1, <2>2, AppendIs
  <2>. HIDE DEF p, q
  <2>4. \A i \in DOMAIN p : i \in DOMAIN q \/ i = Len(q) + 1
      BY <2>3
  <2>5. \A i \in DOMAIN q : i \in DOMAIN p
      BY <2>3
  <2>6. Len(q) + 1 \in DOMAIN p
      BY <2>3
  <2>7. {p[i].key : i \in DOMAIN p} = {q[i].key : i \in DOMAIN q} \cup {k}
      BY <2>1, <2>3, <2>4, <2>5, <2>6
  <2>. HIDE DEF x
  <2>8. x.key_buffer = p
      BY <1>12 DEF p, q
  <2>9. KeptKeys(x) = {p[i].key : i \in DOMAIN p}
      BY <2>8 DEF KeptKeys
  <2>10. KeptKeys(t) = {q[i].key : i \in DOMAIN q}
      BY DEF KeptKeys, q
  <2>. QED BY <2>7, <2>9, <2>10, <1>6
<1>. HIDE DEF x
<1>14. Neat(x, M)
  <2>1. Range(t.combo_buffer) \subseteq Combo
      BY <1>5 DEF State, Ring, Range
  <2>2. \A d \in Range(x.combo_buffer) : ~x.combo[d].disabled /\ Full(x, d)
      BY <1>4, <1>11, <2>1 DEF Ringed, Full
  <2>3. Apart(Range(x.combo_buffer))
      BY <1>4, <1>11 DEF Ringed
  <2>4. ASSUME NEW d \in Combo
        PROVE  IF x.combo[d].active THEN [combo |-> d] \in x.reported ELSE x.combo[d].state \subseteq KeptKeys(x)
    <3>1. CASE x.combo[d].active
        BY <3>1, <1>5, <1>11 DEF Neat
    <3>2. CASE ~x.combo[d].active
      <4>1. ~st.combo[d].active /\ x.combo[d].state \subseteq st.combo[d].state \cup {k}
          BY <3>2, <1>5, <1>11
      <4>2. st.combo[d].state \subseteq KeptKeys(st)
          BY <4>1 DEF Neat
      <4>. QED BY <3>2, <4>1, <4>2, <1>13
    <3>. QED BY <3>1, <3>2
  <2>5. \A j \in KeptKeys(x) : \E c \in Combo : j \in KeysOf(c)
      BY <1>6, <1>8, <1>13
  <2>6. Owed(st, matrix) => Owed(x, M)
    <3>. SUFFICES ASSUME Owed(st, matrix), NEW j \in M
                  PROVE  \/ j \in KeptKeys(x) \/ [key |-> j] \in x.reported
                         \/ \E c \in Combo : x.combo[c].active /\ j \in x.combo[c].state
        BY DEF Owed
    <3>1. CASE j = k
        BY <3>1, <1>13
    <3>2. CASE j \in matrix
      <4>1. \A c \in Combo : st.combo[c].active => x.combo[c].active /\ x.combo[c].state = st.combo[c].state
          BY <1>5, <1>11
      <4>. QED BY <3>2, <4>1, <1>5, <1>11, <1>13 DEF Owed
    <3>. QED BY <3>1, <3>2
  <2>. QED BY <2>2, <2>3, <2>4, <2>5, <2>6, <1>5, <1>11 DEF Neat
<1>15. Neat(st', matrix')
    BY <1>2, <1>11, <1>14, StepNeat
<1>16. OnceStep
  <2>1. Tells(x.out, {}) /\ Kept = KeptKeys(st)
      BY <1>5, <1>11 DEF Tells, Kept, KeptKeys
  <2>2. \A j \in KeptKeys(x) : j \in Kept' \/ ReportedOnce(j)'
      BY <2>1, <1>2, <1>11, StepTells
  <2>. QED BY <2>1, <2>2, <1>13 DEF OnceStep
<1>17. PairStep
  <2>1. Balanced(x, reported)
      BY <1>5, <1>11 DEF Balanced, reported
  <2>. QED BY <2>1, <1>2, <1>11, StepBalanced DEF PairStep
<1>18. ASSUME MeetsOvertaken PROVE FireStep
  <2>1. \A b, c \in Combo : Overlaps(b, c) => Overlaps(c, b)
      BY DEF Overlaps
  <2>2. \A c \in Combo : Len(Keys[c]) \in Nat
      BY ComboAssumption
  <2>3. Range(t.combo_buffer) \subseteq Combo /\ Range(st.combo_buffer) \subseteq Combo
      BY <1>1, <1>5 DEF State, Ring, Range
  <2>4. Fires(x)
    <3>1. ASSUME NEW c \in Range(st.combo_buffer)
          PROVE  \/ Waits(x, c)
                 \/ \E b \in Range(x.combo_buffer) : Overlaps(b, c) /\ Len(Keys[b]) >= Len(Keys[c])
      <4>1. CASE c \in Range(t.combo_buffer)
          BY <4>1, <1>4, <1>11 DEF Waits, Ringed
      <4>2. CASE c \notin Range(t.combo_buffer)
        <5>1. PICK b \in Range(t.combo_buffer) : Overlaps(c, b) /\ Len(Keys[c]) <= Len(Keys[b])
            BY <4>2, <1>4, <1>18 DEF Gone
        <5>2. Overlaps(b, c) /\ Len(Keys[b]) >= Len(Keys[c])
            BY <5>1, <2>1, <2>2, <2>3
        <5>. QED BY <5>1, <5>2, <1>11
      <4>. QED BY <4>1, <4>2
    <3>. QED BY <3>1 DEF Fires
  <2>. QED BY <2>4, <1>2, <1>11, StepFires
<1>. QED BY <1>15, <1>16, <1>17, <1>18

-----------------------------------------------------------------------------
(* The steps again, and what each of them hands on.                          *)
Hypotheses == TwoKeys /\ RingHolds /\ AnyOrder /\ BufferHolds /\ OvertakesAll /\ HoldMeetsAll

CInv == TInv /\ Rest(st, matrix) /\ Neat(st, matrix)

LEMMA EachStep ==
    ASSUME Hypotheses, CInv, Next
    PROVE  /\ Neat(st', matrix') /\ OnceStep
           /\ RELEASE_EARLY = {} => PairStep
           /\ MeetsOvertaken => FireStep
<1>. USE DEF Hypotheses, CInv
<1>1. ASSUME NEW k \in Key, Press(k)
      PROVE  Neat(st', matrix') /\ OnceStep /\ PairStep /\ (MeetsOvertaken => FireStep)
  <2>1. k \notin matrix /\ matrix' = matrix \cup {k}
      BY <1>1 DEF Press
  <2>2. CASE combo_toggle(k)
      BY <2>1, <2>2, ToggleStep
  <2>3. CASE HoldBack(k)
      BY <2>1, <2>3, HoldStep
  <2>4. CASE HandOn(k, TRUE)
      BY <2>1, <2>4, PassedStep
  <2>. QED BY <1>1, <2>2, <2>3, <2>4 DEF Press
<1>2. ASSUME NEW k \in Key, Release(k)
      PROVE  Neat(st', matrix') /\ OnceStep /\ FireStep /\ (RELEASE_EARLY = {} => PairStep)
    BY <1>2, ReleaseStep DEF Release
<1>3. CASE combo_task
    BY <1>3, TaskStep
<1>4. CASE Tick
  <2>1. st' = st /\ matrix' = matrix /\ out' = <<>>
      BY <1>4 DEF Tick
  <2>2. OnceStep
      BY <2>1 DEF OnceStep, Kept
  <2>3. DOMAIN out' = {}
      BY <2>1
  <2>4. PairStep
      BY <2>3 DEF PairStep
  <2>5. FireStep
      BY <2>1 DEF FireStep, Ready
  <2>. QED BY <2>1, <2>2, <2>4, <2>5
<1>. QED BY <1>1, <1>2, <1>3, <1>4 DEF Next

LEMMA CStep ==
    ASSUME Hypotheses, CInv, [Next]_vars
    PROVE  CInv'
<1>1. TInv'
    BY TypeStep DEF CInv
<1>2. Rest(st', matrix')
    BY RestStep DEF CInv, Hypotheses
<1>3. Neat(st', matrix')
  <2>1. CASE Next
      BY <2>1, EachStep
  <2>2. CASE UNCHANGED vars
      BY <2>2 DEF vars, CInv
  <2>. QED BY <2>1, <2>2
<1>. QED BY <1>1, <1>2, <1>3 DEF CInv

LEMMA CInit ==
    ASSUME Hypotheses, Init
    PROVE  CInv
<1>1. TInv /\ Rest(st, matrix)
    BY TypeInit, RestInit DEF Hypotheses
<1>2. /\ st.combo_buffer = <<>> /\ st.key_buffer = <<>> /\ matrix = {}
      /\ \A c \in Combo : st.combo[c] = Fresh
    BY DEF Init
<1>3. KeptKeys(st) = {} /\ Range(st.combo_buffer) = {}
    BY <1>2 DEF KeptKeys, Range
<1>4. \A c \in Combo : ~st.combo[c].active /\ st.combo[c].state = {}
    BY <1>2 DEF Fresh
<1>5. Neat(st, matrix)
    BY <1>2, <1>3, <1>4 DEF Neat, Apart, Owed
<1>. QED BY <1>1, <1>5 DEF CInv

(* A press that is kept back is handed on once in the end, and any other at  *)
(* once: by itself or by one combo, and never by both (dump_key_buffer() and *)
(* apply_combo()).                                                           *)
THEOREM NoPressLost ==
    ASSUME TwoKeys, RingHolds, AnyOrder, BufferHolds, OvertakesAll, HoldMeetsAll
    PROVE  Spec => EveryPressOnce
<1>1. Hypotheses
    BY DEF Hypotheses
<1>2. Init => CInv
    BY <1>1, CInit
<1>3. CInv /\ [Next]_vars => CInv'
    BY <1>1, CStep
<1>4. CInv /\ [Next]_vars
        => [ \A k \in Kept \cup (matrix' \ matrix) : k \in Kept' \/ ReportedOnce(k)' ]_vars
    BY <1>1, EachStep DEF OnceStep
<1>. QED BY <1>2, <1>3, <1>4, PTL DEF Spec, EveryPressOnce

(* Nothing is released that is not pressed, if no combo is released before   *)
(* all of its keys are (release_combo()).                                    *)
THEOREM NothingReleasedTwice ==
    ASSUME TwoKeys, RingHolds, AnyOrder, BufferHolds, OvertakesAll, HoldMeetsAll, RELEASE_EARLY = {}
    PROVE  Spec => PressThenRelease
<1>1. Hypotheses
    BY DEF Hypotheses
<1>2. Init => CInv
    BY <1>1, CInit
<1>3. CInv /\ [Next]_vars => CInv'
    BY <1>1, CStep
<1>4. CInv /\ [Next]_vars => [ \A i \in DOMAIN out' : ~out'[i].pressed => PressedBefore(i) ]_vars
    BY <1>1, EachStep DEF PairStep
<1>. QED BY <1>2, <1>3, <1>4, PTL DEF Spec, PressThenRelease

(* A combo that is ready is reported, unless one takes its place that        *)
(* overlaps and is no shorter, it had to be held or tapped, or combos are    *)
(* switched off (drop_combo_from_buffer() and apply_combos()).               *)
THEOREM NoComboForgotten ==
    ASSUME TwoKeys, RingHolds, AnyOrder, BufferHolds, OvertakesAll, HoldMeetsAll, MeetsOvertaken
    PROVE  Spec => ReadyFires
<1>1. Hypotheses
    BY DEF Hypotheses
<1>2. Init => CInv
    BY <1>1, CInit
<1>3. CInv /\ [Next]_vars => CInv'
    BY <1>1, CStep
<1>4. CInv /\ [Next]_vars
        => [ \A c \in Combo : Ready(c) /\ ~Ready(c)' =>
                \/ [combo |-> c] \in reported'
                \/ \E b \in Range(st.combo_buffer') : Overlaps(b, c) /\ Len(Keys[b]) >= Len(Keys[c])
                \/ c \in MUST_HOLD \cup MUST_TAP
                \/ ~st.enabled' ]_vars
    BY <1>1, EachStep DEF FireStep
<1>. QED BY <1>2, <1>3, <1>4, PTL DEF Spec, ReadyFires

=============================================================================
