------------------------- MODULE WearLevelingProofs -------------------------
(* Proofs about WearLeveling, for every geometry of the backing store that *)
(* two bytes of address reach, every block that may be written and, but    *)
(* for the hypotheses of each theorem, every set of failing calls of init, *)
(* unlock, lock, erase and write.                                          *)
EXTENDS WearLeveling, WellFoundedInduction, SequenceTheorems, TLAPS

-----------------------------------------------------------------------------
(* The lock of the backing store.                                          *)

(* While a call runs it has unlocked the store itself and is to lock it      *)
(* again, or it has done neither; between calls the store is locked.  The    *)
(* first half is what makes every return path lock.                          *)
LockInv == unlocked \in BOOLEAN /\ locks = unlocked /\ LockedBetweenCalls

LEMMA RelockLocks ==
    ASSUME "lock" \notin Faults, unlocked \in BOOLEAN, locks = unlocked, NEW s, Relock(s)
    PROVE  unlocked' = FALSE
<1>1. \/ unlocked' = IF locks THEN FALSE ELSE unlocked
      \/ "lock" \in Faults
    BY DEF Relock
<1>2. CASE locks = TRUE
    BY <1>1, <1>2
<1>3. CASE locks = FALSE
    BY <1>1, <1>3
<1>4. QED BY <1>2, <1>3

LEMMA ReturnLocks ==
    ASSUME "lock" \notin Faults, unlocked \in BOOLEAN, locks = unlocked, NEW s, NEW addr, Return(s, addr)
    PROVE  unlocked' = FALSE /\ locks' = FALSE
BY RelockLocks DEF Return

LEMMA LockStep ==
    ASSUME "lock" \notin Faults, LockInv, [Next]_vars
    PROVE  LockInv'
<1> USE DEF LockInv, LockedBetweenCalls
<1>1. CASE PowerLoss
    BY <1>1 DEF PowerLoss
<1>2. CASE wear_leveling_init
    BY <1>2 DEF wear_leveling_init
<1>3. CASE InitFails
    BY <1>3 DEF InitFails
<1>4. ASSUME NEW a \in Address, NEW v \in Blocks, WriteSame(a, v)
      PROVE  LockInv'
    BY <1>4 DEF WriteSame
<1>5. ASSUME NEW a \in Address, NEW v \in Blocks, Write(a, v)
      PROVE  LockInv'
  <2>1. CASE unlocked' = TRUE /\ locks' = ~unlocked /\ pc' = "append"
    <3>1. unlocked = FALSE
        BY <1>5 DEF Write
    <3>2. QED BY <2>1, <3>1
  <2>2. CASE UNCHANGED <<unlocked, locks, pc>>
      BY <2>2
  <2>3. QED BY <2>1, <2>2, <1>5 DEF Write
<1>6. CASE EraseCall
  <2>1. CASE unlocked' = TRUE /\ locks' = ~unlocked /\ pc' = "wipe"
    <3>1. unlocked = FALSE
        BY <1>6 DEF EraseCall
    <3>2. QED BY <2>1, <3>1
  <2>2. CASE UNCHANGED <<unlocked, locks, pc>>
      BY <2>2
  <2>3. QED BY <2>1, <2>2, <1>6 DEF EraseCall
<1>7. CASE AppendWord
  <2>1. CASE Return("SUCCESS", write_address + 1)
      BY <2>1, ReturnLocks
  <2>2. CASE UNCHANGED <<cache, unlocked, next, locks, block, result>> /\ pc' = "erase"
      BY <2>2, <1>7 DEF AppendWord
  <2>3. CASE UNCHANGED <<cache, unlocked, pc, next, locks, block, result>>
      BY <2>3, <1>7 DEF AppendWord
  <2>4. QED BY <2>1, <2>2, <2>3, <1>7 DEF AppendWord
<1>8. CASE AppendFails
    BY <1>8, ReturnLocks DEF AppendFails
<1>9. CASE EraseSector
  <2>1. CASE UNCHANGED <<cache, write_address, unlocked, pc, todo, locks, block, result>>
      BY <2>1, <1>9 DEF EraseSector
  <2>2. CASE Return("SUCCESS", 1)
      BY <2>2, ReturnLocks
  <2>3. CASE /\ pc' = "data"
             /\ \/ unlocked' = TRUE /\ locks' = (locks \/ ~unlocked)
                \/ UNCHANGED <<unlocked, locks>>
      BY <2>3
  <2>4. QED BY <2>1, <2>2, <2>3, <1>9 DEF EraseSector
<1>10. CASE EraseFails
    BY <1>10, ReturnLocks DEF EraseFails
<1>11. CASE WriteData
    BY <1>11 DEF WriteData
<1>12. CASE WriteSum
  <2>1. CASE Return("CONSOLIDATED", 1)
      BY <2>1, ReturnLocks
  <2>2. CASE UNCHANGED <<cache, write_address, unlocked, pc, todo, locks, block, result>>
      BY <2>2, <1>12 DEF WriteSum
  <2>3. QED BY <2>1, <2>2, <1>12 DEF WriteSum
<1>13. CASE ConsolidationFails
    BY <1>13, ReturnLocks DEF ConsolidationFails
<1>14. CASE UNCHANGED vars
    BY <1>14 DEF vars
<1>15. QED
    BY <1>1, <1>2, <1>3, <1>4, <1>5, <1>6, <1>7, <1>8, <1>9, <1>10, <1>11, <1>12,
       <1>13, <1>14 DEF Next

(* Whatever else fails, and wherever power is lost, no call of wear leveling *)
(* returns with the backing store unlocked.                                  *)
THEOREM LockedAgain ==
    ASSUME "lock" \notin Faults
    PROVE  Spec => []LockedBetweenCalls
<1>1. Init => LockInv
    BY DEF Init, LockInv, LockedBetweenCalls
<1>2. LockInv /\ [Next]_vars => LockInv'
    BY LockStep
<1>3. LockInv => LockedBetweenCalls
    BY DEF LockInv
<1>4. QED BY <1>1, <1>2, <1>3, PTL DEF Spec

-----------------------------------------------------------------------------
(* Playback, as a recursive function of the slot: what it is at a slot, by *)
(* unfolding it, and induction from the end of the log to its start.       *)

(* Every nonempty set of naturals has a least element.                     *)
LEMMA LeastElement ==
    ASSUME NEW S \in SUBSET Nat, S # {}
    PROVE  \E x \in S : \A y \in S : x <= y
<1>1. PICK x \in S : \A y \in S : ~(<<y, x>> \in OpToRel(<, Nat))
    BY NatLessThanWellFounded, WFMin, Zenon
<1>2. ASSUME NEW y \in S PROVE x <= y
  <2>. DEFINE R == OpToRel(<, Nat)
  <2>1. <<y, x>> \notin R
      BY <1>1, Zenon
  <2>2. R = {p \in Nat \X Nat : p[1] < p[2]}
      BY Zenon DEF OpToRel
  <2>. HIDE DEF R
  <2>. QED BY <2>1, <2>2
<1>. QED BY <1>2

(* What holds past N, and at a number up to N whenever it holds at all       *)
(* greater ones, holds at every number.                                      *)
LEMMA DownwardInduction ==
    ASSUME NEW N \in Nat, NEW S,
           \A i \in Nat : i > N => i \in S,
           \A i \in 0..N : (\A j \in Nat : j > i => j \in S) => i \in S
    PROVE  \A i \in Nat : i \in S
<1>. SUFFICES ASSUME NEW k \in Nat, k \notin S PROVE FALSE
    OBVIOUS
<1>. DEFINE T == {m \in Nat : m <= N /\ N - m \notin S}
<1>1. k <= N /\ N - k \in Nat /\ N - (N - k) = k
    OBVIOUS
<1>2. N - k \in T
    BY <1>1
<1>3. PICK t \in T : \A y \in T : t <= y
  <2>1. T \in SUBSET Nat
      OBVIOUS
  <2>. HIDE DEF T
  <2>. QED BY <2>1, <1>2, LeastElement
<1>4. N - t \in 0..N /\ N - t \notin S
    OBVIOUS
<1>5. PICK j \in Nat : j > N - t /\ j \notin S
    BY <1>4
<1>6. N - j \in T /\ N - j < t
  <2>1. j <= N
      BY <1>5
  <2>2. N - j \in Nat /\ N - (N - j) = j
      BY <2>1
  <2>. QED BY <2>1, <2>2, <1>5
<1>. QED BY <1>3, <1>6

(* A word, a log of words, and the eight bytes that decoding looks at.     *)
WordT == [1..WRITE_SIZE -> Nat]
LogT  == [Slot -> WordT]

RawAt(lg, outside, i) ==
    [b \in 1..8 |-> Word(lg, outside, i + (b - 1) \div WRITE_SIZE)[((b - 1) % WRITE_SIZE) + 1]]

(* An entry is what its eight bytes say.                                   *)
LEMMA EntryIsDecoded ==
    ASSUME NEW lg, NEW o, NEW i
    PROVE  EntryAt(lg, o, i) = Decoded(RawAt(lg, o, i))
BY DEF EntryAt, RawAt

(* A byte of an entry, by word and place in the word.                      *)
LEMMA ByteIndex ==
    ASSUME NEW b \in 1..8
    PROVE  /\ ((b - 1) % WRITE_SIZE) + 1 \in 1..WRITE_SIZE
           /\ (b - 1) \div WRITE_SIZE \in Nat
           /\ b = WRITE_SIZE * ((b - 1) \div WRITE_SIZE) + ((b - 1) % WRITE_SIZE) + 1
<1>1. CASE WRITE_SIZE = 2 BY <1>1
<1>2. CASE WRITE_SIZE = 4 BY <1>2
<1>3. CASE WRITE_SIZE = 8 BY <1>3
<1>. QED BY <1>1, <1>2, <1>3, WearAssumption

(* The eight bytes are numbers.                                            *)
LEMMA RawType ==
    ASSUME NEW lg \in LogT, NEW o \in WordT, NEW i \in Nat
    PROVE  RawAt(lg, o, i) \in [1..8 -> Nat]
<1>. SUFFICES ASSUME NEW b \in 1..8
     PROVE  Word(lg, o, i + (b - 1) \div WRITE_SIZE)[((b - 1) % WRITE_SIZE) + 1] \in Nat
    BY DEF RawAt
<1>1. Word(lg, o, i + (b - 1) \div WRITE_SIZE) \in WordT
    BY DEF Word, LogT
<1>. QED BY <1>1, ByteIndex DEF WordT

(* A multibyte entry has one to five words, whatever its length says.      *)
LEMMA MultibyteWordsRange ==
    ASSUME NEW l \in 0..7
    PROVE  MultibyteWords(l) \in 1..5
<1>1. CASE WRITE_SIZE = 2 BY <1>1 DEF MultibyteWords
<1>2. CASE WRITE_SIZE = 4 BY <1>2 DEF MultibyteWords
<1>3. CASE WRITE_SIZE = 8 BY <1>3 DEF MultibyteWords
<1>. QED BY <1>1, <1>2, <1>3, WearAssumption

(* An entry has one to five words.                                         *)
LEMMA DecodedWords ==
    ASSUME NEW raw \in [1..8 -> Nat]
    PROVE  Decoded(raw).words \in 1..5
<1>1. raw[1] \in Nat
    OBVIOUS
<1>2. MultibyteLength(raw) \in 0..7
    BY <1>1 DEF MultibyteLength
<1>3. MultibyteWords(MultibyteLength(raw)) \in 1..5
    BY <1>2, MultibyteWordsRange
<1>. QED BY <1>3 DEF Decoded

(* So has every entry.                                                     *)
LEMMA EntryWords ==
    ASSUME NEW lg \in LogT, NEW o \in WordT, NEW i \in Nat
    PROVE  EntryAt(lg, o, i).words \in 1..5
BY RawType, DecodedWords, EntryIsDecoded

(* Playback at slot i, given playback at later slots.                      *)
PlayAt(lg, o, f, i) ==
    [c \in Cache |->
          IF i \notin Slot \/ EndOfLog(lg, i)
          THEN [ok |-> TRUE, cache |-> c, next |-> i]
          ELSE LET e == EntryAt(lg, o, i) IN
               IF Inside(e) THEN f[i + e.words][Overwrite(c, e.address, e.value)]
                            ELSE [ok |-> FALSE, cache |-> c, next |-> LOG_SLOTS + 1]]

(* f is playback at every slot.                                            *)
Solves(lg, o, f) == f = [i \in Nat |-> PlayAt(lg, o, f, i)]

(* Playback is such a function, if there is one ...                        *)
LEMMA SolutionIsPlayback ==
    ASSUME NEW lg, NEW o, NEW f, Solves(lg, o, f)
    PROVE  Solves(lg, o, Playback(lg, o))
<1>1. f = [i \in Nat |-> [c \in Cache |->
          IF i \notin Slot \/ EndOfLog(lg, i)
          THEN [ok |-> TRUE, cache |-> c, next |-> i]
          ELSE LET e == EntryAt(lg, o, i) IN
               IF Inside(e) THEN f[i + e.words][Overwrite(c, e.address, e.value)]
                            ELSE [ok |-> FALSE, cache |-> c, next |-> LOG_SLOTS + 1]]]
    BY Zenon DEF Solves, PlayAt
<1>. QED BY <1>1, Zenon DEF Playback, Solves, PlayAt

(* ... playback at a slot looks at later slots only ...                    *)
LEMMA SamePlayAt ==
    ASSUME NEW lg \in LogT, NEW o \in WordT, NEW i \in Nat, NEW f, NEW g,
           \A j \in Nat : j > i => f[j] = g[j]
    PROVE  PlayAt(lg, o, f, i) = PlayAt(lg, o, g, i)
<1>1. EntryAt(lg, o, i).words \in 1..5
    BY EntryWords
<1>2. f[i + EntryAt(lg, o, i).words] = g[i + EntryAt(lg, o, i).words]
    BY <1>1
<1>. QED BY <1>2 DEF PlayAt

(* f is right from slot i on.                                              *)
Partial(lg, o, i) == \E f : \A j \in Nat : j >= i => f[j] = PlayAt(lg, o, f, j)

(* ... so there is one.                                                    *)
LEMMA PlaybackIs ==
    ASSUME NEW lg \in LogT, NEW o \in WordT
    PROVE  \A i \in Nat : Playback(lg, o)[i] = PlayAt(lg, o, Playback(lg, o), i)
<1>. DEFINE S == {i \in Nat : Partial(lg, o, i)}
<1>1. ASSUME NEW i \in Nat, i > LOG_SLOTS PROVE i \in S
  <2>. DEFINE f == [j \in Nat |-> PlayAt(lg, o, 0, j)]
  <2>1. ASSUME NEW j \in Nat, j >= i PROVE f[j] = PlayAt(lg, o, f, j)
    <3>1. j \notin Slot
        BY <1>1, <2>1, WearAssumption DEF Slot
    <3>2. \A g : PlayAt(lg, o, g, j) = [c \in Cache |-> [ok |-> TRUE, cache |-> c, next |-> j]]
        BY <3>1 DEF PlayAt
    <3>. QED BY <3>2
  <2>. QED BY <2>1 DEF Partial
<1>2. ASSUME NEW i \in 0..LOG_SLOTS, \A j \in Nat : j > i => j \in S PROVE i \in S
  <2>0. LOG_SLOTS \in Nat /\ i \in Nat
      BY WearAssumption
  <2>1. PICK f : \A j \in Nat : j >= i + 1 => f[j] = PlayAt(lg, o, f, j)
      BY <1>2, <2>0 DEF Partial
  <2>. DEFINE g == [j \in Nat |-> IF j = i THEN PlayAt(lg, o, f, i) ELSE f[j]]
  <2>2. \A j \in Nat : j > i => g[j] = f[j]
      BY <2>0
  <2>3. g[i] = PlayAt(lg, o, f, i)
      BY <2>0
  <2>. HIDE DEF g
  <2>4. ASSUME NEW j \in Nat, j >= i PROVE g[j] = PlayAt(lg, o, g, j)
    <3>1. PlayAt(lg, o, g, j) = PlayAt(lg, o, f, j)
        BY <2>2, <2>4, <2>0, SamePlayAt
    <3>2. CASE j = i
        BY <3>1, <3>2, <2>3
    <3>3. CASE j > i
        BY <3>1, <3>3, <2>1, <2>2, <2>0
    <3>. QED BY <3>2, <3>3, <2>4, <2>0
  <2>. QED BY <2>4, <2>0 DEF Partial
<1>3. 0 \in S
  <2>. HIDE DEF S
  <2>1. LOG_SLOTS \in Nat
      BY WearAssumption
  <2>. QED BY <1>1, <1>2, <2>1, DownwardInduction
<1>4. PICK f : \A j \in Nat : f[j] = PlayAt(lg, o, f, j)
    BY <1>3 DEF Partial
<1>. DEFINE g == [j \in Nat |-> f[j]]
<1>5. Solves(lg, o, g)
  <2>1. \A j \in Nat : PlayAt(lg, o, g, j) = PlayAt(lg, o, f, j)
      BY SamePlayAt
  <2>. QED BY <2>1, <1>4 DEF Solves
<1>. HIDE DEF g
<1>6. Solves(lg, o, Playback(lg, o))
    BY <1>5, SolutionIsPlayback
<1>. DEFINE P == Playback(lg, o)
<1>7. P = [i \in Nat |-> PlayAt(lg, o, P, i)]
    BY <1>6 DEF Solves
<1>. HIDE DEF P
<1>8. \A i \in Nat : P[i] = PlayAt(lg, o, P, i)
    BY <1>7
<1>. QED BY <1>8 DEF P

(* Playback ends at an erased word or past the last slot ...               *)
LEMMA PlaybackEnds ==
    ASSUME NEW lg \in LogT, NEW o \in WordT, NEW i \in Nat, NEW c \in Cache,
           i \notin Slot \/ lg[i] = Zero
    PROVE  Playback(lg, o)[i][c] = [ok |-> TRUE, cache |-> c, next |-> i]
<1>1. Playback(lg, o)[i] = PlayAt(lg, o, Playback(lg, o), i)
    BY PlaybackIs
<1>2. PlayAt(lg, o, Playback(lg, o), i)[c] = [ok |-> TRUE, cache |-> c, next |-> i]
    BY DEF PlayAt, EndOfLog
<1>. QED BY <1>1, <1>2

(* ... goes on behind an entry inside the emulated EEPROM ...              *)
LEMMA PlaybackGoesOn ==
    ASSUME NEW lg \in LogT, NEW o \in WordT, NEW i \in Slot, NEW c \in Cache,
           lg[i] # Zero, Inside(EntryAt(lg, o, i))
    PROVE  Playback(lg, o)[i][c] =
             Playback(lg, o)[i + EntryAt(lg, o, i).words]
                            [Overwrite(c, EntryAt(lg, o, i).address, EntryAt(lg, o, i).value)]
<1>1. Playback(lg, o)[i] = PlayAt(lg, o, Playback(lg, o), i)
    BY PlaybackIs DEF Slot
<1>. DEFINE P == Playback(lg, o)
            e == EntryAt(lg, o, i)
<1>. HIDE DEF P
<1>2. PlayAt(lg, o, P, i)[c] = P[i + e.words][Overwrite(c, e.address, e.value)]
    BY DEF PlayAt, EndOfLog
<1>. QED BY <1>1, <1>2 DEF P

(* ... and gives up at one that is not.                                    *)
LEMMA PlaybackGivesUp ==
    ASSUME NEW lg \in LogT, NEW o \in WordT, NEW i \in Slot, NEW c \in Cache,
           lg[i] # Zero, ~Inside(EntryAt(lg, o, i))
    PROVE  Playback(lg, o)[i][c] = [ok |-> FALSE, cache |-> c, next |-> LOG_SLOTS + 1]
<1>1. Playback(lg, o)[i] = PlayAt(lg, o, Playback(lg, o), i)
    BY PlaybackIs DEF Slot
<1>2. PlayAt(lg, o, Playback(lg, o), i)[c] = [ok |-> FALSE, cache |-> c, next |-> LOG_SLOTS + 1]
    BY DEF PlayAt, EndOfLog
<1>. QED BY <1>1, <1>2

-----------------------------------------------------------------------------
(* Chains of entries.  A playback depends on the log only where the        *)
(* entries that it reads are.                                              *)

(* The values of an entry are bytes.                                       *)
GoodBytes(e) == e.value \in Seq(Byte)

(* B holds the slots of the entries up to n, each of them inside the       *)
(* emulated EEPROM.                                                        *)
Chain(lg, o, B, n) ==
    /\ n \in B /\ B \in SUBSET (1..n)
    /\ \A i \in B \ {n} :
          /\ i \in Slot /\ lg[i] # Zero
          /\ Inside(EntryAt(lg, o, i)) /\ GoodBytes(EntryAt(lg, o, i))
          /\ i + EntryAt(lg, o, i).words \in B

(* Overwriting bytes by bytes leaves a cache.                              *)
LEMMA OverwriteType ==
    ASSUME NEW c \in Cache, NEW a, NEW v \in Seq(Byte)
    PROVE  Overwrite(c, a, v) \in Cache
<1>. SUFFICES ASSUME NEW x \in Address
     PROVE  (IF x - a \in 0..(Len(v) - 1) THEN v[x - a + 1] ELSE c[x]) \in Byte
    BY DEF Overwrite, Cache
<1>1. CASE x - a \in 0..(Len(v) - 1)
    BY <1>1
<1>2. CASE x - a \notin 0..(Len(v) - 1)
    BY <1>2 DEF Cache
<1>. QED BY <1>1, <1>2

(* Addresses are numbers.                                                  *)
LEMMA DecodedAddress ==
    ASSUME NEW raw \in [1..8 -> Nat]
    PROVE  Decoded(raw).address \in Nat
<1>1. raw[1] \in Nat /\ raw[2] \in Nat /\ raw[3] \in Nat /\ BYTE \in Nat
    BY WearAssumption
<1>2. BYTE * raw[2] + raw[3] \in Nat /\ raw[1] % 64 \in Nat
    BY <1>1
<1>3. BYTE * (raw[1] % 32) + raw[2] \in Nat
  <2>1. raw[1] % 32 \in Nat
      BY <1>1
  <2>2. BYTE * (raw[1] % 32) \in Nat
      BY <2>1, <1>1
  <2>. QED BY <2>2, <1>1
<1>4. 2 * (BYTE * (raw[1] % 32) + raw[2]) \in Nat
    BY <1>3
<1>5. LOGICAL_SIZE \in Nat
    BY WearAssumption
<1>. QED BY <1>2, <1>4, <1>5 DEF Decoded

(* Decoding looks at the words of the entry only.                          *)
LEMMA SameDecoded ==
    ASSUME NEW r1 \in [1..8 -> Nat], NEW r2 \in [1..8 -> Nat],
           \A b \in 1..8 : b <= WRITE_SIZE * Decoded(r1).words => r1[b] = r2[b]
    PROVE  Decoded(r1) = Decoded(r2)
<1>. DEFINE n == Decoded(r1).words
            l == MultibyteLength(r1)
<1>1. WRITE_SIZE \in {2, 4, 8} /\ n \in 1..5
    BY WearAssumption, DecodedWords
<1>2. r1[1] = r2[1] /\ r1[2] = r2[2] /\ r1[1] \in Nat
  <2>1. 2 <= WRITE_SIZE * n
    <3>. HIDE DEF n
    <3>1. CASE WRITE_SIZE = 2 BY <3>1, <1>1
    <3>2. CASE WRITE_SIZE = 4 BY <3>2, <1>1
    <3>3. CASE WRITE_SIZE = 8 BY <3>3, <1>1
    <3>. QED BY <3>1, <3>2, <3>3, <1>1
  <2>2. WRITE_SIZE * n \in Nat
    <3>. HIDE DEF n
    <3>. QED BY <1>1
  <2>3. 1 <= WRITE_SIZE * n /\ 2 <= WRITE_SIZE * n
    <3>. HIDE DEF n
    <3>. QED BY <2>1, <2>2
  <2>. QED BY <2>3
<1>3. MultibyteLength(r2) = l /\ l \in 0..7
    BY <1>2 DEF MultibyteLength
<1>4. ASSUME r1[1] \div 64 = 0
      PROVE  r1[3] = r2[3] /\ MultibyteValues(r1) = MultibyteValues(r2)
  <2>1. n = MultibyteWords(l)
      BY <1>4 DEF Decoded
  <2>2. 3 + l <= WRITE_SIZE * n
    <3>. HIDE DEF n, l
    <3>1. CASE WRITE_SIZE = 2 BY <3>1, <2>1, <1>3 DEF MultibyteWords
    <3>2. CASE WRITE_SIZE = 4 BY <3>2, <2>1, <1>3 DEF MultibyteWords
    <3>3. CASE WRITE_SIZE = 8 BY <3>3, <2>1, <1>3 DEF MultibyteWords
    <3>. QED BY <3>1, <3>2, <3>3, <1>1
  <2>3. \A b \in 1..8 : b <= 3 + l => r1[b] = r2[b]
    <3>1. WRITE_SIZE * n \in Nat
        BY <1>1
    <3>. HIDE DEF n, l
    <3>2. \A b \in 1..8 : b <= 3 + l => b <= WRITE_SIZE * n
        BY <2>2, <1>3, <3>1
    <3>. QED BY <3>2 DEF n
  <2>4. r1[3] = r2[3]
      BY <2>3, <1>3
  <2>5. SubSeq(r1, 4, 3 + l) = SubSeq(r2, 4, 3 + l)
    <3>. HIDE DEF n, l
    <3>1. CASE l <= 5
      <4>1. \A j \in 1..l : r1[j + 3] = r2[j + 3]
          BY <3>1, <1>3, <2>3
      <4>2. \A r : SubSeq(r, 4, 3 + l) = [j \in 1..l |-> r[j + 3]]
        <5>1. SUFFICES ASSUME NEW r PROVE SubSeq(r, 4, 3 + l) = [j \in 1..l |-> r[j + 3]]
            OBVIOUS
        <5>2. 1 + (3 + l) - 4 = l
            BY <1>3
        <5>3. \A j \in 1..l : 4 + j - 1 = j + 3
            BY <1>3
        <5>. QED BY <5>2, <5>3, <1>3
      <4>. QED BY <4>1, <4>2
    <3>2. CASE l > 5
      <4>1. \A b \in 1..8 : r1[b] = r2[b]
          BY <3>2, <1>3, <2>3
      <4>2. r1 = r2
          BY <4>1
      <4>. QED BY <4>2
    <3>. QED BY <3>1, <3>2, <1>3
  <2>. QED BY <2>4, <2>5, <1>3 DEF MultibyteValues
<1>. HIDE DEF n, l
<1>5. CASE r1[1] \div 64 = 0
    BY <1>2, <1>3, <1>4, <1>5 DEF Decoded, l
<1>6. CASE r1[1] \div 64 # 0
    BY <1>2, <1>6 DEF Decoded
<1>. QED BY <1>5, <1>6

(* Two logs read the same up to n.                                         *)
Agree(lg1, o1, lg2, o2, n) ==
    \A j \in Nat \ {0} : j < n => Word(lg1, o1, j) = Word(lg2, o2, j)

(* Two logs that agree on its words have the same entry.                   *)
LEMMA SameEntry ==
    ASSUME NEW lg1 \in LogT, NEW o1 \in WordT, NEW lg2 \in LogT, NEW o2 \in WordT,
           NEW n \in Nat, Agree(lg1, o1, lg2, o2, n), NEW i \in Nat \ {0},
           i + EntryAt(lg1, o1, i).words <= n
    PROVE  EntryAt(lg2, o2, i) = EntryAt(lg1, o1, i)
<1>. DEFINE r1 == RawAt(lg1, o1, i)
            r2 == RawAt(lg2, o2, i)
            w  == Decoded(r1).words
<1>1. r1 \in [1..8 -> Nat] /\ r2 \in [1..8 -> Nat]
    BY RawType
<1>2. EntryAt(lg1, o1, i) = Decoded(r1) /\ EntryAt(lg2, o2, i) = Decoded(r2)
    BY EntryIsDecoded
<1>3. i + w <= n /\ w \in 1..5
    BY <1>1, <1>2, DecodedWords
<1>4. ASSUME NEW b \in 1..8, b <= WRITE_SIZE * w
      PROVE  r1[b] = r2[b]
  <2>. DEFINE q == (b - 1) \div WRITE_SIZE
  <2>1. q \in Nat /\ WRITE_SIZE * q < b
    <3>1. CASE WRITE_SIZE = 2 BY <3>1
    <3>2. CASE WRITE_SIZE = 4 BY <3>2
    <3>3. CASE WRITE_SIZE = 8 BY <3>3
    <3>. QED BY <3>1, <3>2, <3>3, WearAssumption
  <2>2. WRITE_SIZE * q < WRITE_SIZE * w
    <3>1. WRITE_SIZE * q \in Nat /\ WRITE_SIZE * w \in Nat /\ b \in Nat
      <4>. HIDE DEF q, w
      <4>. QED BY <1>3, <2>1, WearAssumption
    <3>. HIDE DEF q, w
    <3>. QED BY <1>4, <2>1, <3>1
  <2>3. q < w
    <3>. HIDE DEF q, w
    <3>1. CASE WRITE_SIZE = 2 BY <3>1, <2>1, <2>2, <1>3
    <3>2. CASE WRITE_SIZE = 4 BY <3>2, <2>1, <2>2, <1>3
    <3>3. CASE WRITE_SIZE = 8 BY <3>3, <2>1, <2>2, <1>3
    <3>. QED BY <3>1, <3>2, <3>3, WearAssumption
  <2>4. i + q \in Nat \ {0} /\ i + q < n
    <3>. HIDE DEF q, w
    <3>. QED BY <2>1, <2>3, <1>3
  <2>5. Word(lg1, o1, i + q) = Word(lg2, o2, i + q)
    <3>. HIDE DEF q, w
    <3>. QED BY <2>4 DEF Agree
  <2>. QED BY <2>5 DEF RawAt
<1>5. Decoded(r1) = Decoded(r2)
  <2>. HIDE DEF r1, r2
  <2>. QED BY <1>1, <1>4, SameDecoded DEF w
<1>. QED BY <1>2, <1>5

(* Two logs that agree on the words before n play the same entries up to n.  *)
Together(P1, P2, i, n) == \A c \in Cache : \E d \in Cache : P1[i][c] = P1[n][d] /\ P2[i][c] = P2[n][d]

(* Two logs that agree up to n are played back alike up to n.              *)
LEMMA SamePrefix ==
    ASSUME NEW lg1 \in LogT, NEW o1 \in WordT, NEW lg2 \in LogT, NEW o2 \in WordT,
           NEW B, NEW n \in Nat, Agree(lg1, o1, lg2, o2, n), Chain(lg1, o1, B, n),
           \A i \in B \ {n} : i \in Slot /\ lg2[i] = lg1[i]
    PROVE  /\ Chain(lg2, o2, B, n)
           /\ \A i \in B : Together(Playback(lg1, o1), Playback(lg2, o2), i, n)
<1>. DEFINE P1 == Playback(lg1, o1)
            P2 == Playback(lg2, o2)
            e1(i) == EntryAt(lg1, o1, i)
            e2(i) == EntryAt(lg2, o2, i)
            S == {i \in Nat : i \in B => Together(P1, P2, i, n)}
<1>0. B \in SUBSET (1..n) /\ n \in B
    BY DEF Chain
<1>1. ASSUME NEW i \in B, i # n
      PROVE  /\ e2(i) = e1(i) /\ e1(i).words \in 1..5 /\ i + e1(i).words \in B
             /\ i \in Slot /\ lg1[i] # Zero /\ lg2[i] # Zero
             /\ Inside(e1(i)) /\ e1(i).value \in Seq(Byte)
  <2>1. i \in Nat \ {0} /\ i + e1(i).words \in B /\ e1(i).words \in 1..5
      BY <1>0, <1>1, EntryWords DEF Chain
  <2>2. i + e1(i).words <= n
      BY <2>1, <1>0
  <2>3. e2(i) = e1(i)
      BY <2>1, <2>2, SameEntry
  <2>. QED BY <2>1, <2>3, <1>1 DEF Chain, GoodBytes
<1>2. Chain(lg2, o2, B, n)
    BY <1>0, <1>1 DEF Chain, GoodBytes
<1>3. ASSUME NEW i \in Nat, i > n PROVE i \in S
    BY <1>3, <1>0
<1>4. ASSUME NEW i \in 0..n, \A j \in Nat : j > i => j \in S PROVE i \in S
  <2>1. CASE i \notin B
      BY <2>1
  <2>2. CASE i = n
      BY <2>2 DEF Together
  <2>3. CASE i \in B /\ i # n
    <3>. DEFINE j == i + e1(i).words
    <3>1. /\ e2(i) = e1(i) /\ e1(i).words \in 1..5 /\ j \in B
          /\ i \in Slot /\ lg1[i] # Zero /\ lg2[i] # Zero
          /\ Inside(e1(i)) /\ e1(i).value \in Seq(Byte)
        BY <1>1, <2>3
    <3>2. Together(P1, P2, j, n)
      <4>1. j \in Nat /\ j > i
          BY <3>1
      <4>. HIDE DEF j
      <4>. QED BY <4>1, <3>1, <1>4
    <3>3. ASSUME NEW c \in Cache
          PROVE  \E d \in Cache : P1[i][c] = P1[n][d] /\ P2[i][c] = P2[n][d]
      <4>. DEFINE d1 == Overwrite(c, e1(i).address, e1(i).value)
      <4>1. d1 \in Cache
          BY <3>1, OverwriteType
      <4>2. P1[i][c] = P1[j][d1]
          BY <3>1, PlaybackGoesOn
      <4>3. P2[i][c] = P2[j][d1]
        <5>1. Inside(e2(i))
            BY <3>1
        <5>2. P2[i][c] = P2[i + e2(i).words][Overwrite(c, e2(i).address, e2(i).value)]
            BY <5>1, <3>1, PlaybackGoesOn
        <5>. QED BY <5>2, <3>1
      <4>. HIDE DEF P1, P2, j, d1
      <4>. QED BY <4>1, <4>2, <4>3, <3>2 DEF Together
    <3>4. Together(P1, P2, i, n)
      <4>. HIDE DEF P1, P2
      <4>. QED BY <3>3 DEF Together
    <3>. QED BY <3>4
  <2>. QED BY <2>1, <2>2, <2>3
<1>5. \A i \in Nat : i \in S
  <2>. HIDE DEF S
  <2>. QED BY <1>3, <1>4, DownwardInduction
<1>6. ASSUME NEW i \in B PROVE Together(P1, P2, i, n)
    BY <1>5, <1>0
<1>. QED BY <1>2, <1>6

(* A log that is erased from the end of the chain on is played back to there.*)
LEMMA ChainPlays ==
    ASSUME NEW lg \in LogT, NEW o \in WordT, NEW B, NEW n \in Nat, Chain(lg, o, B, n),
           n \notin Slot \/ lg[n] = Zero, NEW i \in B, NEW c \in Cache
    PROVE  \E d \in Cache : Playback(lg, o)[i][c] = [ok |-> TRUE, cache |-> d, next |-> n]
<1>1. Agree(lg, o, lg, o, n)
    BY DEF Agree
<1>2. \A j \in B \ {n} : j \in Slot /\ lg[j] = lg[j]
    BY DEF Chain
<1>3. Together(Playback(lg, o), Playback(lg, o), i, n)
    BY <1>1, <1>2, SamePrefix
<1>4. PICK d \in Cache : Playback(lg, o)[i][c] = Playback(lg, o)[n][d]
    BY <1>3 DEF Together
<1>. QED BY <1>4, PlaybackEnds

-----------------------------------------------------------------------------
(* The words of an entry, as they are when all of them were appended or    *)
(* when power was lost before the last.                                    *)

(* What a read past the end of the store returns.                          *)
Outside == {Zero, [i \in 1..WRITE_SIZE |-> BYTE - 1]}

(* The first k of the words ws are in log X from slot w on; nothing is at  *)
(* n or behind.                                                            *)
Placed(X, w, ws, k) == \A q \in 1..k : w + q - 1 \in Slot /\ X[w + q - 1] = ws[q]
Erased(X, n) == \A j \in Slot : j >= n => X[j] = Zero

(* The eight bytes of a multibyte entry.                                   *)
FullEntry(a, v) == <<8 * Len(v), a \div BYTE, a % BYTE>>
                     \o [i \in 1..5 |-> IF i <= Len(v) THEN v[i] ELSE 0]

(* The two bytes of an address make up the address.                        *)
LEMMA AddressParts ==
    ASSUME NEW a \in Nat
    PROVE  a \div BYTE \in Nat /\ a % BYTE \in Nat /\ BYTE * (a \div BYTE) + (a % BYTE) = a
<1>1. BYTE \in Nat /\ BYTE > 0
    BY WearAssumption
<1>. QED BY <1>1

(* A function on 1..n is a sequence of length n.                           *)
LEMMA FunctionIsSeq ==
    ASSUME NEW S, NEW n \in Nat, NEW s \in [1..n -> S]
    PROVE  s \in Seq(S) /\ Len(s) = n
OBVIOUS

(* The sequence of five bytes.                                             *)
LEMMA FiveBytes == ASSUME NEW t \in [1..5 -> Nat] PROVE t \in Seq(Nat) /\ Len(t) = 5
BY FunctionIsSeq

(* Three bytes and five make eight.                                        *)
LEMMA ThreeAndFive ==
    ASSUME NEW h \in [1..3 -> Nat], NEW t \in [1..5 -> Nat]
    PROVE  h \o t = [b \in 1..8 |-> IF b <= 3 THEN h[b] ELSE t[b - 3]]
<1>. DEFINE s == h \o t
<1>1. h \in Seq(Nat) /\ Len(h) = 3
    BY FunctionIsSeq
<1>2. t \in Seq(Nat) /\ Len(t) = 5
    BY FiveBytes
<1>3. s \in Seq(Nat) /\ Len(s) = 8
  <2>1. Len(h) + Len(t) = 8
      BY <1>1, <1>2
  <2>. QED BY <1>1, <1>2, <2>1, ConcatProperties
<1>4. \A i \in 1 .. Len(h) + Len(t) : s[i] = IF i <= Len(h) THEN h[i] ELSE t[i - Len(h)]
    BY <1>1, <1>2, ConcatProperties, Zenon
<1>. HIDE DEF s
<1>5. s = [b \in 1..8 |-> IF b <= 3 THEN h[b] ELSE t[b - 3]]
    BY <1>1, <1>2, <1>3, <1>4
<1>. QED BY <1>5 DEF s

(* The bytes of a multibyte entry, one by one.                             *)
LEMMA FullEntryIs ==
    ASSUME NEW a \in Nat, NEW v \in Seq(Byte), Len(v) \in 1..5
    PROVE  /\ FullEntry(a, v) \in [1..8 -> Nat]
           /\ FullEntry(a, v)[1] = 8 * Len(v)
           /\ FullEntry(a, v)[2] = a \div BYTE
           /\ FullEntry(a, v)[3] = a % BYTE
           /\ \A j \in 1..5 : FullEntry(a, v)[j + 3] = IF j <= Len(v) THEN v[j] ELSE 0
<1>. DEFINE h == <<8 * Len(v), a \div BYTE, a % BYTE>>
            t == [i \in 1..5 |-> IF i <= Len(v) THEN v[i] ELSE 0]
            s == [b \in 1..8 |-> IF b <= 3 THEN h[b] ELSE t[b - 3]]
<1>1. h \in [1..3 -> Nat] /\ h[1] = 8 * Len(v) /\ h[2] = a \div BYTE /\ h[3] = a % BYTE
  <2>1. a \div BYTE \in Nat /\ a % BYTE \in Nat
      BY AddressParts
  <2>2. 8 * Len(v) \in Nat
      OBVIOUS
  <2>. QED BY <2>1, <2>2
<1>2. t \in [1..5 -> Nat] /\ \A j \in 1..5 : t[j] = IF j <= Len(v) THEN v[j] ELSE 0
  <2>1. ASSUME NEW i \in 1..5, i <= Len(v) PROVE v[i] \in Nat
    <3>1. v[i] \in Byte
        BY <2>1
    <3>. QED BY <3>1 DEF Byte
  <2>. QED BY <2>1
<1>3. FullEntry(a, v) = h \o t
    BY DEF FullEntry
<1>. HIDE DEF h, t
<1>4. FullEntry(a, v) = s
    BY <1>1, <1>2, <1>3, ThreeAndFive
<1>5. s \in [1..8 -> Nat] /\ s[1] = h[1] /\ s[2] = h[2] /\ s[3] = h[3]
    BY <1>1, <1>2
<1>6. ASSUME NEW j \in 1..5 PROVE s[j + 3] = t[j]
  <2>1. j + 3 \in 1..8 /\ ~(j + 3 <= 3) /\ j + 3 - 3 = j
      OBVIOUS
  <2>. QED BY <2>1
<1>. HIDE DEF s
<1>. QED BY <1>1, <1>2, <1>4, <1>5, <1>6

(* A multibyte entry is at most eight bytes and has room for its values.   *)
LEMMA MultibyteFits ==
    ASSUME NEW l \in 1..5
    PROVE  /\ MultibyteWords(l) \in 1..4
           /\ WRITE_SIZE * MultibyteWords(l) <= 8
           /\ 3 + l <= WRITE_SIZE * MultibyteWords(l)
<1>1. CASE WRITE_SIZE = 2 BY <1>1 DEF MultibyteWords
<1>2. CASE WRITE_SIZE = 4 BY <1>2 DEF MultibyteWords
<1>3. CASE WRITE_SIZE = 8 BY <1>3 DEF MultibyteWords
<1>. QED BY <1>1, <1>2, <1>3, WearAssumption

(* The words that eight bytes are cut into.                                *)
LEMMA WordsOfIs ==
    ASSUME NEW full \in [1..8 -> Nat], NEW n \in 1..4, WRITE_SIZE * n <= 8
    PROVE  /\ WordsOf(full, n) \in Seq(WordT) /\ Len(WordsOf(full, n)) = n
           /\ \A q \in 1..n, b \in 1..WRITE_SIZE :
                 WordsOf(full, n)[q][b] = full[WRITE_SIZE * (q - 1) + b]
<1>1. ASSUME NEW q \in 1..n
      PROVE  /\ SubSeq(full, WRITE_SIZE * (q - 1) + 1, WRITE_SIZE * q)
                  = [b \in 1..WRITE_SIZE |-> full[WRITE_SIZE * (q - 1) + b]]
             /\ \A b \in 1..WRITE_SIZE : WRITE_SIZE * (q - 1) + b \in 1..8
  <2>1. CASE WRITE_SIZE = 2 BY <2>1
  <2>2. CASE WRITE_SIZE = 4 BY <2>2
  <2>3. CASE WRITE_SIZE = 8 BY <2>3
  <2>. QED BY <2>1, <2>2, <2>3, WearAssumption
<1>2. WordsOf(full, n) = [q \in 1..n |-> [b \in 1..WRITE_SIZE |-> full[WRITE_SIZE * (q - 1) + b]]]
    BY <1>1 DEF WordsOf
<1>3. WordsOf(full, n) \in [1..n -> WordT]
  <2>1. ASSUME NEW q \in 1..n
        PROVE  [b \in 1..WRITE_SIZE |-> full[WRITE_SIZE * (q - 1) + b]] \in WordT
      BY <1>1 DEF WordT
  <2>. QED BY <2>1, <1>2
<1>4. WordsOf(full, n) \in Seq(WordT) /\ Len(WordsOf(full, n)) = n
  <2>. HIDE DEF WordT
  <2>. QED BY <1>3
<1>5. ASSUME NEW q \in 1..n, NEW b \in 1..WRITE_SIZE
      PROVE  WordsOf(full, n)[q][b] = full[WRITE_SIZE * (q - 1) + b]
    BY <1>2
<1>. QED BY <1>4, <1>5

(* The words of a multibyte entry, byte by byte.                           *)
LEMMA MultibyteIs ==
    ASSUME NEW a \in Nat, NEW v \in Seq(Byte), Len(v) \in 1..5
    PROVE  /\ LOG_ENTRY_MAKE_MULTIBYTE(a, v) \in Seq(WordT)
           /\ Len(LOG_ENTRY_MAKE_MULTIBYTE(a, v)) = MultibyteWords(Len(v))
           /\ \A q \in 1..MultibyteWords(Len(v)), b \in 1..WRITE_SIZE :
                 LOG_ENTRY_MAKE_MULTIBYTE(a, v)[q][b] = FullEntry(a, v)[WRITE_SIZE * (q - 1) + b]
<1>1. LOG_ENTRY_MAKE_MULTIBYTE(a, v) = WordsOf(FullEntry(a, v), MultibyteWords(Len(v)))
    BY DEF LOG_ENTRY_MAKE_MULTIBYTE, FullEntry
<1>2. FullEntry(a, v) \in [1..8 -> Nat]
    BY FullEntryIs
<1>. DEFINE full == FullEntry(a, v)
            n    == MultibyteWords(Len(v))
<1>3. n \in 1..4 /\ WRITE_SIZE * n <= 8
    BY MultibyteFits
<1>. HIDE DEF full, n
<1>4. /\ WordsOf(full, n) \in Seq(WordT) /\ Len(WordsOf(full, n)) = n
      /\ \A q \in 1..n, b \in 1..WRITE_SIZE :
            WordsOf(full, n)[q][b] = full[WRITE_SIZE * (q - 1) + b]
    BY <1>2, <1>3, WordsOfIs DEF full
<1>. QED BY <1>1, <1>4 DEF full, n

(* Erased words and words past the end are words of bytes.                 *)
LEMMA OutsideType == /\ Zero \in WordT /\ Outside \subseteq WordT /\ Zero \in Outside
                     /\ \A o \in Outside, b \in 1..WRITE_SIZE : o[b] \in Byte
                     /\ \A b \in 1..WRITE_SIZE : Zero[b] = 0
<1>1. BYTE - 1 \in Byte /\ 0 \in Byte /\ Byte \subseteq Nat
    BY WearAssumption DEF Byte
<1>. QED BY <1>1 DEF Outside, Zero, WordT

(* A byte of a torn entry is the one that was written or one that is read   *)
(* from an erased word or from past the end of the store.                    *)
LEMMA TornByte ==
    ASSUME NEW X \in LogT, NEW o \in Outside, NEW i \in Slot, NEW a \in Nat,
           NEW v \in Seq(Byte), Len(v) \in 1..5,
           NEW k \in 1..MultibyteWords(Len(v)),
           Placed(X, i, LOG_ENTRY_MAKE_MULTIBYTE(a, v), k),
           k = MultibyteWords(Len(v)) \/ Erased(X, i + k),
           NEW b \in 1..8, b <= WRITE_SIZE * MultibyteWords(Len(v))
    PROVE  \/ RawAt(X, o, i)[b] = FullEntry(a, v)[b]
           \/ /\ b > WRITE_SIZE * k /\ RawAt(X, o, i)[b] \in Byte
              /\ o = Zero => RawAt(X, o, i)[b] = 0
<1>. DEFINE m == MultibyteWords(Len(v))
            q == (b - 1) \div WRITE_SIZE + 1
            p == ((b - 1) % WRITE_SIZE) + 1
            E == LOG_ENTRY_MAKE_MULTIBYTE(a, v)
<1>1. q \in 1..8 /\ p \in 1..WRITE_SIZE /\ b = WRITE_SIZE * (q - 1) + p
  <2>1. CASE WRITE_SIZE = 2 BY <2>1
  <2>2. CASE WRITE_SIZE = 4 BY <2>2
  <2>3. CASE WRITE_SIZE = 8 BY <2>3
  <2>. QED BY <2>1, <2>2, <2>3, WearAssumption
<1>2. m \in 1..4 /\ b <= WRITE_SIZE * m
    BY MultibyteFits
<1>3. RawAt(X, o, i)[b] = Word(X, o, i + q - 1)[p]
  <2>1. i + (b - 1) \div WRITE_SIZE = i + q - 1
    <3>. DEFINE y == (b - 1) \div WRITE_SIZE
    <3>1. y \in Nat
        BY ByteIndex
    <3>2. i \in Int
        BY DEF Slot
    <3>. HIDE DEF y
    <3>3. i + y = i + (y + 1) - 1
        BY <3>1, <3>2
    <3>. QED BY <3>3 DEF y
  <2>2. RawAt(X, o, i)[b] = Word(X, o, i + (b - 1) \div WRITE_SIZE)[p]
      BY DEF RawAt
  <2>. QED BY <2>1, <2>2
<1>4. \A x \in 1..m, y \in 1..WRITE_SIZE : E[x][y] = FullEntry(a, v)[WRITE_SIZE * (x - 1) + y]
    BY MultibyteIs
<1>5. i \in Nat /\ LOG_SLOTS \in Nat
    BY WearAssumption DEF Slot
<1>. HIDE DEF q, p
<1>6. CASE q <= k
  <2>1. i + q - 1 \in Slot /\ X[i + q - 1] = E[q]
    <3>1. q \in 1..k
        BY <1>1, <1>6
    <3>2. \A x \in 1..k : i + x - 1 \in Slot /\ X[i + x - 1] = E[x]
        BY DEF Placed
    <3>. QED BY <3>1, <3>2, Zenon
  <2>2. RawAt(X, o, i)[b] = E[q][p]
      BY <2>1, <1>3 DEF Word
  <2>3. q \in 1..m
      BY <1>1, <1>2, <1>6
  <2>. HIDE DEF m, E
  <2>4. E[q][p] = FullEntry(a, v)[WRITE_SIZE * (q - 1) + p]
      BY <2>3, <1>1, <1>4
  <2>. QED BY <2>2, <2>4, <1>1
<1>7. CASE q > k
  <2>1. Word(X, o, i + q - 1) \in Outside /\ (o = Zero => Word(X, o, i + q - 1) = Zero)
    <3>0. k # m
      <4>. HIDE DEF m
      <4>1. CASE WRITE_SIZE = 2 BY <4>1, <1>1, <1>2, <1>7
      <4>2. CASE WRITE_SIZE = 4 BY <4>2, <1>1, <1>2, <1>7
      <4>3. CASE WRITE_SIZE = 8 BY <4>3, <1>1, <1>2, <1>7
      <4>. QED BY <4>1, <4>2, <4>3, WearAssumption
    <3>1. i + q - 1 \in Nat /\ i + q - 1 >= i + k
        BY <1>1, <1>2, <1>5, <1>7
    <3>2. CASE i + q - 1 \in Slot
        BY <3>0, <3>1, <3>2, OutsideType DEF Word, Erased
    <3>3. CASE i + q - 1 \notin Slot
        BY <3>3 DEF Word
    <3>. QED BY <3>2, <3>3
  <2>2. RawAt(X, o, i)[b] \in Byte /\ (o = Zero => RawAt(X, o, i)[b] = 0)
      BY <2>1, <1>1, <1>3, OutsideType
  <2>3. b > WRITE_SIZE * k
    <3>1. CASE WRITE_SIZE = 2 BY <3>1, <1>1, <1>2, <1>7
    <3>2. CASE WRITE_SIZE = 4 BY <3>2, <1>1, <1>2, <1>7
    <3>3. CASE WRITE_SIZE = 8 BY <3>3, <1>1, <1>2, <1>7
    <3>. QED BY <3>1, <3>2, <3>3, WearAssumption
  <2>. QED BY <2>2, <2>3
<1>. QED BY <1>1, <1>2, <1>6, <1>7

-----------------------------------------------------------------------------
(* Entries are decoded to what they were made of; a torn entry still has   *)
(* the length of the whole one.                                            *)

(* The values of a multibyte entry, from its bytes.                        *)
LEMMA ValuesAre ==
    ASSUME NEW r \in [1..8 -> Nat], NEW l \in 1..5, MultibyteLength(r) = l,
           \A j \in 1..l : r[j + 3] \in Byte
    PROVE  /\ MultibyteValues(r) = [j \in 1..l |-> r[j + 3]]
           /\ MultibyteValues(r) \in Seq(Byte) /\ Len(MultibyteValues(r)) = l
<1>. DEFINE f == [j \in 1..l |-> r[j + 3]]
<1>1. MultibyteValues(r) = f
  <2>1. 1 + (3 + l) - 4 = l /\ \A j \in 1..l : 4 + j - 1 = j + 3
      OBVIOUS
  <2>. QED BY <2>1 DEF MultibyteValues
<1>2. f \in [1..l -> Byte] /\ l \in Nat
    OBVIOUS
<1>. HIDE DEF f
<1>3. f \in Seq(Byte) /\ Len(f) = l
    BY <1>2, FunctionIsSeq
<1>. QED BY <1>1, <1>3 DEF f

(* A multibyte entry of which k words were appended has the length of the  *)
(* whole entry and is inside the emulated EEPROM when the rest reads as    *)
(* erased; with all its words it is the entry that was made.               *)
LEMMA TornMultibyte ==
    ASSUME NEW X \in LogT, NEW o \in Outside, NEW i \in Slot, NEW a \in Nat,
           NEW v \in Seq(Byte), Len(v) \in 1..5, a + Len(v) <= LOGICAL_SIZE,
           NEW k \in 1..MultibyteWords(Len(v)),
           Placed(X, i, LOG_ENTRY_MAKE_MULTIBYTE(a, v), k),
           k = MultibyteWords(Len(v)) \/ Erased(X, i + k)
    PROVE  /\ X[i] # Zero
           /\ EntryAt(X, o, i).words = MultibyteWords(Len(v))
           /\ GoodBytes(EntryAt(X, o, i))
           /\ o = Zero => Inside(EntryAt(X, o, i))
           /\ k = MultibyteWords(Len(v)) =>
                 /\ Inside(EntryAt(X, o, i))
                 /\ EntryAt(X, o, i).address = a /\ EntryAt(X, o, i).value = v
<1>. DEFINE r == RawAt(X, o, i)
            F == FullEntry(a, v)
            l == Len(v)
            m == MultibyteWords(l)
            e == Decoded(r)
<1>1. /\ l \in 1..5 /\ m \in 1..4 /\ WRITE_SIZE * m <= 8 /\ 3 + l <= WRITE_SIZE * m
      /\ WRITE_SIZE * m \in Nat /\ WRITE_SIZE * k \in Nat /\ WRITE_SIZE * k >= 2
  <2>1. l \in 1..5 /\ m \in 1..4 /\ WRITE_SIZE * m <= 8 /\ 3 + l <= WRITE_SIZE * m
      BY MultibyteFits
  <2>2. k \in 1..4
      BY <2>1
  <2>. HIDE DEF m
  <2>3. CASE WRITE_SIZE = 2 BY <2>3, <2>1, <2>2
  <2>4. CASE WRITE_SIZE = 4 BY <2>4, <2>1, <2>2
  <2>5. CASE WRITE_SIZE = 8 BY <2>5, <2>1, <2>2
  <2>. QED BY <2>3, <2>4, <2>5, WearAssumption
<1>2. /\ F[1] = 8 * l /\ F[2] = a \div BYTE /\ F[3] = a % BYTE
      /\ \A j \in 1..l : F[j + 3] = v[j]
  <2>1. \A j \in 1..l : j \in 1..5 /\ j <= l
      BY <1>1
  <2>. QED BY <2>1, FullEntryIs
<1>3. r \in [1..8 -> Nat]
    BY RawType, OutsideType DEF Slot
<1>4. ASSUME NEW b \in 1..8, b <= 3 + l
      PROVE  \/ r[b] = F[b]
             \/ /\ b > WRITE_SIZE * k /\ r[b] \in Byte
                /\ o = Zero => r[b] = 0
  <2>1. b <= WRITE_SIZE * m
    <3>. HIDE DEF m, l
    <3>. QED BY <1>1, <1>4
  <2>. QED BY <2>1, TornByte
<1>5. EntryAt(X, o, i) = e
    BY EntryIsDecoded
<1>. HIDE DEF r, F
<1>6. r[1] = 8 * l
  <2>1. 1 \in 1..8 /\ 1 <= 3 + l
      BY <1>1
  <2>2. ~(1 > WRITE_SIZE * k)
      BY <1>1
  <2>. QED BY <2>1, <2>2, <1>2, <1>4
<1>7. MultibyteLength(r) = l /\ r[1] \div 64 = 0
  <2>1. l \in 1..5 /\ r[1] = 8 * l
      BY <1>1, <1>6
  <2>. HIDE DEF l
  <2>. QED BY <2>1 DEF MultibyteLength
<1>8. e = [words |-> m, address |-> BYTE * r[2] + r[3], value |-> MultibyteValues(r)]
    BY <1>7 DEF Decoded
<1>9. \A j \in 1..l : r[j + 3] \in Byte
  <2>1. SUFFICES ASSUME NEW j \in 1..l PROVE r[j + 3] \in Byte
      OBVIOUS
  <2>2. j + 3 \in 1..8 /\ j + 3 <= 3 + l
      BY <1>1
  <2>3. v[j] \in Byte
      OBVIOUS
  <2>. QED BY <2>2, <2>3, <1>2, <1>4
<1>10. MultibyteValues(r) \in Seq(Byte) /\ Len(MultibyteValues(r)) = l
       /\ MultibyteValues(r) = [j \in 1..l |-> r[j + 3]]
    BY <1>1, <1>3, <1>7, <1>9, ValuesAre
<1>11. /\ BYTE \in Nat /\ a \div BYTE \in Nat /\ a % BYTE \in Nat
       /\ BYTE * (a \div BYTE) + (a % BYTE) = a
    BY AddressParts, WearAssumption
<1>12. /\ r[2] = a \div BYTE \/ (o = Zero => r[2] = 0)
       /\ r[3] = a % BYTE \/ (o = Zero => r[3] = 0)
    BY <1>1, <1>2, <1>4
<1>13. ASSUME o = Zero PROVE BYTE * r[2] + r[3] <= a /\ BYTE * r[2] + r[3] \in Nat
  <2>1. BYTE * r[2] \in Nat /\ BYTE * r[2] <= BYTE * (a \div BYTE) /\ BYTE * (a \div BYTE) \in Nat
    <3>1. BYTE * (a \div BYTE) \in Nat
        BY <1>11
    <3>2. CASE r[2] = a \div BYTE
        BY <3>1, <3>2
    <3>3. CASE r[2] = 0
        BY <3>1, <3>3, <1>11
    <3>. QED BY <3>2, <3>3, <1>12, <1>13
  <2>2. r[3] \in Nat /\ r[3] <= a % BYTE
    <3>1. r[3] = a % BYTE \/ r[3] = 0
        BY <1>12, <1>13
    <3>. QED BY <3>1, <1>11
  <2>. DEFINE x == BYTE * r[2]
              y == BYTE * (a \div BYTE)
              z == a % BYTE
  <2>3. x \in Nat /\ y \in Nat /\ x <= y /\ z \in Nat /\ r[3] <= z /\ y + z = a
      BY <2>1, <2>2, <1>11
  <2>. HIDE DEF x, y, z
  <2>4. x + r[3] <= a /\ x + r[3] \in Nat
      BY <2>2, <2>3
  <2>. QED BY <2>4 DEF x
<1>14. ASSUME o = Zero PROVE Inside(e)
  <2>1. e.address + Len(e.value) = BYTE * r[2] + r[3] + l
      BY <1>8, <1>10
  <2>2. BYTE * r[2] + r[3] + l <= a + l /\ BYTE * r[2] + r[3] + l \in Nat
      BY <1>1, <1>13, <1>14
  <2>3. LOGICAL_SIZE \in Nat
      BY WearAssumption
  <2>. QED BY <2>1, <2>2, <2>3 DEF Inside
<1>15. ASSUME k = m PROVE e.address = a /\ e.value = v /\ Inside(e)
  <2>1. ASSUME NEW b \in 1..8, b <= 3 + l PROVE r[b] = F[b]
    <3>1. ~(b > WRITE_SIZE * k)
      <4>. HIDE DEF m, l
      <4>. QED BY <1>1, <1>15, <2>1
    <3>. QED BY <3>1, <2>1, <1>4
  <2>2. r[2] = a \div BYTE /\ r[3] = a % BYTE
      BY <2>1, <1>1, <1>2
  <2>3. e.address = a
      BY <2>2, <1>8, <1>11
  <2>4. \A j \in 1..l : r[j + 3] = v[j]
    <3>1. SUFFICES ASSUME NEW j \in 1..l PROVE r[j + 3] = v[j]
        OBVIOUS
    <3>2. j + 3 \in 1..8 /\ j + 3 <= 3 + l
        BY <1>1
    <3>. QED BY <3>2, <2>1, <1>2
  <2>5. e.value = v
    <3>1. \A j \in 1..l : MultibyteValues(r)[j] = v[j]
        BY <2>4, <1>10
    <3>2. MultibyteValues(r) = v
        BY <3>1, <1>10, SeqEqual
    <3>. QED BY <3>2, <1>8
  <2>6. Inside(e)
      BY <2>3, <2>5 DEF Inside
  <2>. QED BY <2>3, <2>5, <2>6
<1>16. X[i] # Zero
  <2>1. X[i] = LOG_ENTRY_MAKE_MULTIBYTE(a, v)[1]
    <3>1. i + 1 - 1 = i /\ 1 \in 1..k
        BY <1>1 DEF Slot
    <3>. QED BY <3>1 DEF Placed
  <2>2. LOG_ENTRY_MAKE_MULTIBYTE(a, v)[1][1] = FullEntry(a, v)[WRITE_SIZE * (1 - 1) + 1]
    <3>1. 1 \in 1..MultibyteWords(Len(v)) /\ 1 \in 1..WRITE_SIZE
        BY <1>1, WearAssumption
    <3>. QED BY <3>1, MultibyteIs
  <2>3. WRITE_SIZE * (1 - 1) + 1 = 1 /\ 1 \in 1..WRITE_SIZE
      BY WearAssumption
  <2>4. X[i][1] = 8 * l
      BY <2>1, <2>2, <2>3, <1>2 DEF F
  <2>5. Zero[1] = 0
      BY <2>3, OutsideType
  <2>6. 8 * l # 0
    <3>1. l \in 1..5
        BY <1>1
    <3>. HIDE DEF l
    <3>. QED BY <3>1
  <2>. HIDE DEF l
  <2>. QED BY <2>4, <2>5, <2>6
<1>. QED BY <1>5, <1>8, <1>10, <1>14, <1>15, <1>16 DEF GoodBytes

(* One-word entries are sequences of one word, which is not erased.        *)
LEMMA ShortIs ==
    ASSUME WRITE_SIZE = 2, NEW x \in Nat, NEW y \in Nat, x # 0
    PROVE  /\ << <<x, y>> >> \in Seq(WordT) /\ Len(<< <<x, y>> >>) = 1
           /\ << <<x, y>> >>[1] = <<x, y>> /\ <<x, y>> # Zero
<1>. DEFINE w == <<x, y>>
<1>1. w \in WordT /\ w # Zero
    BY DEF WordT, Zero
<1>. HIDE DEF w
<1>2. <<w>> \in Seq(WordT) /\ Len(<<w>>) = 1 /\ <<w>>[1] = w
  <2>. HIDE DEF WordT
  <2>. QED BY <1>1
<1>. QED BY <1>1, <1>2 DEF w

(* The two bytes of a one-word entry.                                      *)
LEMMA ShortRaw ==
    ASSUME WRITE_SIZE = 2, NEW X \in LogT, NEW o \in WordT, NEW i \in Slot,
           NEW x \in Nat, NEW y \in Nat, X[i] = <<x, y>>
    PROVE  RawAt(X, o, i) \in [1..8 -> Nat] /\ RawAt(X, o, i)[1] = x /\ RawAt(X, o, i)[2] = y
<1>1. RawAt(X, o, i)[1] = Word(X, o, i + (1 - 1) \div 2)[((1 - 1) % 2) + 1]
    BY DEF RawAt
<1>2. RawAt(X, o, i)[2] = Word(X, o, i + (2 - 1) \div 2)[((2 - 1) % 2) + 1]
    BY DEF RawAt
<1>3. /\ i + (1 - 1) \div 2 = i /\ ((1 - 1) % 2) + 1 = 1
      /\ i + (2 - 1) \div 2 = i /\ ((2 - 1) % 2) + 1 = 2
    BY DEF Slot
<1>4. Word(X, o, i) = <<x, y>>
    BY DEF Word
<1>5. RawAt(X, o, i)[1] = x /\ RawAt(X, o, i)[2] = y
    BY <1>1, <1>2, <1>3, <1>4
<1>6. RawAt(X, o, i) \in [1..8 -> Nat]
    BY RawType DEF Slot
<1>. QED BY <1>5, <1>6

(* An optimized entry of one byte is decoded to what it was made of.       *)
LEMMA OneByteEntry ==
    ASSUME WRITE_SIZE = 2, NEW X \in LogT, NEW o \in WordT, NEW i \in Slot,
           NEW a \in Address, a < OPTIMIZED_LIMIT, NEW b \in Byte,
           X[i] = LOG_ENTRY_MAKE_OPTIMIZED_64(a, b)[1]
    PROVE  /\ X[i] # Zero /\ LOG_ENTRY_MAKE_OPTIMIZED_64(a, b) \in Seq(WordT)
           /\ Len(LOG_ENTRY_MAKE_OPTIMIZED_64(a, b)) = 1
           /\ EntryAt(X, o, i) = [words |-> 1, address |-> a, value |-> <<b>>]
<1>. DEFINE r == RawAt(X, o, i)
<1>1. a \in 0..63 /\ b \in Nat /\ 64 + a \in Nat /\ 64 + a # 0
  <2>1. a \in Nat /\ b \in Nat /\ OPTIMIZED_LIMIT \in 0..64
      BY WearAssumption DEF Address, Byte
  <2>. QED BY <2>1
<1>2. X[i] = <<64 + a, b>> /\ X[i] # Zero
    BY <1>1, ShortIs DEF LOG_ENTRY_MAKE_OPTIMIZED_64
<1>3. r[1] = 64 + a /\ r[2] = b
    BY <1>1, <1>2, ShortRaw
<1>4. r[1] \div 64 = 1 /\ r[1] % 64 = a
    BY <1>1, <1>3
<1>. HIDE DEF r
<1>5. Decoded(r) = [words |-> 1, address |-> a, value |-> <<b>>]
    BY <1>3, <1>4 DEF Decoded
<1>. QED BY <1>1, <1>2, <1>5, ShortIs, EntryIsDecoded DEF r, LOG_ENTRY_MAKE_OPTIMIZED_64

(* An optimized entry of a 0/1 word is decoded to what it was made of.     *)
LEMMA WordEntry ==
    ASSUME WRITE_SIZE = 2, NEW X \in LogT, NEW o \in WordT, NEW i \in Slot,
           NEW a \in Address, a < WORD_LIMIT, a % 2 = 0, NEW b \in {0, 1},
           X[i] = LOG_ENTRY_MAKE_WORD_01(a, b)[1]
    PROVE  /\ X[i] # Zero /\ LOG_ENTRY_MAKE_WORD_01(a, b) \in Seq(WordT)
           /\ Len(LOG_ENTRY_MAKE_WORD_01(a, b)) = 1
           /\ EntryAt(X, o, i) = [words |-> 1, address |-> a, value |-> <<b, 0>>]
<1>. DEFINE r == RawAt(X, o, i)
            h == a \div (2 * BYTE)
            t == (a \div 2) % BYTE
<1>1. a \in Nat /\ BYTE \in Nat /\ BYTE > 1 /\ a < 64 * BYTE
    BY WearAssumption DEF Address
<1>2. h \in 0..31 /\ t \in Nat /\ 2 * (BYTE * h + t) = a
  <2>. DEFINE x == a \div 2
  <2>1. x \in Nat /\ a = 2 * x /\ x < 32 * BYTE
      BY <1>1
  <2>2. x \div BYTE \in 0..31 /\ x % BYTE \in Nat /\ BYTE * (x \div BYTE) + (x % BYTE) = x
    <3>. HIDE DEF x
    <3>1. BYTE * (x \div BYTE) + (x % BYTE) = x /\ x % BYTE \in 0..(BYTE - 1) /\ x \div BYTE \in Nat
        BY <1>1, <2>1
    <3>2. x \div BYTE <= 31
        BY <1>1, <2>1, <3>1
    <3>. QED BY <3>1, <3>2
  <2>3. h = x \div BYTE
      BY <1>1
  <2>. QED BY <2>1, <2>2, <2>3
<1>. HIDE DEF h, t
<1>3. 128 + 32 * b + h \in Nat /\ 128 + 32 * b + h # 0
    BY <1>2
<1>4. LOG_ENTRY_MAKE_WORD_01(a, b) = << <<128 + 32 * b + h, t>> >>
    BY DEF LOG_ENTRY_MAKE_WORD_01, h, t
<1>5. X[i] = <<128 + 32 * b + h, t>> /\ X[i] # Zero
    BY <1>2, <1>3, <1>4, ShortIs
<1>6. r[1] = 128 + 32 * b + h /\ r[2] = t
    BY <1>2, <1>3, <1>5, ShortRaw
<1>7. r[1] \div 64 = 2 /\ r[1] % 32 = h /\ (r[1] \div 32) % 2 = b
    BY <1>2, <1>6
<1>. HIDE DEF r
<1>8. Decoded(r) = [words |-> 1, address |-> 2 * (BYTE * h + t), value |-> <<b, 0>>]
    BY <1>6, <1>7 DEF Decoded
<1>. QED BY <1>2, <1>3, <1>4, <1>5, <1>8, ShortIs, EntryIsDecoded DEF r

-----------------------------------------------------------------------------
(* Paths: chains of entries that are read as such whatever lies past the   *)
(* end of the store.                                                       *)

(* Whatever is read past the end, the entries have the same lengths and    *)
(* have bytes for values; PathOn and Path add that they are a chain from w *)
(* to n.                                                                   *)
Readable(X, B, n) ==
    \A o \in Outside, i \in B \ {n} :
       GoodBytes(EntryAt(X, o, i)) /\ i + EntryAt(X, o, i).words \in B

PathOn(X, w, n, B) == B \in SUBSET (w..n) /\ w \in B /\ Chain(X, Zero, B, n) /\ Readable(X, B, n)
(* There is a path from w to n.                                            *)
Path(X, w, n) == \E B : PathOn(X, w, n, B)

(* The path without entries.                                               *)
LEMMA NoPath ==
    ASSUME NEW X, NEW w \in Nat \ {0}
    PROVE  Path(X, w, w)
<1>1. PathOn(X, w, w, {w})
    BY DEF PathOn, Chain, Readable
<1>. QED BY <1>1 DEF Path

(* The path of one entry.                                                  *)
LEMMA OneStep ==
    ASSUME NEW X, NEW w \in Slot, NEW m \in Nat \ {0}, X[w] # Zero,
           Inside(EntryAt(X, Zero, w)),
           \A o \in Outside : GoodBytes(EntryAt(X, o, w)) /\ EntryAt(X, o, w).words = m
    PROVE  Path(X, w, w + m)
<1>. DEFINE n == w + m
            B == {w, n}
<1>0. w \in Nat \ {0} /\ n \in Nat /\ n > w
    BY DEF Slot
<1>1. B \in SUBSET (w..n) /\ B \in SUBSET (1..n) /\ B \ {n} = {w}
    BY <1>0
<1>2. Zero \in Outside
    BY OutsideType
<1>3. Chain(X, Zero, B, n)
    BY <1>1, <1>2 DEF Chain
<1>4. Readable(X, B, n)
    BY <1>1 DEF Readable
<1>5. PathOn(X, w, n, B)
    BY <1>1, <1>3, <1>4 DEF PathOn
<1>. QED BY <1>5 DEF Path

(* Two paths one after the other.                                          *)
LEMMA JoinedPaths ==
    ASSUME NEW X, NEW w \in Nat \ {0}, NEW u, NEW n, Path(X, w, u), Path(X, u, n)
    PROVE  Path(X, w, n)
<1>1. PICK B1 : PathOn(X, w, u, B1)
    BY DEF Path
<1>2. PICK B2 : PathOn(X, u, n, B2)
    BY DEF Path
<1>3. /\ B1 \in SUBSET (w..u) /\ B1 \in SUBSET (1..u) /\ w \in B1 /\ u \in B1
      /\ B2 \in SUBSET (u..n) /\ B2 \in SUBSET (1..n) /\ u \in B2 /\ n \in B2
    BY <1>1, <1>2 DEF PathOn, Chain
<1>4. u \in Nat /\ n \in Nat /\ w <= u /\ u <= n
  <2>1. u \in w..u /\ u \in 1..u /\ n \in u..n /\ n \in 1..n
      BY <1>3
  <2>. QED BY <2>1
<1>. DEFINE B == B1 \cup B2
<1>5. B \in SUBSET (w..n) /\ B \in SUBSET (1..n) /\ w \in B /\ n \in B
    BY <1>3, <1>4
<1>6. ASSUME NEW i \in B \ {n}
      PROVE  (i \in B1 \ {u}) \/ (i \in B2 \ {n})
    BY <1>3, <1>6
<1>7. Chain(X, Zero, B, n)
    BY <1>5, <1>6, <1>1, <1>2 DEF Chain, PathOn
<1>8. Readable(X, B, n)
    BY <1>6, <1>1, <1>2 DEF Readable, PathOn
<1>9. PathOn(X, w, n, B)
    BY <1>5, <1>7, <1>8 DEF PathOn
<1>. QED BY <1>9 DEF Path

(* A path leads forward.                                                   *)
LEMMA PathEnds ==
    ASSUME NEW X, NEW w \in Nat \ {0}, NEW n, Path(X, w, n)
    PROVE  n \in Nat /\ w <= n
<1>1. PICK B : PathOn(X, w, n, B)
    BY DEF Path
<1>2. n \in w..n /\ n \in 1..n /\ w \in w..n
    BY <1>1 DEF PathOn, Chain
<1>. QED BY <1>2

(* A log that is erased where the path ends is played back to there.         *)
LEMMA PathPlays ==
    ASSUME NEW X \in LogT, NEW w \in Nat \ {0}, NEW n, Path(X, w, n),
           n \notin Slot \/ X[n] = Zero, NEW c \in Cache
    PROVE  \E d \in Cache : Playback(X, Zero)[w][c] = [ok |-> TRUE, cache |-> d, next |-> n]
<1>1. PICK B : PathOn(X, w, n, B)
    BY DEF Path
<1>2. n \in Nat /\ Zero \in WordT
    BY PathEnds, OutsideType
<1>. QED BY <1>1, <1>2, ChainPlays DEF PathOn

(* What a playback returns when it meets a path that ends at n.            *)
Read(p, n) == p \in [ok : BOOLEAN, cache : Cache, next : Nat \ {0}] /\ (p.ok => p.next = n)

(* Whatever is read past its end, such a log is played back to some cache.   *)
LEMMA PathReads ==
    ASSUME NEW X \in LogT, NEW w \in Nat \ {0}, NEW n, Path(X, w, n),
           n \notin Slot \/ X[n] = Zero, NEW o \in Outside, NEW c0 \in Cache
    PROVE  Read(Playback(X, o)[w][c0], n)
<1>1. PICK B : PathOn(X, w, n, B)
    BY DEF Path
<1>. DEFINE P == Playback(X, o)
            e(i) == EntryAt(X, o, i)
            S == {i \in Nat : i \in B => \A c \in Cache : Read(P[i][c], n)}
<1>2. /\ n \in Nat \ {0} /\ o \in WordT /\ B \in SUBSET (1..n) /\ w \in B
      /\ \A i \in B \ {n} : i \in Slot /\ X[i] # Zero /\ e(i).value \in Seq(Byte)
                            /\ i + e(i).words \in B /\ e(i).words \in 1..5
  <2>1. n \in Nat \ {0} /\ o \in WordT /\ B \in SUBSET (1..n) /\ w \in B
    <3>1. B \in SUBSET (1..n) /\ w \in B
        BY <1>1 DEF PathOn, Chain
    <3>2. n \in Nat /\ w <= n
        BY PathEnds
    <3>. QED BY <3>1, <3>2, OutsideType
  <2>2. ASSUME NEW i \in B \ {n}
        PROVE  i \in Slot /\ X[i] # Zero /\ e(i).value \in Seq(Byte)
               /\ i + e(i).words \in B /\ e(i).words \in 1..5
    <3>1. i \in Nat
        BY <2>1
    <3>2. e(i).words \in 1..5
        BY <3>1, <2>1, EntryWords
    <3>3. i \in Slot /\ X[i] # Zero
        BY <1>1 DEF PathOn, Chain
    <3>4. e(i).value \in Seq(Byte) /\ i + e(i).words \in B
        BY <1>1 DEF PathOn, Readable, GoodBytes
    <3>. QED BY <3>2, <3>3, <3>4
  <2>. QED BY <2>1, <2>2
<1>3. ASSUME NEW i \in Nat, i > n PROVE i \in S
    BY <1>3, <1>2
<1>4. ASSUME NEW i \in 0..n, \A j \in Nat : j > i => j \in S PROVE i \in S
  <2>1. CASE i \notin B
      BY <2>1
  <2>2. CASE i = n
    <3>1. ASSUME NEW c \in Cache PROVE P[n][c] = [ok |-> TRUE, cache |-> c, next |-> n]
        BY <1>2, PlaybackEnds
    <3>2. ASSUME NEW c \in Cache PROVE Read(P[n][c], n)
      <4>1. n \in Nat \ {0}
          BY <1>2
      <4>2. [ok |-> TRUE, cache |-> c, next |-> n] \in [ok : BOOLEAN, cache : Cache, next : Nat \ {0}]
          BY <4>1
      <4>3. [ok |-> TRUE, cache |-> c, next |-> n].next = n
          OBVIOUS
      <4>4. Read([ok |-> TRUE, cache |-> c, next |-> n], n)
          BY <4>2, <4>3 DEF Read
      <4>. HIDE DEF P
      <4>. QED BY <4>4, <3>1
    <3>. QED BY <2>2, <3>2
  <2>3. CASE i \in B /\ i # n
    <3>. DEFINE j == i + e(i).words
    <3>1. i \in Slot /\ X[i] # Zero /\ e(i).value \in Seq(Byte) /\ j \in B /\ e(i).words \in 1..5
        BY <1>2, <2>3
    <3>2. \A c \in Cache : Read(P[j][c], n)
      <4>1. j \in Nat /\ j > i
          BY <3>1
      <4>. HIDE DEF j
      <4>. QED BY <4>1, <3>1, <1>4
    <3>3. ASSUME NEW c \in Cache PROVE Read(P[i][c], n)
      <4>. DEFINE d1 == Overwrite(c, e(i).address, e(i).value)
      <4>1. d1 \in Cache
          BY <3>1, OverwriteType
      <4>2. CASE Inside(e(i))
        <5>1. P[i][c] = P[j][d1]
            BY <4>2, <3>1, <1>2, PlaybackGoesOn
        <5>. HIDE DEF P, j, d1
        <5>. QED BY <5>1, <4>1, <3>2
      <4>3. CASE ~Inside(e(i))
        <5>1. P[i][c] = [ok |-> FALSE, cache |-> c, next |-> LOG_SLOTS + 1]
            BY <4>3, <3>1, <1>2, PlaybackGivesUp
        <5>2. LOG_SLOTS + 1 \in Nat \ {0}
            BY WearAssumption
        <5>. QED BY <5>1, <5>2 DEF Read
      <4>. QED BY <4>2, <4>3
    <3>. QED BY <3>3
  <2>. QED BY <2>1, <2>2, <2>3
<1>5. \A i \in Nat : i \in S
  <2>. HIDE DEF S
  <2>. QED BY <1>2, <1>3, <1>4, DownwardInduction
<1>. QED BY <1>5, <1>2

(* A log that says the same up to where the path ends is played back the     *)
(* same up to there, whatever is read past its end.                          *)
LEMMA PathMoves ==
    ASSUME NEW X \in LogT, NEW Y \in LogT, NEW w \in Nat \ {0}, NEW n, Path(X, w, n),
           n <= LOG_SLOTS + 1, \A j \in Slot : j < n => Y[j] = X[j]
    PROVE  /\ Path(Y, w, n)
           /\ \A o \in Outside : Together(Playback(X, Zero), Playback(Y, o), w, n)
<1>1. PICK B : PathOn(X, w, n, B)
    BY DEF Path
<1>2. /\ n \in Nat /\ Zero \in Outside /\ Outside \subseteq WordT /\ LOG_SLOTS \in Nat
      /\ B \in SUBSET (w..n) /\ B \in SUBSET (1..n) /\ w \in B /\ Chain(X, Zero, B, n)
    BY <1>1, PathEnds, OutsideType, WearAssumption DEF PathOn, Chain
<1>3. ASSUME NEW o \in Outside PROVE Agree(X, Zero, Y, o, n)
  <2>1. SUFFICES ASSUME NEW j \in Nat \ {0}, j < n PROVE Word(X, Zero, j) = Word(Y, o, j)
      BY DEF Agree
  <2>2. j \in Slot
      BY <1>2, <2>1 DEF Slot
  <2>. QED BY <2>1, <2>2 DEF Word
<1>4. \A i \in B \ {n} : i \in Slot /\ Y[i] = X[i]
  <2>1. SUFFICES ASSUME NEW i \in B \ {n} PROVE i \in Slot /\ Y[i] = X[i]
      OBVIOUS
  <2>2. i \in Slot /\ i < n
      BY <1>2 DEF Chain
  <2>. QED BY <2>2
<1>5. ASSUME NEW o \in Outside
      PROVE  Chain(Y, o, B, n) /\ \A i \in B : Together(Playback(X, Zero), Playback(Y, o), i, n)
  <2>1. o \in WordT /\ Zero \in WordT
      BY <1>2
  <2>. QED BY <1>2, <1>3, <1>4, <2>1, SamePrefix
<1>6. Readable(Y, B, n)
    BY <1>5 DEF Readable, Chain
<1>7. PathOn(Y, w, n, B)
    BY <1>2, <1>5, <1>6 DEF PathOn
<1>. QED BY <1>2, <1>5, <1>7 DEF Path

-----------------------------------------------------------------------------
(* Every kind of entry that a write makes.                                 *)

(* E is what an entry for the bytes v1 from address a on looks like.         *)
EntryOK(E, a, v1) ==
    /\ E \in Seq(WordT) /\ Len(E) >= 1 /\ (OneWordEntries => Len(E) = 1)
    /\ \A X \in LogT, w \in Slot, k \in 1..Len(E) :
          Placed(X, w, E, k) /\ (k = Len(E) \/ Erased(X, w + k)) =>
             /\ X[w] # Zero /\ Inside(EntryAt(X, Zero, w))
             /\ \A o \in Outside :
                   EntryAt(X, o, w).words = Len(E) /\ GoodBytes(EntryAt(X, o, w))
             /\ k = Len(E) => EntryAt(X, Zero, w).address = a /\ EntryAt(X, Zero, w).value = v1

(* Multibyte entries are such entries ...                                  *)
LEMMA MultibyteOK ==
    ASSUME NEW a \in Nat, NEW v \in Seq(Byte), Len(v) \in 1..MULTIBYTE_MAX,
           a + Len(v) <= LOGICAL_SIZE
    PROVE  EntryOK(LOG_ENTRY_MAKE_MULTIBYTE(a, v), a, v)
<1>. DEFINE E == LOG_ENTRY_MAKE_MULTIBYTE(a, v)
            m == MultibyteWords(Len(v))
<1>1. Len(v) \in 1..5
  <2>1. MULTIBYTE_MAX \in 1..5
      BY WearAssumption
  <2>. DEFINE l == Len(v)
  <2>2. l \in 1..MULTIBYTE_MAX
      OBVIOUS
  <2>. HIDE DEF l
  <2>3. l \in 1..5
      BY <2>1, <2>2
  <2>. QED BY <2>3 DEF l
<1>2. E \in Seq(WordT) /\ Len(E) = m /\ m \in 1..4
    BY <1>1, MultibyteIs, MultibyteFits
<1>3. ASSUME OneWordEntries PROVE m = 1
  <2>1. WRITE_SIZE >= 4 /\ 3 + Len(v) <= WRITE_SIZE
      BY <1>3, WearAssumption DEF OneWordEntries
  <2>2. CASE WRITE_SIZE = 4 BY <2>1, <2>2, <1>1 DEF MultibyteWords
  <2>3. CASE WRITE_SIZE = 8 BY <2>1, <2>3, <1>1 DEF MultibyteWords
  <2>. QED BY <2>1, <2>2, <2>3, WearAssumption
<1>4. ASSUME NEW X \in LogT, NEW w \in Slot, NEW k \in 1..m,
             Placed(X, w, E, k), k = m \/ Erased(X, w + k), NEW o \in Outside
      PROVE  /\ X[w] # Zero /\ Inside(EntryAt(X, Zero, w))
             /\ EntryAt(X, o, w).words = m /\ GoodBytes(EntryAt(X, o, w))
             /\ k = m => EntryAt(X, Zero, w).address = a /\ EntryAt(X, Zero, w).value = v
  <2>1. Zero \in Outside
      BY OutsideType
  <2>2. /\ X[w] # Zero /\ EntryAt(X, o, w).words = m /\ GoodBytes(EntryAt(X, o, w))
      BY <1>1, <1>4, TornMultibyte
  <2>3. /\ Inside(EntryAt(X, Zero, w))
        /\ k = m => EntryAt(X, Zero, w).address = a /\ EntryAt(X, Zero, w).value = v
      BY <1>1, <1>4, <2>1, TornMultibyte
  <2>. QED BY <2>2, <2>3
<1>5. Zero \in Outside
    BY OutsideType
<1>. HIDE DEF E, m
<1>6. EntryOK(E, a, v)
    BY <1>2, <1>3, <1>4, <1>5 DEF EntryOK
<1>. QED BY <1>6 DEF E

(* ... and so are entries of one word with the right contents ...          *)
LEMMA ShortOK ==
    ASSUME NEW E \in Seq(WordT), Len(E) = 1, NEW a, NEW v1 \in Seq(Byte), a + Len(v1) <= LOGICAL_SIZE,
           \A X \in LogT, w \in Slot, o \in Outside : Placed(X, w, E, 1) =>
              X[w] # Zero /\ EntryAt(X, o, w) = [words |-> 1, address |-> a, value |-> v1]
    PROVE  EntryOK(E, a, v1)
<1>. DEFINE e == [words |-> 1, address |-> a, value |-> v1]
<1>1. e.words = 1 /\ e.address = a /\ e.value = v1
    OBVIOUS
<1>2. Inside(e) /\ GoodBytes(e)
    BY <1>1 DEF Inside, GoodBytes
<1>3. Zero \in Outside
    BY OutsideType
<1>4. \A X \in LogT, w \in Slot, o \in Outside : Placed(X, w, E, 1) =>
         X[w] # Zero /\ EntryAt(X, o, w) = e
    OBVIOUS
<1>. HIDE DEF e
<1>5. ASSUME NEW X \in LogT, NEW w \in Slot, NEW k \in 1..Len(E), Placed(X, w, E, k)
      PROVE  /\ X[w] # Zero /\ Inside(EntryAt(X, Zero, w))
             /\ \A o \in Outside :
                   EntryAt(X, o, w).words = Len(E) /\ GoodBytes(EntryAt(X, o, w))
             /\ EntryAt(X, Zero, w).address = a /\ EntryAt(X, Zero, w).value = v1
  <2>1. k = 1
      OBVIOUS
  <2>2. Placed(X, w, E, 1)
      BY <2>1, <1>5
  <2>. QED BY <2>2, <1>1, <1>2, <1>3, <1>4
<1>. QED BY <1>5 DEF EntryOK

(* ... namely the optimized ones of one byte ...                           *)
LEMMA OneByteOK ==
    ASSUME WRITE_SIZE = 2, NEW a \in Address, a < OPTIMIZED_LIMIT, NEW b \in Byte
    PROVE  EntryOK(LOG_ENTRY_MAKE_OPTIMIZED_64(a, b), a, <<b>>)
<1>. DEFINE E == LOG_ENTRY_MAKE_OPTIMIZED_64(a, b)
<1>1. E \in Seq(WordT) /\ Len(E) = 1
  <2>1. 64 + a \in Nat /\ 64 + a # 0 /\ b \in Nat
      BY DEF Address, Byte
  <2>. QED BY <2>1, ShortIs DEF LOG_ENTRY_MAKE_OPTIMIZED_64
<1>2. ASSUME NEW X \in LogT, NEW w \in Slot, NEW o \in Outside, Placed(X, w, E, 1)
      PROVE  /\ X[w] # Zero
             /\ EntryAt(X, o, w) = [words |-> 1, address |-> a, value |-> <<b>>]
  <2>1. w + 1 - 1 = w /\ 1 \in 1..1
      BY DEF Slot
  <2>2. X[w] = E[1]
      BY <1>2, <2>1 DEF Placed
  <2>3. o \in WordT
      BY OutsideType
  <2>. QED BY <2>2, <2>3, OneByteEntry
<1>4. <<b>> \in Seq(Byte) /\ Len(<<b>>) = 1
    OBVIOUS
<1>5. a + 1 <= LOGICAL_SIZE
    BY WearAssumption DEF Address
<1>. HIDE DEF E
<1>6. EntryOK(E, a, <<b>>)
    BY <1>1, <1>2, <1>4, <1>5, ShortOK
<1>. QED BY <1>6 DEF E

(* ... and of a 0/1 word.                                                  *)
LEMMA WordOK ==
    ASSUME WRITE_SIZE = 2, NEW a \in Address, a < WORD_LIMIT, a % 2 = 0, NEW b \in {0, 1},
           a + 2 <= LOGICAL_SIZE
    PROVE  EntryOK(LOG_ENTRY_MAKE_WORD_01(a, b), a, <<b, 0>>)
<1>. DEFINE E == LOG_ENTRY_MAKE_WORD_01(a, b)
<1>1. E \in Seq(WordT) /\ Len(E) = 1
  <2>1. 128 + 32 * b + a \div (2 * BYTE) \in Nat /\ 128 + 32 * b + a \div (2 * BYTE) # 0
    <3>1. a \in Nat /\ 2 * BYTE \in Nat /\ 2 * BYTE > 0
        BY WearAssumption DEF Address
    <3>2. a \div (2 * BYTE) \in Nat
        BY <3>1
    <3>. QED BY <3>2
  <2>2. (a \div 2) % BYTE \in Nat
    <3>1. a \div 2 \in Nat
        BY DEF Address
    <3>. QED BY <3>1, WearAssumption
  <2>. QED BY <2>1, <2>2, ShortIs DEF LOG_ENTRY_MAKE_WORD_01
<1>2. ASSUME NEW X \in LogT, NEW w \in Slot, NEW o \in Outside, Placed(X, w, E, 1)
      PROVE  /\ X[w] # Zero
             /\ EntryAt(X, o, w) = [words |-> 1, address |-> a, value |-> <<b, 0>>]
  <2>1. w + 1 - 1 = w /\ 1 \in 1..1
      BY DEF Slot
  <2>2. X[w] = E[1]
      BY <1>2, <2>1 DEF Placed
  <2>3. o \in WordT
      BY OutsideType
  <2>. QED BY <2>2, <2>3, WordEntry
<1>4. <<b, 0>> \in Seq(Byte) /\ Len(<<b, 0>>) = 2
  <2>1. b \in Byte /\ 0 \in Byte
      BY WearAssumption DEF Byte
  <2>. QED BY <2>1
<1>. HIDE DEF E
<1>5. EntryOK(E, a, <<b, 0>>)
    BY <1>1, <1>2, <1>4, ShortOK
<1>. QED BY <1>5 DEF E

-----------------------------------------------------------------------------
(* Entries one after the other replay one piece of a block after the       *)
(* other.                                                                  *)

(* What is left of a write from its i-th byte on.                            *)
OverwriteFrom(c, a0, v, i) ==
    [x \in Address |-> IF x - a0 \in (i - 1)..(Len(v) - 1) THEN v[x - a0 + 1] ELSE c[x]]

(* To play back from w to n is to overwrite by v from its i-th byte on.    *)
Replayed(X, w, n, a0, v, i) ==
    \A c \in Cache : Playback(X, Zero)[w][c] = Playback(X, Zero)[n][OverwriteFrom(c, a0, v, i)]

(* The first k words of ws lead from w to n; all of them replay v.         *)
ReplaysTo(X, w, ws, k, n, a0, v, i) ==
    /\ Path(X, w, n) /\ w + k <= n
    /\ OneWordEntries => n = w + k
    /\ k = Len(ws) => n = w + k /\ Replayed(X, w, n, a0, v, i)

(* Any part of the words ws at the end of a log is read as whole entries,    *)
(* and all of them as the bytes of v from the i-th on.                       *)
Replays(ws, a0, v, i) ==
    /\ ws \in Seq(WordT)
    /\ \A X \in LogT, w \in Nat \ {0}, k \in 0..Len(ws) :
          Placed(X, w, ws, k) /\ Erased(X, w + k) => \E n \in Nat : ReplaysTo(X, w, ws, k, n, a0, v, i)

(* Such an overwrite leaves a cache.                                       *)
LEMMA OverwriteFromType ==
    ASSUME NEW c \in Cache, NEW a0 \in Nat, NEW v \in Seq(Byte), NEW i \in Nat \ {0}
    PROVE  OverwriteFrom(c, a0, v, i) \in Cache
<1>. SUFFICES ASSUME NEW x \in Address
     PROVE  (IF x - a0 \in (i - 1)..(Len(v) - 1) THEN v[x - a0 + 1] ELSE c[x]) \in Byte
    BY DEF OverwriteFrom, Cache
<1>1. x \in Int /\ Len(v) \in Nat
    BY DEF Address
<1>2. CASE x - a0 \in (i - 1)..(Len(v) - 1)
  <2>1. x - a0 + 1 \in 1..Len(v)
      BY <1>1, <1>2
  <2>2. v[x - a0 + 1] \in Byte
      BY <2>1
  <2>. QED BY <1>2, <2>2
<1>3. CASE x - a0 \notin (i - 1)..(Len(v) - 1)
    BY <1>3 DEF Cache
<1>. QED BY <1>2, <1>3

(* No words replay no bytes.                                               *)
LEMMA NothingLeft ==
    ASSUME NEW a0 \in Nat, NEW v \in Seq(Byte)
    PROVE  Replays(<<>>, a0, v, Len(v) + 1)
<1>. DEFINE i == Len(v) + 1
<1>1. ASSUME NEW c \in Cache PROVE OverwriteFrom(c, a0, v, i) = c
  <2>1. \A x \in Address : x - a0 \notin (i - 1)..(Len(v) - 1)
      BY DEF Address
  <2>2. OverwriteFrom(c, a0, v, i) = [x \in Address |-> c[x]]
      BY <2>1 DEF OverwriteFrom
  <2>. QED BY <2>2 DEF Cache
<1>2. ASSUME NEW X \in LogT, NEW w \in Nat \ {0} PROVE ReplaysTo(X, w, <<>>, 0, w, a0, v, i)
  <2>1. Replayed(X, w, w, a0, v, i)
      BY <1>1 DEF Replayed
  <2>2. Path(X, w, w)
      BY NoPath
  <2>. QED BY <2>1, <2>2 DEF ReplaysTo
<1>3. <<>> \in Seq(WordT) /\ Len(<<>>) = 0
    OBVIOUS
<1>. HIDE DEF i
<1>4. Replays(<<>>, a0, v, i)
    BY <1>2, <1>3 DEF Replays
<1>. QED BY <1>4 DEF i

(* The words of one entry followed by the rest.                            *)
LEMMA ConcatIs ==
    ASSUME NEW E \in Seq(WordT), NEW rest \in Seq(WordT)
    PROVE  /\ E \o rest \in Seq(WordT) /\ Len(E \o rest) = Len(E) + Len(rest)
           /\ \A q \in 1..Len(E) : (E \o rest)[q] = E[q]
           /\ \A q \in 1..Len(rest) : (E \o rest)[Len(E) + q] = rest[q]
<1>. DEFINE s == E \o rest
<1>1. s \in Seq(WordT) /\ Len(s) = Len(E) + Len(rest)
    BY ConcatProperties
<1>2. \A q \in 1 .. Len(E) + Len(rest) : s[q] = IF q <= Len(E) THEN E[q] ELSE rest[q - Len(E)]
    BY ConcatProperties, Zenon
<1>3. Len(E) \in Nat /\ Len(rest) \in Nat
    OBVIOUS
<1>. HIDE DEF s
<1>4. ASSUME NEW q \in 1..Len(E) PROVE s[q] = E[q]
    BY <1>2, <1>3
<1>5. ASSUME NEW q \in 1..Len(rest) PROVE s[Len(E) + q] = rest[q]
  <2>1. Len(E) + q \in 1 .. Len(E) + Len(rest) /\ ~(Len(E) + q <= Len(E)) /\ Len(E) + q - Len(E) = q
      BY <1>3
  <2>. QED BY <2>1, <1>2
<1>. QED BY <1>1, <1>4, <1>5 DEF s

(* v1 is the m bytes of v from the i-th on.                                *)
Piece(v1, v, i, m) == Len(v1) = m /\ \A j \in 1..m : v1[j] = v[i + j - 1]

(* To overwrite by a piece and then by the rest is to overwrite by both.   *)
LEMMA OverwriteComposes ==
    ASSUME NEW c \in Cache, NEW a0 \in Nat, NEW v \in Seq(Byte), NEW i \in 1..Len(v),
           NEW m \in Nat \ {0}, i + m <= Len(v) + 1,
           NEW v1 \in Seq(Byte), Piece(v1, v, i, m)
    PROVE  OverwriteFrom(Overwrite(c, a0 + i - 1, v1), a0, v, i + m) = OverwriteFrom(c, a0, v, i)
<1>. DEFINE d == Overwrite(c, a0 + i - 1, v1)
<1>1. ASSUME NEW x \in Address
      PROVE  (IF x - a0 \in (i + m - 1)..(Len(v) - 1) THEN v[x - a0 + 1] ELSE d[x])
                = IF x - a0 \in (i - 1)..(Len(v) - 1) THEN v[x - a0 + 1] ELSE c[x]
  <2>1. d[x] = IF x - (a0 + i - 1) \in 0..(m - 1) THEN v1[x - (a0 + i - 1) + 1] ELSE c[x]
      BY DEF Overwrite, Piece
  <2>2. x \in Int /\ Len(v) \in Nat /\ i \in Nat \ {0}
      BY DEF Address
  <2>. HIDE DEF d
  <2>3. CASE x - a0 \in (i - 1)..(i + m - 2)
    <3>1. x - (a0 + i - 1) \in 0..(m - 1) /\ x - (a0 + i - 1) + 1 \in 1..m
        BY <2>2, <2>3
    <3>2. v1[x - (a0 + i - 1) + 1] = v[i + (x - (a0 + i - 1) + 1) - 1]
        BY <3>1 DEF Piece
    <3>3. i + (x - (a0 + i - 1) + 1) - 1 = x - a0 + 1
        BY <2>2
    <3>4. x - a0 \in (i - 1)..(Len(v) - 1) /\ x - a0 \notin (i + m - 1)..(Len(v) - 1)
        BY <2>2, <2>3
    <3>. QED BY <2>1, <3>1, <3>2, <3>3, <3>4
  <2>4. CASE x - a0 \notin (i - 1)..(i + m - 2)
    <3>1. x - (a0 + i - 1) \notin 0..(m - 1)
        BY <2>2, <2>4
    <3>2. (x - a0 \in (i - 1)..(Len(v) - 1)) <=> (x - a0 \in (i + m - 1)..(Len(v) - 1))
        BY <2>2, <2>4
    <3>. QED BY <2>1, <3>1, <3>2
  <2>. QED BY <2>3, <2>4
<1>. HIDE DEF d
<1>2. OverwriteFrom(d, a0, v, i + m) = OverwriteFrom(c, a0, v, i)
    BY <1>1 DEF OverwriteFrom
<1>. QED BY <1>2 DEF d

(* An entry for a piece and words that replay the rest replay both.        *)
LEMMA EntryThenRest ==
    ASSUME NEW a0 \in Nat, NEW v \in Seq(Byte), NEW i \in 1..Len(v),
           NEW m \in Nat \ {0}, i + m <= Len(v) + 1,
           NEW v1 \in Seq(Byte), Piece(v1, v, i, m),
           NEW E, EntryOK(E, a0 + i - 1, v1),
           NEW rest, Replays(rest, a0, v, i + m)
    PROVE  Replays(E \o rest, a0, v, i) /\ Len(E \o rest) >= 1
<1>. DEFINE ws == E \o rest
            l == Len(E)
<1>1. /\ E \in Seq(WordT) /\ l \in Nat \ {0} /\ (OneWordEntries => l = 1)
      /\ rest \in Seq(WordT) /\ Len(rest) \in Nat
    BY DEF EntryOK, Replays
<1>2. /\ ws \in Seq(WordT) /\ Len(ws) = l + Len(rest)
      /\ \A q \in 1..l : ws[q] = E[q]
      /\ \A q \in 1..Len(rest) : ws[l + q] = rest[q]
    BY <1>1, ConcatIs
<1>. HIDE DEF ws
<1>3. ASSUME NEW X \in LogT, NEW w \in Nat \ {0}, NEW k \in 0..Len(ws),
             Placed(X, w, ws, k), Erased(X, w + k)
      PROVE  \E n \in Nat : ReplaysTo(X, w, ws, k, n, a0, v, i)
  <2>. DEFINE e == EntryAt(X, Zero, w)
  <2>1. CASE k = 0
    <3>1. Path(X, w, w) /\ w + k = w /\ k # Len(ws)
        BY <2>1, <1>1, <1>2, NoPath
    <3>. QED BY <3>1 DEF ReplaysTo
  <2>2. ASSUME k >= 1
        PROVE  w \in Slot
    <3>1. 1 \in 1..k /\ w + 1 - 1 = w
        BY <2>2
    <3>. QED BY <3>1, <1>3 DEF Placed
  <2>3. CASE k \in 1..(l - 1)
    <3>1. Placed(X, w, E, k)
      <4>1. \A q \in 1..k : q \in 1..l
        <5>. HIDE DEF l
        <5>. QED BY <1>1, <2>3
      <4>2. \A q \in 1..k : ws[q] = E[q]
          BY <1>2, <4>1
      <4>. HIDE DEF l
      <4>. QED BY <1>3, <4>2 DEF Placed
    <3>2. /\ w \in Slot /\ k \in 1..l /\ k # Len(ws) /\ l # 1
      <4>1. k >= 1 /\ k \in 1..l /\ l # 1 /\ k < l
        <5>. HIDE DEF l
        <5>. QED BY <1>1, <2>3
      <4>2. k # Len(ws)
        <5>. HIDE DEF l
        <5>. QED BY <1>1, <1>2, <4>1
      <4>. QED BY <4>1, <4>2, <2>2
    <3>3. /\ X[w] # Zero /\ Inside(e)
          /\ \A o \in Outside : EntryAt(X, o, w).words = l /\ GoodBytes(EntryAt(X, o, w))
        BY <3>1, <3>2, <1>3 DEF EntryOK
    <3>4. Path(X, w, w + l)
        BY <3>2, <3>3, <1>1, OneStep
    <3>5. w + l \in Nat /\ w + k <= w + l
        BY <1>1, <2>3
    <3>6. ReplaysTo(X, w, ws, k, w + l, a0, v, i)
        BY <1>1, <3>2, <3>4, <3>5 DEF ReplaysTo
    <3>. QED BY <3>5, <3>6
  <2>4. CASE k >= l
    <3>. DEFINE k1 == k - l
                w1 == w + l
    <3>0. k \in Nat /\ k <= l + Len(rest) /\ l \in Nat \ {0} /\ Len(rest) \in Nat
        BY <1>1, <1>2
    <3>1. /\ k1 \in 0..Len(rest) /\ w1 \in Nat \ {0} /\ w1 + k1 = w + k
          /\ k1 = Len(rest) <=> k = Len(ws)
          /\ l \in 1..l /\ k >= 1
      <4>. HIDE DEF l
      <4>. QED BY <3>0, <1>2, <2>4
    <3>2. w \in Slot
        BY <2>2, <3>1
    <3>3. Placed(X, w, E, l)
        BY <1>1, <1>2, <1>3, <2>4 DEF Placed
    <3>4. Placed(X, w1, rest, k1)
      <4>1. SUFFICES ASSUME NEW q \in 1..k1 PROVE w1 + q - 1 \in Slot /\ X[w1 + q - 1] = rest[q]
          BY DEF Placed
      <4>2. l + q \in 1..k /\ q \in 1..Len(rest) /\ w + (l + q) - 1 = w1 + q - 1
          BY <1>1, <3>1
      <4>3. w + (l + q) - 1 \in Slot /\ X[w + (l + q) - 1] = ws[l + q]
          BY <4>2, <1>3 DEF Placed
      <4>. HIDE DEF w1, k1
      <4>. QED BY <4>2, <4>3, <1>2
    <3>5. /\ X[w] # Zero /\ Inside(e) /\ e.address = a0 + i - 1 /\ e.value = v1
          /\ \A o \in Outside : EntryAt(X, o, w).words = l /\ GoodBytes(EntryAt(X, o, w))
        BY <3>1, <3>2, <3>3 DEF EntryOK
    <3>6. Path(X, w, w1)
        BY <3>2, <3>5, <1>1, OneStep
    <3>7. e.words = l
        BY <3>5, OutsideType
    <3>8. PICK n \in Nat : ReplaysTo(X, w1, rest, k1, n, a0, v, i + m)
      <4>1. Erased(X, w1 + k1)
          BY <3>1, <1>3
      <4>. HIDE DEF w1, k1
      <4>. QED BY <4>1, <3>1, <3>4 DEF Replays
    <3>9. Path(X, w, n)
        BY <3>6, <3>8, JoinedPaths DEF ReplaysTo
    <3>10. ASSUME Replayed(X, w1, n, a0, v, i + m) PROVE Replayed(X, w, n, a0, v, i)
      <4>1. SUFFICES ASSUME NEW c \in Cache
            PROVE  Playback(X, Zero)[w][c] = Playback(X, Zero)[n][OverwriteFrom(c, a0, v, i)]
          BY DEF Replayed
      <4>. DEFINE d == Overwrite(c, a0 + i - 1, v1)
      <4>2. d \in Cache
          BY OverwriteType
      <4>3. Playback(X, Zero)[w][c] = Playback(X, Zero)[w1][d]
        <5>1. Playback(X, Zero)[w][c] = Playback(X, Zero)[w + e.words][Overwrite(c, e.address, e.value)]
            BY <3>2, <3>5, OutsideType, PlaybackGoesOn
        <5>. QED BY <5>1, <3>5, <3>7
      <4>4. OverwriteFrom(d, a0, v, i + m) = OverwriteFrom(c, a0, v, i)
          BY OverwriteComposes
      <4>. HIDE DEF d
      <4>. QED BY <4>2, <4>3, <4>4, <3>10 DEF Replayed
    <3>11. ReplaysTo(X, w, ws, k, n, a0, v, i)
      <4>. HIDE DEF w1, k1
      <4>. QED BY <3>1, <3>8, <3>9, <3>10 DEF ReplaysTo
    <3>. QED BY <3>11
  <2>5. k = 0 \/ k \in 1..(l - 1) \/ k >= l
      BY <1>1, <1>2
  <2>. QED BY <2>1, <2>3, <2>4, <2>5
<1>4. Replays(ws, a0, v, i) /\ Len(ws) >= 1
    BY <1>1, <1>2, <1>3 DEF Replays
<1>. QED BY <1>4 DEF ws

-----------------------------------------------------------------------------
(* The words of a write, unfolded.                                         *)

(* The words of a write from the i-th byte on, given those from later      *)
(* bytes on.                                                               *)
WordsAt(a0, v, f, i) ==
          LET a         == a0 + i - 1
              remaining == Len(v) - i + 1
              chunk     == IF remaining >= MULTIBYTE_MAX THEN MULTIBYTE_MAX ELSE remaining
          IN  IF remaining = 0 THEN <<>>
              ELSE IF /\ WRITE_SIZE = 2 /\ remaining >= 2 /\ a % 2 = 0 /\ a < WORD_LIMIT
                      /\ v[i] \in {0, 1} /\ v[i + 1] = 0
                   THEN LOG_ENTRY_MAKE_WORD_01(a, v[i]) \o f[i + 2]
              ELSE IF WRITE_SIZE = 2 /\ a < OPTIMIZED_LIMIT
                   THEN LOG_ENTRY_MAKE_OPTIMIZED_64(a, v[i]) \o f[i + 1]
              ELSE LOG_ENTRY_MAKE_MULTIBYTE(a, SubSeq(v, i, i + chunk - 1)) \o f[i + chunk]

(* f is right everywhere.                                                  *)
Writes(a0, v, f) == f = [i \in 1..(Len(v) + 1) |-> WordsAt(a0, v, f, i)]

(* LogWords is a function that is made of WordsAt, if there is one ...     *)
LEMMA LogWordsAre ==
    ASSUME NEW a0, NEW v, NEW f, Writes(a0, v, f)
    PROVE  \E g : Writes(a0, v, g) /\ LogWords(a0, v) = g[1]
<1>. DEFINE body(w) == [i \in 1..(Len(v) + 1) |->
          LET a         == a0 + i - 1
              remaining == Len(v) - i + 1
              chunk     == IF remaining >= MULTIBYTE_MAX THEN MULTIBYTE_MAX ELSE remaining
          IN  IF remaining = 0 THEN <<>>
              ELSE IF /\ WRITE_SIZE = 2 /\ remaining >= 2 /\ a % 2 = 0 /\ a < WORD_LIMIT
                      /\ v[i] \in {0, 1} /\ v[i + 1] = 0
                   THEN LOG_ENTRY_MAKE_WORD_01(a, v[i]) \o w[i + 2]
              ELSE IF WRITE_SIZE = 2 /\ a < OPTIMIZED_LIMIT
                   THEN LOG_ENTRY_MAKE_OPTIMIZED_64(a, v[i]) \o w[i + 1]
              ELSE LOG_ENTRY_MAKE_MULTIBYTE(a, SubSeq(v, i, i + chunk - 1)) \o w[i + chunk]]
            g == CHOOSE w : w = body(w)
<1>1. \A w : Writes(a0, v, w) <=> w = body(w)
    BY Zenon DEF Writes, WordsAt
<1>2. LogWords(a0, v) = g[1]
    BY Zenon DEF LogWords
<1>. HIDE DEF body
<1>3. g = body(g)
    BY <1>1, Zenon
<1>. QED BY <1>1, <1>2, <1>3, Zenon

(* ... WordsAt looks at later bytes only ...                               *)
LEMMA SameWordsAt ==
    ASSUME NEW a0 \in Nat, NEW v \in Seq(Byte), NEW i \in 1..(Len(v) + 1), NEW f, NEW g,
           \A j \in 1..(Len(v) + 1) : j > i => f[j] = g[j]
    PROVE  WordsAt(a0, v, f, i) = WordsAt(a0, v, g, i)
<1>. DEFINE remaining == Len(v) - i + 1
            chunk     == IF remaining >= MULTIBYTE_MAX THEN MULTIBYTE_MAX ELSE remaining
<1>1. Len(v) \in Nat /\ MULTIBYTE_MAX \in 1..5 /\ i \in Nat /\ remaining \in Nat
    BY WearAssumption
<1>2. ASSUME remaining # 0 PROVE f[i + 1] = g[i + 1] /\ f[i + chunk] = g[i + chunk]
  <2>1. i + 1 \in 1..(Len(v) + 1) /\ i + 1 > i
      BY <1>1, <1>2
  <2>2. i + chunk \in 1..(Len(v) + 1) /\ i + chunk > i
      BY <1>1, <1>2
  <2>. HIDE DEF chunk
  <2>. QED BY <2>1, <2>2
<1>3. ASSUME remaining >= 2 PROVE f[i + 2] = g[i + 2]
  <2>1. i + 2 \in 1..(Len(v) + 1) /\ i + 2 > i
      BY <1>1, <1>3
  <2>. QED BY <2>1
<1>. HIDE DEF remaining, chunk
<1>4. CASE remaining = 0
    BY <1>4, Zenon DEF WordsAt, remaining
<1>5. CASE remaining # 0
  <2>1. ASSUME NEW h
        PROVE  WordsAt(a0, v, h, i) =
                 IF remaining = 0 THEN <<>>
                 ELSE IF /\ WRITE_SIZE = 2 /\ remaining >= 2 /\ (a0 + i - 1) % 2 = 0
                         /\ a0 + i - 1 < WORD_LIMIT /\ v[i] \in {0, 1} /\ v[i + 1] = 0
                      THEN LOG_ENTRY_MAKE_WORD_01(a0 + i - 1, v[i]) \o h[i + 2]
                 ELSE IF WRITE_SIZE = 2 /\ a0 + i - 1 < OPTIMIZED_LIMIT
                      THEN LOG_ENTRY_MAKE_OPTIMIZED_64(a0 + i - 1, v[i]) \o h[i + 1]
                 ELSE LOG_ENTRY_MAKE_MULTIBYTE(a0 + i - 1, SubSeq(v, i, i + chunk - 1)) \o h[i + chunk]
      BY Zenon DEF WordsAt, remaining, chunk
  <2>. QED BY <2>1, <1>2, <1>3, <1>5, Zenon
<1>. QED BY <1>4, <1>5

(* f is right from the i-th byte on.                                       *)
WordsFrom(a0, v, i) == \E f : \A j \in 1..(Len(v) + 1) : j >= i => f[j] = WordsAt(a0, v, f, j)

(* ... so there is one.                                                    *)
LEMMA LogWordsExist ==
    ASSUME NEW a0 \in Nat, NEW v \in Seq(Byte)
    PROVE  \E g : /\ LogWords(a0, v) = g[1]
                  /\ \A i \in 1..(Len(v) + 1) : g[i] = WordsAt(a0, v, g, i)
<1>. DEFINE N == Len(v) + 1
            S == {i \in Nat : WordsFrom(a0, v, i)}
<1>1. N \in Nat
    OBVIOUS
<1>2. ASSUME NEW i \in Nat, i > N PROVE i \in S
  <2>1. \A j \in 1..N : ~(j >= i)
      BY <1>1, <1>2
  <2>. QED BY <2>1 DEF WordsFrom
<1>3. ASSUME NEW i \in 0..N, \A j \in Nat : j > i => j \in S PROVE i \in S
  <2>1. PICK f : \A j \in 1..N : j >= i + 1 => f[j] = WordsAt(a0, v, f, j)
    <3>1. i + 1 \in S
        BY <1>1, <1>3
    <3>2. WordsFrom(a0, v, i + 1)
        BY <3>1
    <3>. QED BY <3>2 DEF WordsFrom
  <2>. DEFINE g == [j \in 1..N |-> IF j = i THEN WordsAt(a0, v, f, i) ELSE f[j]]
  <2>2. /\ \A j \in 1..N : j > i => g[j] = f[j]
        /\ i \in 1..N => g[i] = WordsAt(a0, v, f, i)
      BY <1>1
  <2>. HIDE DEF g
  <2>3. ASSUME NEW j \in 1..N, j >= i PROVE g[j] = WordsAt(a0, v, g, j)
    <3>1. WordsAt(a0, v, g, j) = WordsAt(a0, v, f, j)
      <4>1. \A x \in 1..N : x > j => g[x] = f[x]
          BY <1>1, <2>2, <2>3
      <4>. QED BY <4>1, SameWordsAt
    <3>2. CASE j = i
        BY <3>1, <3>2, <2>2
    <3>3. CASE j > i
        BY <3>1, <3>3, <2>1, <2>2, <1>1
    <3>. QED BY <3>2, <3>3, <2>3, <1>1
  <2>. QED BY <2>3, <1>1 DEF WordsFrom
<1>4. 0 \in S
  <2>. HIDE DEF S, N
  <2>. QED BY <1>1, <1>2, <1>3, DownwardInduction
<1>5. PICK f : \A j \in 1..N : f[j] = WordsAt(a0, v, f, j)
  <2>1. \A j \in 1..N : j >= 0
      BY <1>1
  <2>. QED BY <1>4, <2>1 DEF WordsFrom
<1>. DEFINE g == [j \in 1..N |-> f[j]]
<1>6. Writes(a0, v, g)
  <2>1. ASSUME NEW j \in 1..N PROVE WordsAt(a0, v, g, j) = WordsAt(a0, v, f, j)
    <3>1. \A x \in 1..N : x > j => g[x] = f[x]
        OBVIOUS
    <3>. HIDE DEF g
    <3>. QED BY <3>1, SameWordsAt
  <2>2. g = [j \in 1..N |-> WordsAt(a0, v, g, j)]
      BY <2>1, <1>5
  <2>. HIDE DEF g
  <2>. QED BY <2>2 DEF Writes
<1>. HIDE DEF g
<1>7. PICK h : Writes(a0, v, h) /\ LogWords(a0, v) = h[1]
    BY <1>6, LogWordsAre
<1>8. \A i \in 1..N : h[i] = WordsAt(a0, v, h, i)
    BY <1>7 DEF Writes
<1>. QED BY <1>7, <1>8

-----------------------------------------------------------------------------
(* A write is read back as what it wrote, and any part of it as whole      *)
(* entries.                                                                *)

(* The three kinds of entry that a write may begin with.                     *)
Begins(a0, v, i, g, m, v1, E) ==
    /\ i + m <= Len(v) + 1 /\ Piece(v1, v, i, m)
    /\ EntryOK(E, a0 + i - 1, v1) /\ WordsAt(a0, v, g, i) = E \o g[i + m]

(* A write begins with an entry for one of its pieces.                     *)
LEMMA WordsAtIs ==
    ASSUME NEW a0 \in Nat, NEW v \in Seq(Byte), NEW i \in 1..Len(v), NEW g,
           a0 + Len(v) <= LOGICAL_SIZE
    PROVE  \E m \in Nat \ {0}, v1 \in Seq(Byte), E \in Seq(WordT) : Begins(a0, v, i, g, m, v1, E)
<1>. DEFINE a         == a0 + i - 1
            remaining == Len(v) - i + 1
            chunk     == IF remaining >= MULTIBYTE_MAX THEN MULTIBYTE_MAX ELSE remaining
            isWord    == /\ WRITE_SIZE = 2 /\ remaining >= 2 /\ a % 2 = 0 /\ a < WORD_LIMIT
                         /\ v[i] \in {0, 1} /\ v[i + 1] = 0
            isByte    == WRITE_SIZE = 2 /\ a < OPTIMIZED_LIMIT
<1>1. /\ Len(v) \in Nat /\ i \in Nat \ {0} /\ remaining \in Nat \ {0} /\ MULTIBYTE_MAX \in 1..5
      /\ LOGICAL_SIZE \in Nat /\ a \in Nat /\ a + remaining <= LOGICAL_SIZE /\ v[i] \in Byte
    BY WearAssumption
<1>2. a \in Address
    BY <1>1 DEF Address
<1>3. chunk \in 1..MULTIBYTE_MAX /\ chunk <= remaining /\ chunk \in Nat \ {0}
    BY <1>1
<1>4. WordsAt(a0, v, g, i) =
        IF remaining = 0 THEN <<>>
        ELSE IF isWord THEN LOG_ENTRY_MAKE_WORD_01(a, v[i]) \o g[i + 2]
        ELSE IF isByte THEN LOG_ENTRY_MAKE_OPTIMIZED_64(a, v[i]) \o g[i + 1]
        ELSE LOG_ENTRY_MAKE_MULTIBYTE(a, SubSeq(v, i, i + chunk - 1)) \o g[i + chunk]
    BY Zenon DEF WordsAt
<1>5. CASE isWord
  <2>. DEFINE E  == LOG_ENTRY_MAKE_WORD_01(a, v[i])
              v1 == <<v[i], 0>>
  <2>1. v1 \in Seq(Byte) /\ Piece(v1, v, i, 2) /\ i + 2 <= Len(v) + 1
    <3>1. v[i] \in Byte /\ 0 \in Byte
        BY <1>1, WearAssumption DEF Byte
    <3>2. Len(v1) = 2 /\ v1[1] = v[i] /\ v1[2] = 0 /\ i + 1 - 1 = i /\ i + 2 - 1 = i + 1
        BY <1>1
    <3>3. \A j \in 1..2 : v1[j] = v[i + j - 1]
        BY <3>2, <1>5
    <3>. QED BY <3>1, <3>2, <3>3, <1>1, <1>5 DEF Piece
  <2>2. EntryOK(E, a, v1)
    <3>1. a + 2 <= LOGICAL_SIZE
        BY <1>1, <1>5
    <3>. HIDE DEF a
    <3>. QED BY <1>2, <1>5, <3>1, WordOK
  <2>3. WordsAt(a0, v, g, i) = E \o g[i + 2]
    <3>. HIDE DEF remaining, isWord, isByte, chunk
    <3>. QED BY <1>1, <1>4, <1>5
  <2>4. Begins(a0, v, i, g, 2, v1, E)
      BY <2>1, <2>2, <2>3 DEF Begins
  <2>5. E \in Seq(WordT)
    <3>. HIDE DEF E
    <3>. QED BY <2>2 DEF EntryOK
  <2>. HIDE DEF E, v1
  <2>. QED BY <2>1, <2>4, <2>5
<1>6. CASE ~isWord /\ isByte
  <2>. DEFINE E  == LOG_ENTRY_MAKE_OPTIMIZED_64(a, v[i])
              v1 == <<v[i]>>
  <2>1. v1 \in Seq(Byte) /\ Piece(v1, v, i, 1) /\ i + 1 <= Len(v) + 1
    <3>1. Len(v1) = 1 /\ v1[1] = v[i] /\ i + 1 - 1 = i
        BY <1>1
    <3>2. \A j \in 1..1 : v1[j] = v[i + j - 1]
        BY <3>1
    <3>. QED BY <3>1, <3>2, <1>1 DEF Piece
  <2>2. EntryOK(E, a, v1)
    <3>. HIDE DEF a, isWord
    <3>. QED BY <1>1, <1>2, <1>6, OneByteOK
  <2>3. WordsAt(a0, v, g, i) = E \o g[i + 1]
    <3>. HIDE DEF remaining, isWord, isByte, chunk
    <3>. QED BY <1>1, <1>4, <1>6
  <2>4. Begins(a0, v, i, g, 1, v1, E)
      BY <2>1, <2>2, <2>3 DEF Begins
  <2>5. E \in Seq(WordT)
    <3>. HIDE DEF E
    <3>. QED BY <2>2 DEF EntryOK
  <2>. HIDE DEF E, v1
  <2>. QED BY <2>1, <2>4, <2>5
<1>7. CASE ~isWord /\ ~isByte
  <2>. DEFINE v1 == SubSeq(v, i, i + chunk - 1)
              E  == LOG_ENTRY_MAKE_MULTIBYTE(a, v1)
  <2>1. v1 \in Seq(Byte) /\ Piece(v1, v, i, chunk) /\ i + chunk <= Len(v) + 1
    <3>. HIDE DEF chunk
    <3>1. i + chunk - 1 <= Len(v) /\ i + chunk - 1 \in Nat /\ i <= i + chunk - 1 + 1
        BY <1>1, <1>3
    <3>2. v1 = [j \in 1..chunk |-> v[i + j - 1]]
      <4>1. 1 + (i + chunk - 1) - i = chunk
          BY <1>1, <1>3
      <4>2. v1 = [j \in 1..(1 + (i + chunk - 1) - i) |-> v[i + j - 1]]
          BY <1>1, <1>3
      <4>. QED BY <4>1, <4>2
    <3>3. v1 \in [1..chunk -> Byte]
      <4>1. \A j \in 1..chunk : i + j - 1 \in 1..Len(v)
          BY <1>1, <1>3, <3>1
      <4>2. \A j \in 1..chunk : v[i + j - 1] \in Byte
          BY <4>1
      <4>. HIDE DEF v1
      <4>. QED BY <3>2, <4>2
    <3>. HIDE DEF v1
    <3>4. v1 \in Seq(Byte) /\ Len(v1) = chunk
        BY <1>3, <3>3, FunctionIsSeq
    <3>5. i + chunk <= Len(v) + 1
        BY <1>1, <1>3
    <3>. QED BY <3>2, <3>4, <3>5 DEF Piece
  <2>2. EntryOK(E, a, v1)
    <3>1. Len(v1) \in 1..MULTIBYTE_MAX /\ a + Len(v1) <= LOGICAL_SIZE
      <4>1. Len(v1) = chunk
          BY <2>1 DEF Piece
      <4>. HIDE DEF v1, chunk, a, remaining
      <4>. QED BY <4>1, <1>1, <1>3
    <3>. HIDE DEF v1, a
    <3>. QED BY <1>1, <2>1, <3>1, MultibyteOK
  <2>3. WordsAt(a0, v, g, i) = E \o g[i + chunk]
    <3>. HIDE DEF remaining, isWord, isByte, chunk
    <3>. QED BY <1>1, <1>4, <1>7
  <2>4. Begins(a0, v, i, g, chunk, v1, E)
      BY <2>1, <2>2, <2>3 DEF Begins
  <2>5. E \in Seq(WordT)
    <3>. HIDE DEF E
    <3>. QED BY <2>2 DEF EntryOK
  <2>. HIDE DEF E, v1, chunk
  <2>. QED BY <1>3, <2>1, <2>4, <2>5
<1>. QED BY <1>5, <1>6, <1>7

(* What a restart reads of the words of a write.                             *)
LEMMA WriteReplays ==
    ASSUME NEW a0 \in Nat, NEW v \in Seq(Byte), Len(v) >= 1, a0 + Len(v) <= LOGICAL_SIZE
    PROVE  Replays(LogWords(a0, v), a0, v, 1) /\ Len(LogWords(a0, v)) >= 1
<1>. DEFINE N == Len(v) + 1
<1>1. PICK g : /\ LogWords(a0, v) = g[1]
               /\ \A i \in 1..N : g[i] = WordsAt(a0, v, g, i)
    BY LogWordsExist
<1>. DEFINE Good(i) == Replays(g[i], a0, v, i) /\ (i <= Len(v) => Len(g[i]) >= 1)
            S       == {i \in Nat : i \in 1..N => Good(i)}
<1>2. N \in Nat /\ Len(v) \in Nat
    OBVIOUS
<1>3. ASSUME NEW i \in Nat, i > N PROVE i \in S
    BY <1>2, <1>3
<1>4. ASSUME NEW i \in 0..N, \A j \in Nat : j > i => j \in S PROVE i \in S
  <2>1. CASE i = 0
      BY <2>1
  <2>2. CASE i = N
    <3>1. g[i] = <<>>
      <4>1. Len(v) - i + 1 = 0
          BY <2>2, <1>2
      <4>2. WordsAt(a0, v, g, i) = <<>>
          BY <4>1, Zenon DEF WordsAt
      <4>3. i \in 1..N
          BY <2>2, <1>2
      <4>. QED BY <4>2, <4>3, <1>1
    <3>2. Replays(g[i], a0, v, i) /\ ~(i <= Len(v))
        BY <2>2, <3>1, <1>2, NothingLeft
    <3>. QED BY <3>2
  <2>3. CASE i \in 1..Len(v)
    <3>0. PICK m \in Nat \ {0}, v1 \in Seq(Byte), E \in Seq(WordT) : Begins(a0, v, i, g, m, v1, E)
        BY <2>3, WordsAtIs
    <3>1. /\ i + m <= Len(v) + 1 /\ Piece(v1, v, i, m)
          /\ EntryOK(E, a0 + i - 1, v1) /\ WordsAt(a0, v, g, i) = E \o g[i + m]
        BY <3>0 DEF Begins
    <3>2. i \in 1..N /\ i + m \in 1..N /\ i + m > i /\ i + m \in Nat
        BY <1>2, <2>3, <3>1
    <3>3. i + m \in S
        BY <3>2, <1>4
    <3>4. Good(i + m)
        BY <3>2, <3>3
    <3>5. Replays(g[i + m], a0, v, i + m)
        BY <3>4
    <3>6. Replays(E \o g[i + m], a0, v, i) /\ Len(E \o g[i + m]) >= 1
        BY <2>3, <3>1, <3>5, EntryThenRest
    <3>7. g[i] = E \o g[i + m]
        BY <1>1, <3>1, <3>2
    <3>8. Good(i)
        BY <3>6, <3>7
    <3>. QED BY <3>8
  <2>. QED BY <2>1, <2>2, <2>3, <1>2
<1>5. 1 \in S
  <2>. HIDE DEF S, N
  <2>. QED BY <1>2, <1>3, <1>4, DownwardInduction
<1>6. Good(1)
    BY <1>2, <1>5
<1>. QED BY <1>1, <1>2, <1>6

-----------------------------------------------------------------------------
(* The inductive invariant.                                                *)

(* The log is a path of entries up to slot n, and erased from there on.    *)
LogOK(lg, n) == Path(lg, 1, n) /\ Erased(lg, n)
(* The log is one that playback reads to its end.                          *)
Parses(lg) == \E n \in Nat : LogOK(lg, n)

(* The next word can be appended.                                          *)
Ready == write_address \in Slot /\ log[write_address] = Zero

(* X is the log with the first k words of the running write appended.        *)
Extends(X, k) ==
    /\ \A j \in Slot : j < write_address => X[j] = log[j]
    /\ Placed(X, write_address, todo, k) /\ Erased(X, write_address + k)

(* Whatever part of the running write reaches the log, the log parses; and *)
(* the write address is its end once the write is complete, or all along   *)
(* when every entry is one word.                                           *)
Appends ==
    \A X \in LogT, k \in 0..Len(todo) : Extends(X, k) =>
       /\ Parses(X)
       /\ k = Len(todo) \/ OneWordEntries => LogOK(X, write_address + k)

(* The counter of sectors, data words or checksum words is within its      *)
(* range.                                                                  *)
NextInv ==
    /\ next \in Nat \ {0}
    /\ pc \in {"off", "idle", "append"} => next = 1
    /\ pc \in {"erase", "wipe"} => next <= SECTORS
    /\ pc = "data" => next <= DATA_WORDS
    /\ pc = "sum" => next <= HASH_WORDS

(* The types of the variables, that of the log included.                   *)
Types ==
    /\ data \in Cache /\ sum \in [of : Cache, words : 0..HASH_WORDS] /\ log \in LogT
    /\ cache \in Cache /\ write_address \in 1..(LOG_SLOTS + 1)
    /\ unlocked \in BOOLEAN /\ locks \in BOOLEAN
    /\ pc \in {"off", "idle", "append", "erase", "data", "sum", "wipe"}
    /\ todo \in Seq(WordT) /\ (pc = "append") = (todo # <<>>)
    /\ block \in SUBSET Address /\ (pc = "append" => block # {})
    /\ result \in {"none", "FAILED", "SUCCESS", "CONSOLIDATED"}

(* The log parses at every step.  The write address is its end between     *)
(* calls, unless earlier failures have left it at a written word or past   *)
(* the end; and the log is erased when the erase has passed its sector.    *)
LogInv ==
    /\ Parses(log) /\ (pc \in {"off", "idle"} => block = {})
    /\ pc = "idle" /\ Ready => LogOK(log, write_address)
    /\ pc = "append" /\ Ready => Erased(log, write_address) /\ Appends
    /\ pc \in {"erase", "wipe"} /\ next > SectorOf[1] => Erased(log, 1)
    /\ pc \in {"data", "sum"} => Erased(log, 1)
    /\ pc = "erase" /\ block # {} => write_address = LOG_SLOTS + 1

(* The consolidated copy has no checksum until all its data are written,   *)
(* and then a partial one until the last word.                             *)
SumInv ==
    /\ pc \in {"erase", "wipe"} /\ next > SectorOf[0] => sum = NoSum
    /\ pc = "data" => /\ sum = NoSum
                      /\ \A x \in Address : x \div WRITE_SIZE < next - 1 => data[x] = cache[x]
    /\ pc = "sum" => data = cache /\ (sum = NoSum \/ sum.words < next)

(* The inductive invariant.                                                *)
IInv == Types /\ NextInv /\ LogInv /\ SumInv

(* What the assumptions say of sizes, sectors and types.                   *)
LEMMA Geometry ==
    /\ LOG_SLOTS \in Nat \ {0} /\ 1 \in Slot /\ SECTORS \in Nat \ {0}
    /\ \A i \in 0..LOG_SLOTS : SectorOf[i] \in 1..SECTORS
    /\ SectorOf[0] \in 1..SECTORS /\ SectorOf[1] \in 1..SECTORS
    /\ DATA_WORDS \in Nat \ {0} /\ HASH_WORDS \in Nat \ {0}
    /\ \A x \in Address : x \div WRITE_SIZE \in 0..(DATA_WORDS - 1)
    /\ ZeroCache \in Cache /\ NoSum \in [of : Cache, words : 0..HASH_WORDS]
    /\ Zero \in WordT
<1>1. LOG_SLOTS \in Nat \ {0} /\ 1 \in Slot /\ SECTORS \in Nat \ {0}
      /\ SectorOf \in [0..LOG_SLOTS -> 1..SECTORS]
    BY WearAssumption DEF Slot
<1>2. SectorOf[0] \in 1..SECTORS /\ SectorOf[1] \in 1..SECTORS
    BY <1>1
<1>3. HASH_WORDS \in Nat \ {0}
    BY WearAssumption DEF HASH_WORDS
<1>4. DATA_WORDS \in Nat \ {0} /\ \A x \in Address : x \div WRITE_SIZE \in 0..(DATA_WORDS - 1)
  <2>1. LOGICAL_SIZE \in Nat \ {0} /\ LOGICAL_SIZE % WRITE_SIZE = 0
      BY WearAssumption
  <2>2. CASE WRITE_SIZE = 2 BY <2>1, <2>2 DEF DATA_WORDS, Address
  <2>3. CASE WRITE_SIZE = 4 BY <2>1, <2>3 DEF DATA_WORDS, Address
  <2>4. CASE WRITE_SIZE = 8 BY <2>1, <2>4 DEF DATA_WORDS, Address
  <2>. QED BY <2>2, <2>3, <2>4, WearAssumption
<1>5. ZeroCache \in Cache
  <2>1. 0 \in Byte
      BY WearAssumption DEF Byte
  <2>. QED BY <2>1 DEF ZeroCache, Cache
<1>6. NoSum \in [of : Cache, words : 0..HASH_WORDS]
    BY <1>3, <1>5 DEF NoSum
<1>. QED BY <1>1, <1>2, <1>3, <1>4, <1>5, <1>6, OutsideType

(* An erased log parses.                                                   *)
LEMMA EmptyLog ==
    ASSUME NEW lg, Erased(lg, 1)
    PROVE  LogOK(lg, 1) /\ Parses(lg)
<1>1. Path(lg, 1, 1)
    BY NoPath
<1>. QED BY <1>1 DEF LogOK, Parses

(* A log that parses and begins with an erased word is erased.             *)
LEMMA FromStart ==
    ASSUME NEW lg, Parses(lg), lg[1] = Zero
    PROVE  LogOK(lg, 1) /\ Erased(lg, 1)
<1>1. PICK n \in Nat : LogOK(lg, n)
    BY DEF Parses
<1>2. PICK B : PathOn(lg, 1, n, B)
    BY <1>1 DEF LogOK, Path
<1>3. n = 1
  <2>1. 1 \in B /\ (1 # n => lg[1] # Zero)
      BY <1>2 DEF PathOn, Chain
  <2>. QED BY <2>1
<1>. QED BY <1>1, <1>3 DEF LogOK

(* The consolidated copy is read as a cache.                               *)
LEMMA SumRead ==
    ASSUME data \in Cache
    PROVE  read_consolidated \in Cache
BY Geometry DEF read_consolidated

(* What playback may find in a log that parses.                              *)
LEMMA PlaybackFinds ==
    ASSUME NEW lg \in LogT, NEW n, LogOK(lg, n), NEW c \in Cache, NEW o \in Outside
    PROVE  /\ Read(Playback(lg, o)[1][c], n)
           /\ \E d \in Cache : Playback(lg, Zero)[1][c] = [ok |-> TRUE, cache |-> d, next |-> n]
           /\ n <= LOG_SLOTS => Playback(lg, o)[1][c] = Playback(lg, Zero)[1][c]
<1>1. Path(lg, 1, n) /\ (n \notin Slot \/ lg[n] = Zero) /\ n \in Nat /\ n >= 1
  <2>1. Path(lg, 1, n)
      BY DEF LogOK
  <2>2. n \in Nat /\ n >= 1
      BY <2>1, PathEnds
  <2>. QED BY <2>1, <2>2 DEF LogOK, Erased
<1>2. Read(Playback(lg, o)[1][c], n)
    BY <1>1, PathReads
<1>3. PICK d \in Cache : Playback(lg, Zero)[1][c] = [ok |-> TRUE, cache |-> d, next |-> n]
    BY <1>1, PathPlays
<1>4. ASSUME n <= LOG_SLOTS
      PROVE  Playback(lg, o)[1][c] = Playback(lg, Zero)[1][c]
  <2>1. n <= LOG_SLOTS + 1
      BY <1>1, <1>4, Geometry
  <2>2. Together(Playback(lg, Zero), Playback(lg, o), 1, n)
      BY <1>1, <2>1, PathMoves
  <2>3. PICK e \in Cache : /\ Playback(lg, Zero)[1][c] = Playback(lg, Zero)[n][e]
                           /\ Playback(lg, o)[1][c] = Playback(lg, o)[n][e]
      BY <2>2 DEF Together
  <2>4. Zero \in WordT /\ o \in WordT
      BY OutsideType
  <2>5. /\ Playback(lg, Zero)[n][e] = [ok |-> TRUE, cache |-> e, next |-> n]
        /\ Playback(lg, o)[n][e] = [ok |-> TRUE, cache |-> e, next |-> n]
      BY <1>1, <2>4, PlaybackEnds
  <2>. QED BY <2>3, <2>5
<1>. QED BY <1>2, <1>3, <1>4

(* The words of a write, appended to a log that parses.                      *)
LEMMA WriteAppends ==
    ASSUME NEW lg \in LogT, NEW wa \in Slot, LogOK(lg, wa),
           NEW a \in Nat, NEW v \in Seq(Byte), Len(v) >= 1, a + Len(v) <= LOGICAL_SIZE,
           NEW X \in LogT, NEW k \in 0..Len(LogWords(a, v)),
           \A j \in Slot : j < wa => X[j] = lg[j],
           Placed(X, wa, LogWords(a, v), k), Erased(X, wa + k)
    PROVE  /\ Parses(X)
           /\ OneWordEntries => LogOK(X, wa + k)
           /\ k = Len(LogWords(a, v)) =>
                 /\ LogOK(X, wa + k)
                 /\ \A c \in Cache : Playback(X, Zero)[1][c] =
                       [ok |-> TRUE, cache |-> Overwrite(Playback(lg, Zero)[1][c].cache, a, v),
                        next |-> wa + k]
<1>. DEFINE ws == LogWords(a, v)
<1>1. Replays(ws, a, v, 1)
    BY WriteReplays
<1>2. wa \in Nat \ {0} /\ wa <= LOG_SLOTS + 1 /\ k \in Nat
  <2>1. Len(ws) \in Nat
      BY <1>1 DEF Replays
  <2>. HIDE DEF ws
  <2>. QED BY <2>1, Geometry DEF Slot, ws
<1>3. PICK n \in Nat : ReplaysTo(X, wa, ws, k, n, a, v, 1)
    BY <1>1, <1>2 DEF Replays
<1>4. Path(X, 1, wa) /\ Together(Playback(lg, Zero), Playback(X, Zero), 1, wa)
    BY <1>2, PathMoves, OutsideType DEF LogOK
<1>5. Path(X, 1, n) /\ n >= wa + k
    BY <1>3, <1>4, JoinedPaths DEF ReplaysTo
<1>6. LogOK(X, n)
  <2>1. Erased(X, n)
    <3>1. SUFFICES ASSUME NEW j \in Slot, j >= n PROVE X[j] = Zero
        BY DEF Erased
    <3>2. j >= wa + k
        BY <1>2, <1>5, <3>1 DEF Slot
    <3>. QED BY <3>2 DEF Erased
  <2>. QED BY <1>5, <2>1 DEF LogOK
<1>7. ASSUME k = Len(ws)
      PROVE  /\ n = wa + k
             /\ \A c \in Cache : Playback(X, Zero)[1][c] =
                    [ok |-> TRUE, cache |-> Overwrite(Playback(lg, Zero)[1][c].cache, a, v),
                     next |-> wa + k]
  <2>1. n = wa + k /\ Replayed(X, wa, n, a, v, 1)
      BY <1>3, <1>7 DEF ReplaysTo
  <2>2. ASSUME NEW c \in Cache
        PROVE  Playback(X, Zero)[1][c] =
                    [ok |-> TRUE, cache |-> Overwrite(Playback(lg, Zero)[1][c].cache, a, v),
                     next |-> n]
    <3>1. PICK d \in Cache : /\ Playback(lg, Zero)[1][c] = Playback(lg, Zero)[wa][d]
                             /\ Playback(X, Zero)[1][c] = Playback(X, Zero)[wa][d]
        BY <1>4 DEF Together
    <3>2. Playback(lg, Zero)[wa][d] = [ok |-> TRUE, cache |-> d, next |-> wa]
      <4>1. lg[wa] = Zero
          BY <1>2 DEF LogOK, Erased
      <4>. QED BY <1>2, <4>1, PlaybackEnds, OutsideType
    <3>3. Playback(X, Zero)[wa][d] = Playback(X, Zero)[n][OverwriteFrom(d, a, v, 1)]
        BY <2>1 DEF Replayed
    <3>4. OverwriteFrom(d, a, v, 1) = Overwrite(d, a, v) /\ OverwriteFrom(d, a, v, 1) \in Cache
      <4>1. OverwriteFrom(d, a, v, 1) \in Cache
          BY OverwriteFromType
      <4>2. 1 - 1 = 0
          OBVIOUS
      <4>. QED BY <4>1, <4>2 DEF OverwriteFrom, Overwrite
    <3>5. Playback(X, Zero)[n][OverwriteFrom(d, a, v, 1)]
             = [ok |-> TRUE, cache |-> OverwriteFrom(d, a, v, 1), next |-> n]
      <4>1. n \notin Slot \/ X[n] = Zero
          BY <1>6 DEF LogOK, Erased
      <4>. QED BY <3>4, <4>1, PlaybackEnds, OutsideType
    <3>6. Playback(lg, Zero)[1][c].cache = d
        BY <3>1, <3>2
    <3>. QED BY <3>1, <3>3, <3>4, <3>5, <3>6
  <2>. QED BY <2>1, <2>2
<1>8. ASSUME OneWordEntries PROVE n = wa + k
    BY <1>3, <1>8 DEF ReplaysTo
<1>9. Parses(X)
    BY <1>6 DEF Parses
<1>. HIDE DEF ws
<1>10. /\ OneWordEntries => LogOK(X, wa + k)
       /\ k = Len(ws) => LogOK(X, wa + k)
    BY <1>6, <1>7, <1>8
<1>. QED BY <1>7, <1>9, <1>10 DEF ws

-----------------------------------------------------------------------------
(* How calls return.                                                       *)

(* What a return does to the cache and the write address, and to the rest. *)
Cleared(addr) == \/ write_address' = 1 /\ cache' = ZeroCache
                 \/ write_address' = addr /\ cache' = cache
Returned(s, addr) ==
    /\ pc' = "idle" /\ todo' = <<>> /\ next' = 1 /\ locks' = FALSE /\ block' = {}
    /\ unlocked' \in BOOLEAN /\ result' \in {s, "FAILED"} /\ Cleared(addr)

(* Every return path does that.                                            *)
LEMMA ReturnDoes ==
    ASSUME unlocked \in BOOLEAN, NEW s, NEW addr, Return(s, addr)
    PROVE  Returned(s, addr)
<1>1. unlocked' \in BOOLEAN /\ result' \in {s, "FAILED"}
  <2>1. CASE unlocked' = (IF locks THEN FALSE ELSE unlocked) /\ result' = s
    <3>1. CASE locks BY <2>1, <3>1
    <3>2. CASE ~locks BY <2>1, <3>2
    <3>. QED BY <3>1, <3>2
  <2>2. CASE unlocked' = TRUE /\ result' = IF ofInit THEN s ELSE "FAILED"
      BY <2>2
  <2>. QED BY <2>1, <2>2 DEF Return, Relock
<1>2. Cleared(addr)
    BY DEF Return, clear_cache, Cleared
<1>. QED BY <1>1, <1>2 DEF Return, Returned

(* A call that ends with the log as it is, or erased, and the address after  *)
(* what the log says or at its start.                                        *)
LEMMA ReturnKeeps ==
    ASSUME Types, NextInv, Parses(log'), NEW s, NEW addr, Returned(s, addr),
           s \in {"FAILED", "SUCCESS", "CONSOLIDATED"}, addr \in 1..(LOG_SLOTS + 1),
           data' \in Cache, sum' \in [of : Cache, words : 0..HASH_WORDS], log' \in LogT,
           write_address' = 1 \/ (Ready' => LogOK(log', write_address'))
    PROVE  IInv'
<1>1. Types'
  <2>1. cache' \in Cache /\ write_address' \in 1..(LOG_SLOTS + 1)
      BY Geometry DEF Types, Returned, Cleared
  <2>2. result' \in {"none", "FAILED", "SUCCESS", "CONSOLIDATED"}
      BY DEF Returned
  <2>3. /\ unlocked' \in BOOLEAN /\ locks' \in BOOLEAN /\ block' \in SUBSET Address
        /\ pc' = "idle" /\ todo' = <<>>
      BY DEF Returned
  <2>4. todo' \in Seq(WordT)
      BY <2>3
  <2>. QED BY <2>1, <2>2, <2>3, <2>4 DEF Types
<1>2. NextInv'
    BY DEF NextInv, Returned
<1>3. LogInv'
  <2>1. Ready' => LogOK(log', write_address')
    <3>1. CASE write_address' = 1
        BY <3>1, FromStart DEF Ready
    <3>. QED BY <3>1
  <2>. QED BY <2>1 DEF LogInv, Returned
<1>4. SumInv'
    BY DEF SumInv, Returned
<1>. QED BY <1>1, <1>2, <1>3, <1>4 DEF IInv

(* Steps in which nothing happens.                                         *)
LEMMA Quiet ==
    ASSUME IInv, UNCHANGED vars
    PROVE  IInv'
<1>1. Types' /\ NextInv' /\ SumInv'
    BY DEF IInv, Types, NextInv, SumInv, vars, store
<1>2. Ready' = Ready /\ (Appends => Appends')
    BY DEF Ready, Appends, Extends, vars, store
<1>3. LogInv'
    BY <1>2 DEF IInv, LogInv, vars, store
<1>. QED BY <1>1, <1>3 DEF IInv

-----------------------------------------------------------------------------
(* Steps that leave the log alone.                                         *)

(* A block is a nonempty sequence of bytes.                                *)
LEMMA BlockIs ==
    ASSUME NEW v \in Blocks
    PROVE  v \in Seq(Byte) /\ Len(v) \in Nat /\ Len(v) >= 1
<1>1. PICK l \in 1..MaxLength : v \in [1..l -> Value]
    BY DEF Blocks
<1>2. l \in Nat \ {0} /\ Value \subseteq Byte
    BY WearAssumption
<1>3. v \in [1..l -> Byte]
    BY <1>1, <1>2
<1>. QED BY <1>2, <1>3, FunctionIsSeq

(* The invariant holds at first ...                                        *)
LEMMA InitOK == Init => IInv
<1>. SUFFICES ASSUME Init PROVE IInv
    OBVIOUS
<1>1. log \in LogT /\ Erased(log, 1)
    BY Geometry DEF Init, LogT, Erased
<1>2. Types
  <2>1. todo \in Seq(WordT) /\ (pc = "append") = (todo # <<>>)
      BY DEF Init
  <2>2. write_address \in 1..(LOG_SLOTS + 1)
      BY Geometry DEF Init
  <2>. QED BY <1>1, <2>1, <2>2, Geometry DEF Init, Types
<1>3. NextInv /\ SumInv
    BY DEF Init, NextInv, SumInv
<1>4. LogInv
    BY <1>1, EmptyLog DEF Init, LogInv
<1>. QED BY <1>2, <1>3, <1>4 DEF IInv

(* ... and when power is lost ...                                          *)
LEMMA PowerLossOK ==
    ASSUME IInv, PowerLoss
    PROVE  IInv'
<1>1. Types'
  <2>1. todo' \in Seq(WordT) /\ (pc' = "append") = (todo' # <<>>)
      BY DEF PowerLoss
  <2>2. cache' \in Cache /\ write_address' \in 1..(LOG_SLOTS + 1)
      BY Geometry DEF PowerLoss, clear_cache
  <2>. QED BY <2>1, <2>2 DEF IInv, Types, PowerLoss, store
<1>2. NextInv' /\ SumInv'
    BY DEF PowerLoss, NextInv, SumInv
<1>3. LogInv'
    BY DEF IInv, LogInv, PowerLoss, store
<1>. QED BY <1>1, <1>2, <1>3 DEF IInv

(* ... after a restart, whose write address is the end of the log ...      *)
LEMMA InitStepOK ==
    ASSUME IInv, wear_leveling_init
    PROVE  IInv'
<1>1. PICK n \in Nat : LogOK(log, n)
    BY DEF IInv, LogInv, Parses
<1>2. PICK o \in Outside :
         /\ cache' = playback_log(o).cache /\ write_address' = NewWriteAddress(playback_log(o))
         /\ IF playback_log(o).ok /\ playback_log(o).next <= LOG_SLOTS
            THEN pc' = "idle" /\ result' = "SUCCESS"
            ELSE pc' = "erase" /\ UNCHANGED result
    BY DEF wear_leveling_init, Outside
<1>. DEFINE p == playback_log(o)
<1>3. p \in [ok : BOOLEAN, cache : Cache, next : Nat \ {0}] /\ (p.ok => p.next = n)
  <2>1. Read(Playback(log, o)[1][read_consolidated], n)
      BY <1>1, PlaybackFinds, SumRead DEF IInv, Types
  <2>. QED BY <2>1 DEF Read, playback_log
<1>. HIDE DEF p
<1>4. /\ cache' = p.cache /\ write_address' = (IF p.next > LOG_SLOTS THEN LOG_SLOTS + 1 ELSE p.next)
      /\ IF p.ok /\ p.next <= LOG_SLOTS
         THEN pc' = "idle" /\ result' = "SUCCESS"
         ELSE pc' = "erase" /\ UNCHANGED result
    BY <1>2 DEF p, NewWriteAddress
<1>5. cache' \in Cache /\ write_address' \in 1..(LOG_SLOTS + 1)
    BY <1>3, <1>4, Geometry
<1>6. pc = "off" /\ UNCHANGED <<store, unlocked, todo, next, locks, block>>
    BY DEF wear_leveling_init
<1>7. Types'
    BY <1>4, <1>5, <1>6 DEF IInv, Types, store
<1>8. pc' \in {"idle", "erase"} /\ next' = 1 /\ block' = {}
    BY <1>4, <1>6 DEF IInv, NextInv, LogInv
<1>9. NextInv' /\ SumInv'
    BY <1>8, Geometry DEF NextInv, SumInv
<1>10. LogInv'
  <2>1. ASSUME pc' = "idle" PROVE write_address' = n
      BY <1>3, <1>4, <2>1, Geometry
  <2>2. pc' = "idle" => LogOK(log, write_address')
      BY <1>1, <2>1
  <2>. QED BY <1>6, <1>8, <2>2, Geometry DEF IInv, LogInv, store
<1>. QED BY <1>7, <1>9, <1>10 DEF IInv

(* ... or its start when the store could not be initialised ...            *)
LEMMA InitFailsOK ==
    ASSUME IInv, InitFails
    PROVE  IInv'
<1>1. Types'
    BY Geometry DEF IInv, Types, InitFails, clear_cache, store
<1>2. NextInv' /\ SumInv'
    BY DEF IInv, InitFails, NextInv, SumInv
<1>3. LogInv'
  <2>1. Parses(log') /\ write_address' = 1 /\ pc' = "idle" /\ block' = {}
      BY DEF IInv, LogInv, InitFails, clear_cache, store
  <2>2. Ready' => LogOK(log', write_address')
      BY <2>1, FromStart DEF Ready
  <2>. QED BY <2>1, <2>2 DEF LogInv
<1>. QED BY <1>1, <1>2, <1>3 DEF IInv

(* ... when a write finds nothing to do ...                                *)
LEMMA WriteSameOK ==
    ASSUME IInv, NEW a \in Address, NEW v \in Blocks, WriteSame(a, v)
    PROVE  IInv'
<1>1. Types'
    BY DEF IInv, Types, WriteSame, store
<1>2. NextInv' /\ SumInv'
    BY DEF IInv, WriteSame, NextInv, SumInv
<1>3. LogInv'
    BY DEF IInv, LogInv, WriteSame, store, Ready
<1>. QED BY <1>1, <1>2, <1>3 DEF IInv

(* ... and when an erase begins.                                           *)
LEMMA EraseCallOK ==
    ASSUME IInv, EraseCall
    PROVE  IInv'
<1>1. Types'
    BY DEF IInv, Types, EraseCall, store
<1>2. pc' \in {"idle", "wipe"} /\ next' = 1 /\ block' = {}
    BY DEF IInv, NextInv, LogInv, EraseCall
<1>3. NextInv' /\ SumInv'
    BY <1>2, Geometry DEF NextInv, SumInv
<1>4. LogInv'
    BY <1>2, Geometry DEF IInv, LogInv, EraseCall, store, Ready
<1>. QED BY <1>1, <1>3, <1>4 DEF IInv

(* A write appends the words of its entries, the first of them at the end of *)
(* the log.                                                                  *)
LEMMA WriteOK ==
    ASSUME IInv, NEW a \in Address, NEW v \in Blocks, Write(a, v)
    PROVE  IInv'
<1>1. v \in Seq(Byte) /\ Len(v) \in Nat /\ Len(v) >= 1 /\ a \in Nat /\ a + Len(v) <= LOGICAL_SIZE
    BY BlockIs DEF Write, Address
<1>2. /\ pc = "idle" /\ cache' = Overwrite(cache, a, v)
      /\ UNCHANGED <<store, write_address, next>>
      /\ next = 1 /\ block = {} /\ locks \in BOOLEAN /\ unlocked \in BOOLEAN
    BY DEF Write, IInv, Types, NextInv, LogInv
<1>3. cache' \in Cache
    BY <1>1, <1>2, OverwriteType DEF IInv, Types
<1>4. CASE unlocked' = TRUE /\ locks' = ~unlocked /\ pc' = "append" /\ todo' = LogWords(a, v)
           /\ block' = a..(a + Len(v) - 1) /\ result' = "none"
  <2>1. LogWords(a, v) \in Seq(WordT) /\ Len(LogWords(a, v)) >= 1
      BY <1>1, WriteReplays DEF Replays
  <2>2. todo' # <<>>
      BY <1>4, <2>1
  <2>3. block' \in SUBSET Address /\ block' # {}
    <3>1. a \in block'
        BY <1>1, <1>4
    <3>2. LOGICAL_SIZE \in Nat
        BY WearAssumption
    <3>3. a..(a + Len(v) - 1) \subseteq 0..(LOGICAL_SIZE - 1)
        BY <1>1, <3>2
    <3>. QED BY <1>4, <3>1, <3>3 DEF Address
  <2>4. Types'
      BY <1>2, <1>3, <1>4, <2>1, <2>2, <2>3 DEF IInv, Types, store
  <2>5. NextInv' /\ SumInv'
      BY <1>2, <1>4 DEF NextInv, SumInv
  <2>6. Ready' => Erased(log', write_address') /\ Appends'
    <3>1. SUFFICES ASSUME Ready PROVE Erased(log, write_address) /\ Appends'
        BY <1>2 DEF Ready, store
    <3>2. LogOK(log, write_address) /\ write_address \in Slot
        BY <1>2, <3>1 DEF IInv, LogInv, Ready
    <3>3. ASSUME NEW X \in LogT, NEW k \in 0..Len(LogWords(a, v)),
                 \A j \in Slot : j < write_address => X[j] = log[j],
                 Placed(X, write_address, LogWords(a, v), k), Erased(X, write_address + k)
          PROVE  /\ Parses(X)
                 /\ k = Len(LogWords(a, v)) \/ OneWordEntries => LogOK(X, write_address + k)
        BY <1>1, <3>2, <3>3, WriteAppends DEF IInv, Types
    <3>. QED BY <1>2, <1>4, <3>2, <3>3 DEF Appends, Extends, LogOK, store
  <2>7. LogInv'
      BY <1>2, <1>4, <2>6 DEF IInv, LogInv, store
  <2>. QED BY <2>4, <2>5, <2>7 DEF IInv
<1>5. CASE result' = "FAILED" /\ UNCHANGED <<unlocked, locks, pc, todo, block>>
  <2>1. Types'
      BY <1>2, <1>3, <1>5 DEF IInv, Types, store
  <2>2. NextInv' /\ SumInv'
      BY <1>2, <1>5 DEF IInv, NextInv, SumInv
  <2>3. LogInv'
      BY <1>2, <1>5 DEF IInv, LogInv, Ready, store
  <2>. QED BY <2>1, <2>2, <2>3 DEF IInv
<1>. QED BY <1>4, <1>5 DEF Write

-----------------------------------------------------------------------------
(* Steps that append.                                                      *)

Continues(X, k) ==
    /\ \A j \in Slot : j < write_address + 1 => X[j] = log'[j]
    /\ Placed(X, write_address + 1, Tail(todo), k) /\ k <= Len(todo) - 1
    /\ Erased(X, write_address + 1 + k)

(* The next word of a write: the log is what it was extended by one word.    *)
LEMMA OneMoreWord ==
    ASSUME IInv, AppendWord
    PROVE  /\ log' \in LogT /\ Parses(log') /\ Len(todo) \in Nat \ {0} /\ block # {}
           /\ Ready => Extends(log', 1)
<1>1. /\ pc = "append" /\ todo \in Seq(WordT) /\ todo # <<>> /\ block # {}
      /\ log \in LogT /\ write_address \in 1..(LOG_SLOTS + 1)
      /\ log' = [i \in Slot |-> IF i = write_address THEN Head(todo) ELSE log[i]]
    BY DEF AppendWord, IInv, Types
<1>2. Len(todo) \in Nat \ {0} /\ Head(todo) \in WordT /\ Head(todo) = todo[1]
    BY <1>1
<1>3. log' \in LogT
    BY <1>1, <1>2 DEF LogT
<1>4. ASSUME Ready
      PROVE  Extends(log', 1)
  <2>1. write_address \in Slot /\ Erased(log, write_address)
      BY <1>1, <1>4 DEF Ready, IInv, LogInv
  <2>2. Placed(log', write_address, todo, 1)
      BY <1>1, <1>2, <2>1 DEF Placed, Slot
  <2>3. Erased(log', write_address + 1)
      BY <1>1, <2>1 DEF Erased, Slot
  <2>4. \A j \in Slot : j < write_address => log'[j] = log[j]
      BY <1>1, <2>1 DEF Slot
  <2>. QED BY <2>2, <2>3, <2>4 DEF Extends
<1>5. Parses(log')
  <2>1. CASE Ready
      BY <1>1, <1>2, <1>3, <1>4, <2>1 DEF IInv, LogInv, Appends
  <2>2. CASE ~Ready
    <3>1. write_address \notin Slot
        BY <2>2 DEF Ready, AppendWord
    <3>2. log' = log
        BY <1>1, <3>1 DEF LogT
    <3>. QED BY <3>2 DEF IInv, LogInv
  <2>. QED BY <2>1, <2>2
<1>. QED BY <1>1, <1>2, <1>3, <1>4, <1>5

(* ... and whatever extends it further extends what it was by one word     *)
(* more.                                                                   *)
LEMMA OneMoreExtends ==
    ASSUME IInv, AppendWord, Ready, NEW X, NEW k \in Nat, Continues(X, k)
    PROVE  Extends(X, k + 1)
<1>1. /\ todo \in Seq(WordT) /\ todo # <<>> /\ write_address \in 1..(LOG_SLOTS + 1)
      /\ log \in LogT
      /\ log' = [i \in Slot |-> IF i = write_address THEN Head(todo) ELSE log[i]]
    BY DEF AppendWord, IInv, Types
<1>2. Len(todo) \in Nat \ {0} /\ Head(todo) = todo[1]
  BY <1>1
<1>3. /\ \A j \in Slot : j < write_address + 1 => X[j] = log'[j]
      /\ Placed(X, write_address + 1, Tail(todo), k) /\ k <= Len(todo) - 1
      /\ Erased(X, write_address + 1 + k)
    BY DEF Continues
<1>4. write_address \in Slot
    BY DEF Ready
<1>5. \A j \in Slot : j < write_address => X[j] = log[j]
    BY <1>1, <1>3, <1>4 DEF Slot
<1>6. X[write_address] = todo[1]
    BY <1>1, <1>2, <1>3, <1>4 DEF Slot
<1>7. Placed(X, write_address, todo, k + 1)
  <2>1. SUFFICES ASSUME NEW q \in 1..(k + 1)
                 PROVE  write_address + q - 1 \in Slot /\ X[write_address + q - 1] = todo[q]
      BY DEF Placed
  <2>2. CASE q = 1
      BY <1>4, <1>6, <2>2 DEF Slot
  <2>3. CASE q # 1
    <3>1. q - 1 \in 1..k /\ write_address + 1 + (q - 1) - 1 = write_address + q - 1
        BY <1>1, <2>3
    <3>2. /\ write_address + 1 + (q - 1) - 1 \in Slot
          /\ X[write_address + 1 + (q - 1) - 1] = Tail(todo)[q - 1]
        BY <1>3, <3>1 DEF Placed
    <3>3. Tail(todo)[q - 1] = todo[q]
        BY <1>1, <1>2, <1>3, <3>1
    <3>. QED BY <3>1, <3>2, <3>3
  <2>. QED BY <2>2, <2>3
<1>8. Erased(X, write_address + (k + 1))
  <2>1. write_address + 1 + k = write_address + (k + 1)
      BY <1>1
  <2>. QED BY <1>3, <2>1
<1>. QED BY <1>5, <1>7, <1>8 DEF Extends

(* Appending a word keeps the invariant, also when it is the last or the   *)
(* log is full.                                                            *)
LEMMA AppendWordOK ==
    ASSUME IInv, AppendWord
    PROVE  IInv'
<1>1. /\ log' \in LogT /\ Parses(log') /\ Len(todo) \in Nat \ {0} /\ block # {}
      /\ write_address \in 1..(LOG_SLOTS + 1) /\ LOG_SLOTS \in Nat \ {0}
      /\ pc = "append" /\ next = 1 /\ UNCHANGED <<data, sum>>
    BY OneMoreWord, Geometry DEF AppendWord, IInv, Types, NextInv
<1>2. CASE /\ pc' = "erase" /\ write_address' = LOG_SLOTS + 1
           /\ todo' = <<>> /\ UNCHANGED <<cache, unlocked, next, locks, block, result>>
  <2>1. Types'
    <3>1. todo' \in Seq(WordT) /\ (pc' = "append") = (todo' # <<>>)
        BY <1>2
    <3>2. write_address' \in 1..(LOG_SLOTS + 1)
        BY <1>1, <1>2
    <3>. QED BY <1>1, <1>2, <3>1, <3>2 DEF IInv, Types
  <2>2. NextInv' /\ SumInv'
      BY <1>1, <1>2, Geometry DEF NextInv, SumInv
  <2>3. LogInv'
      BY <1>1, <1>2, Geometry DEF LogInv
  <2>. QED BY <2>1, <2>2, <2>3 DEF IInv
<1>3. CASE Len(todo) = 1 /\ write_address < LOG_SLOTS /\ Return("SUCCESS", write_address + 1)
  <2>1. Returned("SUCCESS", write_address + 1) /\ write_address' = write_address + 1
    <3>1. Returned("SUCCESS", write_address + 1)
        BY <1>3, ReturnDoes DEF IInv, Types
    <3>2. write_address' = write_address + 1
        BY <1>1, <1>3 DEF Return, ofInit
    <3>. QED BY <3>1, <3>2
  <2>2. LogOK(log', write_address + 1)
    <3>1. Ready
        BY <1>1, <1>3 DEF AppendWord, Ready, Slot
    <3>2. Extends(log', 1) /\ Appends
        BY <1>1, <3>1, OneMoreWord DEF IInv, LogInv
    <3>3. 1 \in 0..Len(todo)
        BY <1>1
    <3>. QED BY <1>1, <1>3, <3>2, <3>3 DEF Appends
  <2>3. write_address + 1 \in 1..(LOG_SLOTS + 1)
      BY <1>1, <1>3
  <2>. QED BY <1>1, <2>1, <2>2, <2>3, ReturnKeeps DEF IInv, Types
<1>4. CASE /\ Len(todo) # 1 /\ write_address < LOG_SLOTS
           /\ write_address' = write_address + 1 /\ todo' = Tail(todo)
           /\ UNCHANGED <<cache, unlocked, pc, next, locks, block, result>>
  <2>1. todo' \in Seq(WordT) /\ Len(todo') = Len(todo) - 1 /\ todo' # <<>>
    <3>1. todo \in Seq(WordT) /\ todo # <<>>
        BY <1>1 DEF IInv, Types
    <3>2. Len(Tail(todo)) = Len(todo) - 1 /\ Tail(todo) \in Seq(WordT) /\ Len(Tail(todo)) # 0
        BY <1>1, <1>4, <3>1
    <3>3. Tail(todo) = <<>> => Len(Tail(todo)) = Len(<<>>)
        OBVIOUS
    <3>4. Len(<<>>) = 0
        OBVIOUS
    <3>. QED BY <1>4, <3>2, <3>3, <3>4
  <2>2. Types'
    <3>1. write_address' \in 1..(LOG_SLOTS + 1)
        BY <1>1, <1>4
    <3>. QED BY <1>1, <1>4, <2>1, <3>1 DEF IInv, Types
  <2>3. NextInv' /\ SumInv'
      BY <1>1, <1>4 DEF NextInv, SumInv
  <2>4. Ready /\ Appends /\ Extends(log', 1) /\ Erased(log', write_address + 1)
    <3>1. Ready
        BY <1>1, <1>4 DEF AppendWord, Ready, Slot
    <3>. QED BY <1>1, <3>1, OneMoreWord DEF IInv, LogInv, Extends
  <2>5. Appends'
    <3>1. SUFFICES ASSUME NEW X \in LogT, NEW k \in 0..Len(Tail(todo)), Extends(X, k)'
                   PROVE  /\ Parses(X)
                          /\ k = Len(Tail(todo)) \/ OneWordEntries
                                => LogOK(X, write_address + 1 + k)
        BY <1>4 DEF Appends
    <3>2. k \in Nat /\ k + 1 \in 0..Len(todo) /\ (k = Len(Tail(todo)) => k + 1 = Len(todo))
          /\ write_address + 1 + k = write_address + (k + 1) /\ k <= Len(todo) - 1
      <4>. DEFINE m == Len(Tail(todo))
      <4>1. m = Len(todo) - 1 /\ k \in 0..m
          BY <1>4, <2>1, <3>1
      <4>. HIDE DEF m
      <4>2. k \in Nat /\ k + 1 \in 0..Len(todo) /\ (k = m => k + 1 = Len(todo))
            /\ write_address + 1 + k = write_address + (k + 1) /\ k <= Len(todo) - 1
          BY <1>1, <4>1
      <4>. QED BY <4>2 DEF m
    <3>3. Extends(X, k + 1)
      <4>1. Continues(X, k)
          BY <1>4, <3>1, <3>2 DEF Extends, Continues
      <4>. QED BY <2>4, <3>2, <4>1, OneMoreExtends
    <3>. QED BY <2>4, <3>2, <3>3 DEF Appends
  <2>6. LogInv'
      BY <1>1, <1>4, <2>4, <2>5 DEF LogInv
  <2>. QED BY <2>2, <2>3, <2>6 DEF IInv
<1>. QED BY <1>1, <1>2, <1>3, <1>4 DEF AppendWord

(* A failed append ends the write; what it has appended so far is an entry   *)
(* by itself, or the log does not end where the next write is to begin.      *)
LEMMA AppendFailsOK ==
    ASSUME IInv, WholeEntries, AppendFails
    PROVE  IInv'
<1>1. /\ pc = "append" /\ block # {} /\ todo \in Seq(WordT) /\ log' = log
      /\ write_address \in 1..(LOG_SLOTS + 1) /\ Returned("FAILED", write_address)
    BY ReturnDoes DEF AppendFails, IInv, Types, store
<1>2. write_address' = write_address
    BY <1>1 DEF AppendFails, Return, ofInit
<1>3. ASSUME Ready PROVE LogOK(log, write_address)
  <2>1. OneWordEntries
      BY <1>3 DEF AppendFails, Ready, WholeEntries
  <2>2. Erased(log, write_address) /\ Appends /\ log \in LogT
      BY <1>1, <1>3 DEF IInv, LogInv, Types
  <2>3. 0 \in 0..Len(todo) /\ write_address + 0 = write_address
      BY <1>1
  <2>4. Extends(log, 0)
      BY <2>2, <2>3 DEF Extends, Placed
  <2>. QED BY <2>1, <2>2, <2>3, <2>4 DEF Appends
<1>4. Ready' = Ready
    BY <1>1, <1>2 DEF Ready
<1>. QED BY <1>1, <1>2, <1>3, <1>4, ReturnKeeps DEF IInv, Types, LogInv, AppendFails, store

-----------------------------------------------------------------------------
(* Steps that erase and consolidate.                                       *)

(* An erased sector: the log is in one of them.                              *)
LEMMA SectorErased ==
    ASSUME IInv, OneSector, EraseSector
    PROVE  /\ data' \in Cache /\ sum' \in [of : Cache, words : 0..HASH_WORDS]
           /\ log' \in LogT /\ Parses(log') /\ next \in 1..SECTORS
           /\ next >= SectorOf[1] => Erased(log', 1)
           /\ next >= SectorOf[0] => sum' = NoSum
           /\ next = SECTORS => sum' = NoSum /\ Erased(log', 1)
<1>1. /\ data' \in Cache /\ sum' \in [of : Cache, words : 0..HASH_WORDS]
      /\ next \in 1..SECTORS /\ pc \in {"erase", "wipe"}
    BY Geometry DEF EraseSector, IInv, Types, NextInv
<1>2. \A i \in Slot : SectorOf[i] = SectorOf[1]
    BY Geometry DEF OneSector
<1>3. log' = IF next = SectorOf[1] THEN [i \in Slot |-> Zero] ELSE log
  <2>1. log = [i \in Slot |-> log[i]]
      BY DEF IInv, Types, LogT
  <2>2. log' = [i \in Slot |-> IF next = SectorOf[1] THEN Zero ELSE log[i]]
      BY <1>2 DEF EraseSector
  <2>3. CASE next = SectorOf[1]
      BY <2>2, <2>3
  <2>4. CASE next # SectorOf[1]
      BY <2>1, <2>2, <2>4
  <2>. QED BY <2>3, <2>4
<1>4. log' \in LogT
    BY <1>3, Geometry DEF IInv, Types, LogT
<1>5. next >= SectorOf[1] => Erased(log', 1)
  <2>1. CASE next = SectorOf[1]
      BY <1>3, <2>1 DEF Erased
  <2>2. CASE next > SectorOf[1]
      BY <1>1, <1>3, <2>2, Geometry DEF IInv, LogInv
  <2>. QED BY <1>1, <2>1, <2>2, Geometry
<1>6. Parses(log')
  <2>1. CASE next = SectorOf[1]
      BY <1>1, <1>5, <2>1, EmptyLog, Geometry
  <2>2. CASE next # SectorOf[1]
      BY <1>3, <2>2 DEF IInv, LogInv
  <2>. QED BY <2>1, <2>2
<1>7. next >= SectorOf[0] => sum' = NoSum
  <2>1. CASE next = SectorOf[0]
      BY <2>1 DEF EraseSector
  <2>2. CASE next > SectorOf[0]
      BY <1>1, <2>2, Geometry DEF IInv, SumInv, EraseSector
  <2>. QED BY <1>1, <2>1, <2>2, Geometry
<1>8. SECTORS >= SectorOf[0] /\ SECTORS >= SectorOf[1]
    BY Geometry
<1>. QED BY <1>1, <1>4, <1>5, <1>6, <1>7, <1>8

(* Erasing a sector keeps the invariant ...                                *)
LEMMA EraseSectorOK ==
    ASSUME IInv, OneSector, EraseSector
    PROVE  IInv'
<1>1. /\ data' \in Cache /\ sum' \in [of : Cache, words : 0..HASH_WORDS]
      /\ log' \in LogT /\ Parses(log') /\ next \in 1..SECTORS
      /\ next >= SectorOf[1] => Erased(log', 1)
      /\ next >= SectorOf[0] => sum' = NoSum
      /\ next = SECTORS => sum' = NoSum /\ Erased(log', 1)
    BY SectorErased
<1>2. CASE /\ next < SECTORS /\ next' = next + 1
           /\ UNCHANGED <<cache, write_address, unlocked, pc, todo, locks, block, result>>
  <2>1. Types'
      BY <1>1, <1>2 DEF IInv, Types
  <2>2. pc' \in {"erase", "wipe"} /\ next' \in 1..SECTORS
      BY <1>1, <1>2, Geometry DEF EraseSector
  <2>3. NextInv'
      BY <2>2 DEF NextInv
  <2>4. SumInv' /\ LogInv'
    <3>1. (next' > SectorOf[0] => sum' = NoSum) /\ (next' > SectorOf[1] => Erased(log', 1))
        BY <1>1, <1>2, Geometry
    <3>2. pc' = "erase" /\ block' # {} => write_address' = LOG_SLOTS + 1
        BY <1>2 DEF IInv, LogInv
    <3>. QED BY <1>1, <2>2, <3>1, <3>2 DEF SumInv, LogInv
  <2>. QED BY <2>1, <2>3, <2>4 DEF IInv
<1>3. CASE next = SECTORS /\ pc = "wipe" /\ Return("SUCCESS", 1)
  <2>1. Returned("SUCCESS", 1)
      BY <1>3, ReturnDoes DEF IInv, Types
  <2>2. write_address' = 1 /\ 1 \in 1..(LOG_SLOTS + 1)
      BY <2>1, Geometry DEF Returned, Cleared
  <2>. QED BY <1>1, <2>1, <2>2, ReturnKeeps DEF IInv
<1>4. CASE /\ next = SECTORS /\ pc = "erase" /\ pc' = "data" /\ next' = 1
           /\ \/ unlocked' = TRUE /\ locks' = (locks \/ ~unlocked)
              \/ UNCHANGED <<unlocked, locks>>
           /\ UNCHANGED <<cache, write_address, todo, block, result>>
  <2>1. unlocked' \in BOOLEAN /\ locks' \in BOOLEAN
      BY <1>4 DEF IInv, Types
  <2>2. Types'
      BY <1>1, <1>4, <2>1 DEF IInv, Types
  <2>3. NextInv'
      BY <1>4, Geometry DEF NextInv
  <2>4. LogInv'
      BY <1>1, <1>4 DEF LogInv
  <2>5. SumInv'
    <3>1. ASSUME NEW x \in Address PROVE ~(x \div WRITE_SIZE < 1 - 1)
        BY <3>1, Geometry
    <3>. QED BY <1>1, <1>4, <3>1 DEF SumInv
  <2>. QED BY <2>2, <2>3, <2>4, <2>5 DEF IInv
<1>. QED BY <1>2, <1>3, <1>4 DEF EraseSector

(* ... and so does a failure to erase.                                     *)
LEMMA EraseFailsOK ==
    ASSUME IInv, EraseFails
    PROVE  IInv'
<1>1. Returned("FAILED", write_address) /\ log' = log
    BY ReturnDoes DEF EraseFails, IInv, Types, store
<1>2. write_address' = 1 \/ write_address' = LOG_SLOTS + 1
  <2>1. CASE pc = "wipe" \/ block = {}
      BY <2>1 DEF EraseFails, Return, ofInit, clear_cache
  <2>2. CASE pc = "erase" /\ block # {}
    <3>1. write_address' = write_address
        BY <2>2 DEF EraseFails, Return, ofInit
    <3>. QED BY <2>2, <3>1 DEF IInv, LogInv
  <2>. QED BY <2>1, <2>2 DEF EraseFails
<1>3. write_address' = 1 \/ (Ready' => LogOK(log', write_address'))
  <2>1. LOG_SLOTS + 1 \notin Slot
      BY Geometry DEF Slot
  <2>. QED BY <1>2, <2>1 DEF Ready
<1>. QED BY <1>1, <1>3, ReturnKeeps DEF IInv, Types, LogInv, EraseFails, store

(* The last word makes the consolidated data the cache.                      *)
LEMMA DataWritten ==
    ASSUME IInv, WriteData
    PROVE  /\ data' \in Cache
           /\ \A x \in Address : x \div WRITE_SIZE < next => data'[x] = cache[x]
           /\ next >= DATA_WORDS => data' = cache
<1>1. /\ data \in Cache /\ cache \in Cache /\ next \in Nat \ {0}
      /\ \A x \in Address : x \div WRITE_SIZE < next - 1 => data[x] = cache[x]
      /\ data' = [x \in Address |-> IF x \div WRITE_SIZE = next - 1 THEN cache[x] ELSE data[x]]
    BY DEF WriteData, IInv, Types, NextInv, SumInv
<1>2. data' \in Cache
    BY <1>1 DEF Cache
<1>3. ASSUME NEW x \in Address, x \div WRITE_SIZE < next
      PROVE  data'[x] = cache[x]
  <2>1. x \div WRITE_SIZE \in Nat
      BY Geometry
  <2>. DEFINE q == x \div WRITE_SIZE
  <2>2. q \in Nat /\ q < next /\ (q < next - 1 => data[x] = cache[x])
        /\ data'[x] = IF q = next - 1 THEN cache[x] ELSE data[x]
      BY <1>1, <1>3, <2>1
  <2>. HIDE DEF q
  <2>. QED BY <1>1, <2>2
<1>4. ASSUME next >= DATA_WORDS PROVE data' = cache
  <2>1. ASSUME NEW x \in Address PROVE data'[x] = cache[x]
    <3>1. x \div WRITE_SIZE \in 0..(DATA_WORDS - 1) /\ DATA_WORDS \in Nat
        BY Geometry
    <3>. DEFINE q == x \div WRITE_SIZE
    <3>2. q \in 0..(DATA_WORDS - 1) /\ (q < next => data'[x] = cache[x])
        BY <1>3, <3>1
    <3>. HIDE DEF q
    <3>. QED BY <1>1, <1>4, <3>1, <3>2
  <2>. QED BY <1>1, <1>2, <2>1 DEF Cache
<1>. QED BY <1>2, <1>3, <1>4

(* Writing the data keeps the invariant ...                                *)
LEMMA WriteDataOK ==
    ASSUME IInv, WriteData
    PROVE  IInv'
<1>1. /\ data' \in Cache
      /\ \A x \in Address : x \div WRITE_SIZE < next => data'[x] = cache[x]
      /\ next >= DATA_WORDS => data' = cache
    BY DataWritten
<1>2. /\ pc = "data" /\ next \in 1..DATA_WORDS /\ sum = NoSum /\ Erased(log, 1)
      /\ UNCHANGED <<sum, log, cache, write_address, unlocked, todo, locks, block, result>>
    BY Geometry DEF WriteData, IInv, NextInv, SumInv, LogInv
<1>3. CASE next < DATA_WORDS /\ next' = next + 1 /\ pc' = "data"
  <2>1. Types'
      BY <1>1, <1>2, <1>3 DEF IInv, Types
  <2>2. NextInv'
      BY <1>2, <1>3, Geometry DEF NextInv
  <2>3. LogInv'
      BY <1>2, <1>3 DEF IInv, LogInv
  <2>4. SumInv'
    <3>1. next' - 1 = next
        BY <1>2, <1>3, Geometry
    <3>. QED BY <1>1, <1>2, <1>3, <3>1 DEF SumInv
  <2>. QED BY <2>1, <2>2, <2>3, <2>4 DEF IInv
<1>4. CASE next >= DATA_WORDS /\ next' = 1 /\ pc' = "sum"
  <2>1. Types'
      BY <1>1, <1>2, <1>4 DEF IInv, Types
  <2>2. NextInv'
      BY <1>2, <1>4, Geometry DEF NextInv
  <2>3. LogInv'
      BY <1>2, <1>4 DEF IInv, LogInv
  <2>4. SumInv'
      BY <1>1, <1>2, <1>4 DEF SumInv
  <2>. QED BY <2>1, <2>2, <2>3, <2>4 DEF IInv
<1>. QED BY <1>2, <1>3, <1>4, Geometry DEF WriteData

(* ... so does writing the checksum ...                                    *)
LEMMA WriteSumOK ==
    ASSUME IInv, WriteSum
    PROVE  IInv'
<1>1. /\ pc = "sum" /\ next \in 1..HASH_WORDS /\ data \in Cache /\ cache \in Cache /\ data = cache
      /\ sum' = [of |-> cache, words |-> next] /\ UNCHANGED <<data, log>>
      /\ log \in LogT /\ Parses(log) /\ Erased(log, 1)
    BY Geometry DEF WriteSum, IInv, Types, NextInv, SumInv, LogInv
<1>2. sum' \in [of : Cache, words : 0..HASH_WORDS]
    BY <1>1, Geometry
<1>3. CASE next < HASH_WORDS /\ next' = next + 1
           /\ UNCHANGED <<cache, write_address, unlocked, pc, todo, locks, block, result>>
  <2>1. Types'
      BY <1>1, <1>2, <1>3 DEF IInv, Types
  <2>2. NextInv'
      BY <1>1, <1>3, Geometry DEF NextInv
  <2>3. LogInv'
      BY <1>1, <1>3 DEF IInv, LogInv
  <2>4. SumInv'
      BY <1>1, <1>3, Geometry DEF SumInv
  <2>. QED BY <2>1, <2>2, <2>3, <2>4 DEF IInv
<1>4. CASE Return("CONSOLIDATED", 1)
  <2>1. Returned("CONSOLIDATED", 1)
      BY <1>4, ReturnDoes DEF IInv, Types
  <2>2. write_address' = 1 /\ 1 \in 1..(LOG_SLOTS + 1)
      BY <2>1, Geometry DEF Returned, Cleared
  <2>. QED BY <1>1, <1>2, <2>1, <2>2, ReturnKeeps DEF IInv
<1>. QED BY <1>3, <1>4 DEF WriteSum

(* ... and giving up in the middle of either.                              *)
LEMMA ConsolidationFailsOK ==
    ASSUME IInv, ConsolidationFails
    PROVE  IInv'
<1>1. Returned("FAILED", 1)
    BY ReturnDoes DEF ConsolidationFails, IInv, Types
<1>2. write_address' = 1 /\ 1 \in 1..(LOG_SLOTS + 1)
    BY <1>1, Geometry DEF Returned, Cleared
<1>. QED BY <1>1, <1>2, ReturnKeeps DEF IInv, Types, LogInv, ConsolidationFails, store

(* Every step keeps the invariant.                                         *)
LEMMA WearStep ==
    ASSUME OneSector, WholeEntries, IInv, [Next]_vars
    PROVE  IInv'
<1>1. CASE UNCHANGED vars
    BY <1>1, Quiet
<1>2. ASSUME NEW a \in Address, NEW v \in Blocks, WriteSame(a, v) \/ Write(a, v)
      PROVE  IInv'
    BY <1>2, WriteSameOK, WriteOK
<1>3. CASE PowerLoss \/ wear_leveling_init \/ InitFails
    BY <1>3, PowerLossOK, InitStepOK, InitFailsOK
<1>4. CASE EraseCall \/ AppendWord \/ AppendFails
    BY <1>4, EraseCallOK, AppendWordOK, AppendFailsOK
<1>5. CASE EraseSector \/ EraseFails
    BY <1>5, EraseSectorOK, EraseFailsOK
<1>6. CASE WriteData \/ WriteSum \/ ConsolidationFails
    BY <1>6, WriteDataOK, WriteSumOK, ConsolidationFailsOK
<1>. QED BY <1>1, <1>2, <1>3, <1>4, <1>5, <1>6 DEF Next

-----------------------------------------------------------------------------
(* When nothing but locking fails, what a restart finds is what reads      *)
(* return.                                                                 *)

(* Once the rest of the write is appended, a restart finds the cache.      *)
Completes ==
    \A X \in LogT : Extends(X, Len(todo)) =>
       Playback(X, Zero)[1][read_consolidated]
          = [ok |-> TRUE, cache |-> cache, next |-> write_address + Len(todo)]

(* What holds besides the invariant when nothing fails: the log has room   *)
(* for the next word, and what a restart finds is the cache.               *)
StoredInv ==
    /\ pc \in {"idle", "append"} => Ready
    /\ pc = "idle" => Recovered = cache
    /\ pc = "append" => Completes
    /\ pc \in {"data", "sum"} => unlocked

(* An erased log is played back to the consolidated copy.                  *)
LEMMA ErasedIsRead ==
    ASSUME NEW lg \in LogT, Erased(lg, 1), NEW c \in Cache
    PROVE  lg[1] = Zero /\ Playback(lg, Zero)[1][c] = [ok |-> TRUE, cache |-> c, next |-> 1]
<1>1. lg[1] = Zero
    BY Geometry DEF Erased
<1>. QED BY <1>1, PlaybackEnds, OutsideType

(* After a restart the cache is what was found.                            *)
LEMMA StoredInit ==
    ASSUME NoFailures, IInv, StoredInv, wear_leveling_init
    PROVE  StoredInv'
<1>1. PICK n \in Nat : LogOK(log, n)
    BY DEF IInv, LogInv, Parses
<1>2. PICK o \in Outside :
         /\ cache' = playback_log(o).cache /\ write_address' = NewWriteAddress(playback_log(o))
         /\ IF playback_log(o).ok /\ playback_log(o).next <= LOG_SLOTS
            THEN pc' = "idle" /\ result' = "SUCCESS"
            ELSE pc' = "erase" /\ UNCHANGED result
    BY DEF wear_leveling_init, Outside
<1>. DEFINE p == playback_log(o)
<1>3. /\ p \in [ok : BOOLEAN, cache : Cache, next : Nat \ {0}] /\ (p.ok => p.next = n)
      /\ n <= LOG_SLOTS => playback_log(Zero) = p
  <2>1. /\ Read(Playback(log, o)[1][read_consolidated], n)
        /\ n <= LOG_SLOTS => Playback(log, o)[1][read_consolidated]
                                = Playback(log, Zero)[1][read_consolidated]
      BY <1>1, PlaybackFinds, SumRead DEF IInv, Types
  <2>. QED BY <2>1 DEF Read, playback_log
<1>4. UNCHANGED store /\ pc' \in {"idle", "erase"}
    BY <1>2 DEF wear_leveling_init
<1>5. ASSUME pc' = "idle"
      PROVE  Recovered' = cache' /\ Ready'
  <2>1. p.ok /\ p.next <= LOG_SLOTS /\ p.next = n /\ cache' = p.cache
      BY <1>2, <1>3, <1>5
  <2>2. write_address' = n
    <3>1. ~(p.next > LOG_SLOTS)
        BY <1>3, <2>1, Geometry
    <3>. HIDE DEF p
    <3>2. NewWriteAddress(p) = n
        BY <2>1, <3>1 DEF NewWriteAddress
    <3>. QED BY <1>2, <3>2 DEF p
  <2>3. n \in Slot
    <3>. HIDE DEF p
    <3>. QED BY <1>3, <2>1, Geometry DEF Slot
  <2>4. log[n] = Zero
      BY <1>1, <2>3 DEF LogOK, Erased, Slot
  <2>5. Recovered' = playback_log(Zero).cache
      BY <1>4 DEF Recovered, playback_log, read_consolidated, store
  <2>6. Recovered' = cache'
      BY <1>3, <2>1, <2>5
  <2>. QED BY <1>4, <2>2, <2>3, <2>4, <2>6 DEF Ready, store
<1>. QED BY <1>4, <1>5 DEF StoredInv

(* What a restart finds depends on the store only.                         *)
LEMMA SameStoreRead ==
    ASSUME UNCHANGED store
    PROVE  Recovered' = Recovered /\ read_consolidated' = read_consolidated
BY DEF Recovered, playback_log, read_consolidated, store

(* When a write begins, its words complete what a restart finds.           *)
LEMMA StoredWrite ==
    ASSUME NoFailures, IInv, StoredInv, NEW a \in Address, NEW v \in Blocks, Write(a, v)
    PROVE  StoredInv'
<1>1. v \in Seq(Byte) /\ Len(v) \in Nat /\ Len(v) >= 1 /\ a \in Nat /\ a + Len(v) <= LOGICAL_SIZE
    BY BlockIs DEF Write, Address
<1>2. "unlock" \notin Faults
    BY DEF NoFailures
<1>3. /\ pc = "idle" /\ cache' = Overwrite(cache, a, v) /\ UNCHANGED <<store, write_address>>
      /\ pc' = "append" /\ todo' = LogWords(a, v)
    BY <1>2 DEF Write
<1>4. Ready /\ Ready' /\ Recovered = cache
    BY <1>3 DEF StoredInv, Ready, store
<1>5. LogOK(log, write_address) /\ write_address \in Slot /\ log \in LogT
    BY <1>3, <1>4 DEF IInv, LogInv, Types, Ready
<1>6. read_consolidated' = read_consolidated /\ read_consolidated \in Cache
    BY <1>3, SameStoreRead, SumRead DEF IInv, Types
<1>7. Playback(log, Zero)[1][read_consolidated].cache = cache
    BY <1>4 DEF Recovered, playback_log
<1>8. Len(LogWords(a, v)) \in 0..Len(LogWords(a, v))
  <2>1. LogWords(a, v) \in Seq(WordT)
      BY <1>1, WriteReplays DEF Replays
  <2>2. Len(LogWords(a, v)) \in Nat
      BY <2>1
  <2>. QED BY <2>2
<1>9. ASSUME NEW X \in LogT,
             \A j \in Slot : j < write_address => X[j] = log[j],
             Placed(X, write_address, LogWords(a, v), Len(LogWords(a, v))),
             Erased(X, write_address + Len(LogWords(a, v)))
      PROVE  Playback(X, Zero)[1][read_consolidated]
                = [ok |-> TRUE, cache |-> cache', next |-> write_address + Len(LogWords(a, v))]
  <2>1. \A c \in Cache : Playback(X, Zero)[1][c] =
           [ok |-> TRUE, cache |-> Overwrite(Playback(log, Zero)[1][c].cache, a, v),
            next |-> write_address + Len(LogWords(a, v))]
    <3>. DEFINE k == Len(LogWords(a, v))
    <3>1. k \in 0..Len(LogWords(a, v)) /\ k = Len(LogWords(a, v))
        BY <1>8
    <3>2. Placed(X, write_address, LogWords(a, v), k) /\ Erased(X, write_address + k)
        BY <1>9
    <3>3. \A j \in Slot : j < write_address => X[j] = log[j]
        BY <1>9
    <3>. HIDE DEF k
    <3>4. \A c \in Cache : Playback(X, Zero)[1][c] =
             [ok |-> TRUE, cache |-> Overwrite(Playback(log, Zero)[1][c].cache, a, v),
              next |-> write_address + k]
        BY <1>1, <1>5, <3>1, <3>2, <3>3, WriteAppends
    <3>. QED BY <3>4 DEF k
  <2>. QED BY <1>3, <1>6, <1>7, <2>1
<1>10. Completes'
    BY <1>3, <1>6, <1>9 DEF Completes, Extends, store
<1>. QED BY <1>3, <1>4, <1>10 DEF StoredInv

(* Every word that is appended brings that nearer.                         *)
LEMMA StoredAppend ==
    ASSUME NoFailures, IInv, StoredInv, AppendWord
    PROVE  StoredInv'
<1>1. /\ log' \in LogT /\ Len(todo) \in Nat \ {0} /\ block # {} /\ Extends(log', 1)
      /\ write_address \in Slot /\ LOG_SLOTS \in Nat \ {0} /\ todo \in Seq(WordT)
      /\ pc = "append" /\ UNCHANGED <<data, sum>> /\ Completes /\ Ready
  <2>1. pc = "append" /\ UNCHANGED <<data, sum>> /\ Completes /\ Ready
      BY DEF AppendWord, StoredInv
  <2>. QED BY <2>1, OneMoreWord, Geometry DEF Ready, IInv, Types
<1>2. /\ read_consolidated' = read_consolidated
      /\ Recovered' = Playback(log', Zero)[1][read_consolidated].cache
    BY <1>1 DEF read_consolidated, Recovered, playback_log
<1>3. write_address < LOG_SLOTS => write_address + 1 \in Slot /\ log'[write_address + 1] = Zero
  <2>1. Erased(log', write_address + 1)
      BY <1>1 DEF Extends
  <2>. QED BY <1>1, <2>1 DEF Erased, Slot
<1>4. CASE pc' = "erase"
    BY <1>4 DEF StoredInv
<1>5. CASE Len(todo) = 1 /\ write_address < LOG_SLOTS /\ Return("SUCCESS", write_address + 1)
  <2>1. pc' = "idle" /\ write_address' = write_address + 1 /\ cache' = cache
      BY <1>1, <1>5 DEF Return, ofInit
  <2>2. Playback(log', Zero)[1][read_consolidated]
           = [ok |-> TRUE, cache |-> cache, next |-> write_address + 1]
      BY <1>1, <1>5 DEF Completes
  <2>. QED BY <1>2, <1>3, <1>5, <2>1, <2>2 DEF StoredInv, Ready
<1>6. CASE /\ Len(todo) # 1 /\ write_address < LOG_SLOTS
           /\ write_address' = write_address + 1 /\ todo' = Tail(todo)
           /\ UNCHANGED <<cache, unlocked, pc, next, locks, block, result>>
  <2>1. Len(Tail(todo)) = Len(todo) - 1
      BY <1>1
  <2>3. ASSUME NEW X \in LogT, NEW k \in Nat, k = Len(Tail(todo)), Extends(X, k)'
        PROVE  Playback(X, Zero)[1][read_consolidated]
                 = [ok |-> TRUE, cache |-> cache, next |-> write_address + 1 + k]
    <3>1. k + 1 = Len(todo) /\ k <= Len(todo) - 1 /\ write_address \in Int
          /\ write_address + 1 + k = write_address + Len(todo)
        BY <1>1, <2>1, <2>3 DEF Slot
    <3>2. Continues(X, k)
        BY <1>6, <2>3, <3>1 DEF Extends, Continues
    <3>3. Extends(X, k + 1)
        BY <1>1, <2>3, <3>2, OneMoreExtends
    <3>. QED BY <1>1, <3>1, <3>3 DEF Completes
  <2>4. Completes'
    <3>1. Len(Tail(todo)) \in Nat
        BY <1>1, <2>1
    <3>. QED BY <1>2, <1>6, <2>3, <3>1 DEF Completes
  <2>. QED BY <1>1, <1>3, <1>6, <2>4 DEF StoredInv, Ready
<1>. QED BY <1>1, <1>4, <1>5, <1>6 DEF AppendWord, Slot

(* An erase ends with zeros in both places.                                *)
LEMMA StoredErase ==
    ASSUME NoFailures, OneSector, IInv, StoredInv, EraseSector
    PROVE  StoredInv'
<1>1. /\ log' \in LogT /\ (next = SECTORS => sum' = NoSum /\ Erased(log', 1))
    BY SectorErased
<1>2. CASE pc' \in {"erase", "wipe"}
    BY <1>2 DEF StoredInv
<1>3. CASE next = SECTORS /\ pc = "wipe" /\ Return("SUCCESS", 1)
  <2>1. cache' = ZeroCache /\ write_address' = 1 /\ pc' = "idle"
      BY <1>3 DEF Return, clear_cache
  <2>2. read_consolidated' = ZeroCache
    <3>1. 0 # HASH_WORDS
        BY Geometry
    <3>. QED BY <1>1, <1>3, <3>1 DEF read_consolidated, NoSum
  <2>3. Recovered' = ZeroCache /\ Ready'
    <3>0. ZeroCache \in Cache /\ log' \in LogT /\ Erased(log', 1)
        BY <1>1, <1>3, Geometry
    <3>1. /\ log'[1] = Zero
          /\ Playback(log', Zero)[1][ZeroCache] = [ok |-> TRUE, cache |-> ZeroCache, next |-> 1]
        BY <3>0, ErasedIsRead
    <3>. QED BY <2>1, <2>2, <3>1, Geometry DEF Recovered, playback_log, Ready
  <2>. QED BY <2>1, <2>2, <2>3 DEF StoredInv
<1>4. CASE pc' = "data" /\ (unlocked' = TRUE \/ (~unlocked /\ "unlock" \in Faults))
    BY <1>4 DEF StoredInv, NoFailures
<1>. QED BY <1>2, <1>3, <1>4 DEF EraseSector

(* The last word of the checksum makes the consolidated copy count.        *)
LEMMA StoredSum ==
    ASSUME NoFailures, IInv, StoredInv, WriteSum
    PROVE  StoredInv'
<1>1. /\ pc = "sum" /\ next \in 1..HASH_WORDS /\ data \in Cache /\ data = cache
      /\ sum' = [of |-> cache, words |-> next] /\ UNCHANGED <<data, log>>
      /\ Erased(log, 1) /\ unlocked /\ log \in LogT
    BY Geometry DEF WriteSum, IInv, Types, NextInv, SumInv, LogInv
<1>2. CASE UNCHANGED <<cache, write_address, unlocked, pc, todo, locks, block, result>>
    BY <1>1, <1>2 DEF StoredInv
<1>3. CASE next = HASH_WORDS /\ Return("CONSOLIDATED", 1)
  <2>1. cache' = cache /\ write_address' = 1 /\ pc' = "idle"
      BY <1>1, <1>3 DEF Return, ofInit
  <2>2. read_consolidated' = cache
      BY <1>1, <1>3 DEF read_consolidated
  <2>3. Recovered' = cache /\ Ready'
    <3>0. cache \in Cache /\ log' \in LogT /\ Erased(log', 1)
        BY <1>1
    <3>1. /\ log'[1] = Zero
          /\ Playback(log', Zero)[1][cache] = [ok |-> TRUE, cache |-> cache, next |-> 1]
        BY <3>0, ErasedIsRead
    <3>. QED BY <2>1, <2>2, <3>1, Geometry DEF Recovered, playback_log, Ready
  <2>. QED BY <2>1, <2>2, <2>3 DEF StoredInv
<1>4. next < HASH_WORDS \/ next = HASH_WORDS
    BY <1>1, Geometry
<1>. QED BY <1>2, <1>3, <1>4 DEF WriteSum

(* Every step keeps that.                                                  *)
LEMMA StoredStep ==
    ASSUME NoFailures, OneSector, IInv, StoredInv, [Next]_vars
    PROVE  StoredInv'
<1>1. CASE UNCHANGED vars
  <2>1. UNCHANGED store
      BY <1>1 DEF vars
  <2>2. Recovered' = Recovered /\ read_consolidated' = read_consolidated
      BY <2>1, SameStoreRead
  <2>. QED BY <1>1, <2>2 DEF StoredInv, Ready, Completes, Extends, vars, store
<1>2. ASSUME NEW a \in Address, NEW v \in Blocks, WriteSame(a, v)
      PROVE  StoredInv'
    BY <1>2, SameStoreRead DEF WriteSame, StoredInv, Ready, store
<1>3. ASSUME NEW a \in Address, NEW v \in Blocks, Write(a, v)
      PROVE  StoredInv'
    BY <1>3, StoredWrite
<1>4. CASE PowerLoss
    BY <1>4 DEF PowerLoss, StoredInv
<1>5. CASE wear_leveling_init
    BY <1>5, StoredInit
<1>6. CASE InitFails \/ AppendFails \/ EraseFails \/ ConsolidationFails
  <2>1. Faults \cap {"init", "erase", "write"} = {}
      BY DEF NoFailures
  <2>2. CASE InitFails BY <2>1, <2>2 DEF InitFails
  <2>3. CASE EraseFails BY <2>1, <2>3 DEF EraseFails
  <2>4. CASE AppendFails BY <2>1, <2>4 DEF AppendFails, StoredInv, Ready
  <2>5. CASE ConsolidationFails BY <2>1, <2>5 DEF ConsolidationFails, StoredInv
  <2>. QED BY <1>6, <2>2, <2>3, <2>4, <2>5
<1>7. CASE EraseCall
  <2>1. pc' = "wipe"
      BY <1>7 DEF EraseCall, NoFailures
  <2>. QED BY <2>1 DEF StoredInv
<1>8. CASE AppendWord
    BY <1>8, StoredAppend
<1>9. CASE EraseSector
    BY <1>9, StoredErase
<1>10. CASE WriteData
    BY <1>10 DEF WriteData, StoredInv
<1>11. CASE WriteSum
    BY <1>11, StoredSum
<1>. QED BY <1>1, <1>2, <1>3, <1>4, <1>5, <1>6, <1>7, <1>8, <1>9, <1>10, <1>11 DEF Next

-----------------------------------------------------------------------------
(* The theorems about the log.                                             *)

(* The invariant holds always.                                             *)
LEMMA WearInv ==
    ASSUME OneSector, WholeEntries
    PROVE  Spec => []IInv
<1>1. Init => IInv
    BY InitOK
<1>2. IInv /\ [Next]_vars => IInv'
    BY WearStep
<1>. QED BY <1>1, <1>2, PTL DEF Spec

(* So does the second one when nothing but locking fails.                  *)
LEMMA WearStored ==
    ASSUME OneSector, NoFailures
    PROVE  Spec => [](IInv /\ StoredInv)
<1>1. Init => StoredInv
    BY DEF Init, StoredInv
<1>2. IInv /\ StoredInv /\ [Next]_vars => StoredInv'
    BY StoredStep
<1>3. WholeEntries
    BY DEF NoFailures, WholeEntries
<1>4. Spec => []IInv
    BY <1>3, WearInv
<1>. QED BY <1>1, <1>2, <1>4, PTL DEF Spec

(* Every variable of wear leveling has its type, the log included.         *)
THEOREM TypeCorrectness ==
    ASSUME OneSector, WholeEntries
    PROVE  Spec => []TypeOK
<1>1. IInv => TypeOK
  <2>1. SUFFICES ASSUME IInv PROVE TypeOK
      OBVIOUS
  <2>2. DOMAIN log = Slot
      BY <2>1 DEF IInv, Types, LogT
  <2>3. ASSUME NEW i \in Slot PROVE Len(log[i]) = WRITE_SIZE
    <3>1. log[i] \in [1..WRITE_SIZE -> Nat] /\ WRITE_SIZE \in Nat
        BY <2>1, WearAssumption DEF IInv, Types, LogT, WordT
    <3>. QED BY <3>1, FunctionIsSeq
  <2>4. next \in Nat
      BY <2>1 DEF IInv, NextInv
  <2>. QED BY <2>1, <2>2, <2>3, <2>4 DEF TypeOK, IInv, Types
<1>. QED BY <1>1, WearInv, PTL

(* Wherever power was lost, and whatever failed, the log is one that       *)
(* playback can read to its end (playback_log(), wear_leveling.c:475).     *)
THEOREM EntriesParse ==
    ASSUME OneSector, WholeEntries
    PROVE  Spec => []LogParses
<1>1. IInv => LogParses
  <2>1. SUFFICES ASSUME IInv PROVE LogParses
      OBVIOUS
  <2>2. PICK n \in Nat : LogOK(log, n)
      BY <2>1 DEF IInv, LogInv, Parses
  <2>3. \E d \in Cache : playback_log(Zero) = [ok |-> TRUE, cache |-> d, next |-> n]
    <3>1. log \in LogT /\ read_consolidated \in Cache /\ Zero \in Outside
        BY <2>1, SumRead, OutsideType DEF IInv, Types
    <3>2. \E d \in Cache : Playback(log, Zero)[1][read_consolidated]
                               = [ok |-> TRUE, cache |-> d, next |-> n]
        BY <2>2, <3>1, PlaybackFinds
    <3>. QED BY <3>2 DEF playback_log
  <2>. QED BY <2>3 DEF LogParses
<1>. QED BY <1>1, WearInv, PTL

(* While the erased store is filled again, a restart finds all of the new  *)
(* data or none of it: the checksum is not there before the data are       *)
(* (wear_leveling_write_consolidated(), wear_leveling.c:256).              *)
THEOREM AllOrNothingFound ==
    ASSUME OneSector, WholeEntries
    PROVE  Spec => []AllOrNothing
<1>1. IInv => AllOrNothing
  <2>1. SUFFICES ASSUME IInv, pc \in {"data", "sum"} PROVE Recovered = ZeroCache
      BY DEF AllOrNothing
  <2>2. sum.words # HASH_WORDS
    <3>1. NoSum.words # HASH_WORDS
        BY Geometry DEF NoSum
    <3>2. sum = NoSum \/ (pc = "sum" /\ sum.words < next)
        BY <2>1 DEF IInv, SumInv
    <3>3. ASSUME pc = "sum", sum.words < next PROVE sum.words # HASH_WORDS
      <4>1. next \in Nat /\ next <= HASH_WORDS /\ sum.words \in Nat
          BY <2>1, <3>3, Geometry DEF IInv, NextInv, Types
      <4>. QED BY <3>3, <4>1, Geometry
    <3>. QED BY <3>1, <3>2, <3>3
  <2>3. read_consolidated = ZeroCache
      BY <2>2 DEF read_consolidated
  <2>4. log \in LogT /\ Erased(log, 1) /\ ZeroCache \in Cache
      BY <2>1, Geometry DEF IInv, LogInv, Types
  <2>5. Playback(log, Zero)[1][ZeroCache] = [ok |-> TRUE, cache |-> ZeroCache, next |-> 1]
      BY <2>4, ErasedIsRead
  <2>. QED BY <2>3, <2>5 DEF Recovered, playback_log
<1>. QED BY <1>1, WearInv, PTL

(* When nothing but locking fails, a restart between two calls finds what  *)
(* reads return (wear_leveling_write(), wear_leveling.c:677).              *)
THEOREM NothingUnwritten ==
    ASSUME OneSector, NoFailures
    PROVE  Spec => []IdleMeansStored
<1>1. StoredInv => IdleMeansStored
    BY DEF StoredInv, IdleMeansStored
<1>. QED BY <1>1, WearStored, PTL

(* When nothing but locking fails, the log is only ever written at an      *)
(* erased word (wear_leveling_append_raw(), wear_leveling.c:331).          *)
THEOREM OnlyErasedWords ==
    ASSUME OneSector, NoFailures
    PROVE  Spec => []WritesOnlyErased
<1>1. StoredInv => WritesOnlyErased
    BY DEF StoredInv, WritesOnlyErased, Ready
<1>. QED BY <1>1, WearStored, PTL

(* A call that runs has no result yet. *)
RunningInv == pc # "idle" => result = "none"

(* ... and none is set before it returns.                                  *)
LEMMA RunningStep ==
    ASSUME RunningInv, Next
    PROVE  RunningInv'
<1>. USE DEF RunningInv
<1>1. ASSUME NEW s, NEW addr, Return(s, addr) PROVE RunningInv'
    BY <1>1 DEF Return
<1>2. ASSUME NEW a \in Address, NEW v \in Blocks, WriteSame(a, v) \/ Write(a, v)
      PROVE  RunningInv'
    BY <1>2 DEF WriteSame, Write
<1>3. CASE PowerLoss \/ InitFails \/ EraseCall
    BY <1>3 DEF PowerLoss, InitFails, EraseCall
<1>4. CASE wear_leveling_init
  <2>1. pc = "off" /\ (pc' = "idle" \/ UNCHANGED result)
      BY <1>4 DEF wear_leveling_init
  <2>. QED BY <2>1
<1>5. CASE AppendWord
    BY <1>1, <1>5 DEF AppendWord
<1>6. CASE AppendFails \/ EraseFails \/ ConsolidationFails
    BY <1>1, <1>6 DEF AppendFails, EraseFails, ConsolidationFails
<1>7. CASE EraseSector
    BY <1>1, <1>7 DEF EraseSector
<1>8. CASE WriteData
    BY <1>8 DEF WriteData
<1>9. CASE WriteSum
    BY <1>1, <1>9 DEF WriteSum
<1>. QED BY <1>2, <1>3, <1>4, <1>5, <1>6, <1>7, <1>8, <1>9 DEF Next

(* When nothing but locking fails, a write that returns success is         *)
(* persistent (wear_leveling.h:12).  With failures of the backing store it *)
(* need not be: the run wear_retry.                                        *)
THEOREM SuccessPersists ==
    ASSUME OneSector, NoFailures
    PROVE  Spec => SuccessMeansPersistent
<1>1. Init => RunningInv
    BY DEF Init, RunningInv
<1>2. RunningInv /\ [Next]_vars => RunningInv'
    BY RunningStep DEF RunningInv, vars
<1>3. RunningInv' /\ StoredInv' /\ Next =>
        /\ pc = "append" /\ result' = "SUCCESS" => \A x \in block : Persists(x)
        /\ \A a \in Address, v \in Blocks :
              WriteSame(a, v) => \A x \in a..(a + Len(v) - 1) : Persists(x)
  <2>. SUFFICES ASSUME RunningInv', StoredInv', Next
                PROVE  /\ pc = "append" /\ result' = "SUCCESS" => \A x \in block : Persists(x)
                       /\ \A a \in Address, v \in Blocks :
                             WriteSame(a, v) => \A x \in a..(a + Len(v) - 1) : Persists(x)
      OBVIOUS
  <2>1. pc' = "idle" => \A x : Persists(x)
      BY DEF StoredInv, Persists
  <2>2. result' = "SUCCESS" => pc' = "idle"
      BY DEF RunningInv
  <2>3. ASSUME NEW a \in Address, NEW v \in Blocks, WriteSame(a, v)
        PROVE  pc' = "idle"
      BY <2>3 DEF WriteSame
  <2>. QED BY <2>1, <2>2, <2>3
<1>. QED BY <1>1, <1>2, <1>3, WearStored, PTL DEF Spec, SuccessMeansPersistent

-----------------------------------------------------------------------------
(* Refinement, first part: playback of the same log from two consolidated  *)
(* copies, and words that are entries by themselves.                       *)

(* A byte that playback finds was in the log, or is the consolidated one.    *)
Mixes(P, i) ==
    \A c1 \in Cache, c2 \in Cache, x \in Address :
       \/ P[i][c1].cache[x] = P[i][c2].cache[x]
       \/ P[i][c1].cache[x] = c1[x] /\ P[i][c2].cache[x] = c2[x]

(* So it is in every log that parses.                                      *)
LEMMA LogMixes ==
    ASSUME NEW lg \in LogT, NEW n, LogOK(lg, n)
    PROVE  Mixes(Playback(lg, Zero), 1)
<1>1. PICK B : PathOn(lg, 1, n, B)
    BY DEF LogOK, Path
<1>. DEFINE P == Playback(lg, Zero)
            e(i) == EntryAt(lg, Zero, i)
            S == {i \in Nat : i \in B => Mixes(P, i)}
<1>2. /\ n \in Nat \ {0} /\ Zero \in WordT /\ B \in SUBSET (1..n) /\ 1 \in B
      /\ n \notin Slot \/ lg[n] = Zero
      /\ \A i \in B \ {n} : /\ i \in Slot /\ lg[i] # Zero /\ e(i).value \in Seq(Byte)
                            /\ Inside(e(i)) /\ i + e(i).words \in B /\ e(i).words \in 1..5
  <2>1. /\ B \in SUBSET (1..n) /\ 1 \in B
        /\ \A i \in B \ {n} : /\ i \in Slot /\ lg[i] # Zero /\ e(i).value \in Seq(Byte)
                              /\ Inside(e(i)) /\ i + e(i).words \in B
      BY <1>1 DEF PathOn, Chain, GoodBytes
  <2>2. n \in Nat /\ 1 <= n /\ Zero \in WordT
      BY PathEnds, OutsideType DEF LogOK
  <2>3. \A i \in B \ {n} : e(i).words \in 1..5
    <3>1. \A i \in B : i \in Nat
        BY <2>1, <2>2
    <3>. QED BY <3>1, <2>2, EntryWords
  <2>4. n \notin Slot \/ lg[n] = Zero
      BY <2>2 DEF LogOK, Erased
  <2>. QED BY <2>1, <2>2, <2>3, <2>4
<1>3. ASSUME NEW i \in Nat, i > n PROVE i \in S
    BY <1>3, <1>2
<1>4. ASSUME NEW i \in 0..n, \A j \in Nat : j > i => j \in S PROVE i \in S
  <2>1. CASE i \notin B
      BY <2>1
  <2>2. CASE i = n
    <3>2. ASSUME NEW c \in Cache PROVE P[n][c].cache = c
      <4>1. P[n][c] = [ok |-> TRUE, cache |-> c, next |-> n]
          BY <1>2, PlaybackEnds
      <4>2. [ok |-> TRUE, cache |-> c, next |-> n].cache = c
          OBVIOUS
      <4>. HIDE DEF P
      <4>. QED BY <4>1, <4>2
    <3>3. Mixes(P, n)
      <4>. HIDE DEF P
      <4>. QED BY <3>2 DEF Mixes
    <3>. QED BY <2>2, <3>3
  <2>3. CASE i \in B /\ i # n
    <3>. DEFINE j == i + e(i).words
                d(c) == Overwrite(c, e(i).address, e(i).value)
    <3>1. i \in Slot /\ lg[i] # Zero /\ e(i).value \in Seq(Byte) /\ j \in B /\ e(i).words \in 1..5
          /\ Inside(e(i))
        BY <1>2, <2>3
    <3>2. Mixes(P, j)
      <4>1. j \in Nat /\ j > i
          BY <3>1
      <4>. HIDE DEF j
      <4>. QED BY <4>1, <3>1, <1>4
    <3>3. ASSUME NEW c \in Cache PROVE P[i][c] = P[j][d(c)] /\ d(c) \in Cache
        BY <3>1, <1>2, PlaybackGoesOn, OverwriteType
    <3>4. ASSUME NEW c1 \in Cache, NEW c2 \in Cache, NEW x \in Address
          PROVE  d(c1)[x] = d(c2)[x] \/ (d(c1)[x] = c1[x] /\ d(c2)[x] = c2[x])
        BY DEF Overwrite
    <3>5. Mixes(P, i)
      <4>. HIDE DEF P, j, d
      <4>1. ASSUME NEW c1 \in Cache, NEW c2 \in Cache, NEW x \in Address
            PROVE  \/ P[i][c1].cache[x] = P[i][c2].cache[x]
                   \/ P[i][c1].cache[x] = c1[x] /\ P[i][c2].cache[x] = c2[x]
        <5>1. /\ P[i][c1] = P[j][d(c1)] /\ d(c1) \in Cache
              /\ P[i][c2] = P[j][d(c2)] /\ d(c2) \in Cache
            BY <3>3
        <5>2. \/ P[j][d(c1)].cache[x] = P[j][d(c2)].cache[x]
              \/ P[j][d(c1)].cache[x] = d(c1)[x] /\ P[j][d(c2)].cache[x] = d(c2)[x]
            BY <3>2, <5>1 DEF Mixes
        <5>. QED BY <3>4, <5>1, <5>2
      <4>. QED BY <4>1 DEF Mixes
    <3>. QED BY <3>5
  <2>. QED BY <2>1, <2>2, <2>3
<1>5. \A i \in Nat : i \in S
  <2>. HIDE DEF S
  <2>. QED BY <1>2, <1>3, <1>4, DownwardInduction
<1>. QED BY <1>5, <1>2

(* A word that is an entry by itself, for some of the bytes of v.            *)
PieceWord(u, a0, v) ==
    \E i \in 1..Len(v), m \in Nat \ {0}, v1 \in Seq(Byte), E \in Seq(WordT) :
       /\ i + m <= Len(v) + 1 /\ Piece(v1, v, i, m) /\ EntryOK(E, a0 + i - 1, v1)
       /\ Len(E) = 1 /\ E[1] = u

(* Every word of a write is such a word when entries are one word.         *)
LEMMA WordsArePieces ==
    ASSUME OneWordEntries, NEW a0 \in Nat, NEW v \in Seq(Byte), a0 + Len(v) <= LOGICAL_SIZE
    PROVE  \A q \in 1..Len(LogWords(a0, v)) : PieceWord(LogWords(a0, v)[q], a0, v)
<1>. DEFINE N == Len(v) + 1
<1>1. PICK g : /\ LogWords(a0, v) = g[1]
               /\ \A i \in 1..N : g[i] = WordsAt(a0, v, g, i)
    BY LogWordsExist
<1>. DEFINE Good(i) == g[i] \in Seq(WordT) /\ \A q \in 1..Len(g[i]) : PieceWord(g[i][q], a0, v)
            S       == {i \in Nat : i \in 1..N => Good(i)}
<1>2. N \in Nat /\ Len(v) \in Nat
    OBVIOUS
<1>3. ASSUME NEW i \in Nat, i > N PROVE i \in S
    BY <1>2, <1>3
<1>4. ASSUME NEW i \in 0..N, \A j \in Nat : j > i => j \in S PROVE i \in S
  <2>1. CASE i = 0
      BY <2>1
  <2>2. CASE i = N
    <3>1. g[i] = <<>>
      <4>1. Len(v) - i + 1 = 0
          BY <2>2, <1>2
      <4>2. WordsAt(a0, v, g, i) = <<>>
          BY <4>1, Zenon DEF WordsAt
      <4>3. i \in 1..N
          BY <2>2, <1>2
      <4>. QED BY <4>2, <4>3, <1>1
    <3>2. g[i] \in Seq(WordT) /\ Len(g[i]) = 0
        BY <3>1
    <3>3. Good(i)
        BY <3>2
    <3>. QED BY <3>3
  <2>3. CASE i \in 1..Len(v)
    <3>0. PICK m \in Nat \ {0}, v1 \in Seq(Byte), E \in Seq(WordT) : Begins(a0, v, i, g, m, v1, E)
        BY <2>3, WordsAtIs
    <3>1. /\ i + m <= Len(v) + 1 /\ Piece(v1, v, i, m)
          /\ EntryOK(E, a0 + i - 1, v1) /\ WordsAt(a0, v, g, i) = E \o g[i + m]
        BY <3>0 DEF Begins
    <3>2. i \in 1..N /\ i + m \in 1..N /\ i + m > i /\ i + m \in Nat
        BY <1>2, <2>3, <3>1
    <3>3. i + m \in S
        BY <3>2, <1>4
    <3>4. Good(i + m)
        BY <3>2, <3>3
    <3>. DEFINE r == g[i + m]
    <3>5. r \in Seq(WordT) /\ \A q \in 1..Len(r) : PieceWord(r[q], a0, v)
        BY <3>4
    <3>6. E \in Seq(WordT) /\ Len(E) = 1 /\ PieceWord(E[1], a0, v)
      <4>1. E \in Seq(WordT) /\ Len(E) = 1
          BY <3>1 DEF EntryOK
      <4>. QED BY <2>3, <3>1, <4>1 DEF PieceWord
    <3>. HIDE DEF r
    <3>7. /\ E \o r \in Seq(WordT) /\ Len(E \o r) = 1 + Len(r) /\ (E \o r)[1] = E[1]
          /\ \A q \in 1..Len(r) : (E \o r)[1 + q] = r[q]
      <4>1. /\ E \o r \in Seq(WordT) /\ Len(E \o r) = Len(E) + Len(r)
            /\ \A q \in 1..Len(E) : (E \o r)[q] = E[q]
            /\ \A q \in 1..Len(r) : (E \o r)[Len(E) + q] = r[q]
          BY <3>5, <3>6, ConcatIs
      <4>2. 1 \in 1..1 /\ Len(E) = 1
          BY <3>6
      <4>. QED BY <4>1, <4>2
    <3>8. ASSUME NEW q \in 1..Len(E \o r) PROVE PieceWord((E \o r)[q], a0, v)
      <4>1. CASE q = 1
          BY <3>6, <3>7, <4>1
      <4>2. CASE q # 1
        <5>1. q - 1 \in 1..Len(r) /\ 1 + (q - 1) = q
          <6>1. Len(r) \in Nat
              BY <3>5
          <6>. QED BY <3>7, <4>2, <6>1
        <5>. QED BY <3>5, <3>7, <5>1
      <4>. QED BY <4>1, <4>2
    <3>9. g[i] = E \o r
        BY <1>1, <3>1, <3>2 DEF r
    <3>10. Good(i)
        BY <3>7, <3>8, <3>9
    <3>. QED BY <3>10
  <2>. QED BY <2>1, <2>2, <2>3, <1>2
<1>5. 1 \in S
  <2>. HIDE DEF S, N
  <2>. QED BY <1>2, <1>3, <1>4, DownwardInduction
<1>6. Good(1)
    BY <1>2, <1>5
<1>. QED BY <1>1, <1>6

(* What such a word does when it is played back.                             *)
Plays(u, c, blk) ==
    \A X \in LogT, w \in Slot : X[w] = u =>
       LET e == EntryAt(X, Zero, w) IN
       /\ u # Zero /\ Inside(e) /\ GoodBytes(e) /\ e.words = 1
       /\ \A d \in Cache, x \in Address :
             \/ Overwrite(d, e.address, e.value)[x] = d[x]
             \/ x \in blk /\ Overwrite(d, e.address, e.value)[x] = c[x]

(* A word of a piece changes bytes of the block only, and to what reads    *)
(* return.                                                                 *)
LEMMA PiecePlays ==
    ASSUME NEW a0 \in Nat, NEW v \in Seq(Byte), a0 + Len(v) <= LOGICAL_SIZE,
           NEW u, PieceWord(u, a0, v), NEW c \in Cache
    PROVE  Plays(u, Overwrite(c, a0, v), a0..(a0 + Len(v) - 1))
<1>1. PICK i \in 1..Len(v), m \in Nat \ {0}, v1 \in Seq(Byte), E \in Seq(WordT) :
         /\ i + m <= Len(v) + 1 /\ Piece(v1, v, i, m) /\ EntryOK(E, a0 + i - 1, v1)
         /\ Len(E) = 1 /\ E[1] = u
    BY DEF PieceWord
<1>. DEFINE b == a0..(a0 + Len(v) - 1)
            cc == Overwrite(c, a0, v)
<1>2. ASSUME NEW X \in LogT, NEW w \in Slot, X[w] = u
      PROVE  /\ u # Zero /\ Inside(EntryAt(X, Zero, w)) /\ GoodBytes(EntryAt(X, Zero, w))
             /\ EntryAt(X, Zero, w).words = 1
             /\ EntryAt(X, Zero, w).address = a0 + i - 1 /\ EntryAt(X, Zero, w).value = v1
  <2>1. 1 \in 1..Len(E) /\ 1 = Len(E)
      BY <1>1
  <2>2. Placed(X, w, E, 1)
      BY <1>1, <1>2 DEF Placed, Slot
  <2>. QED BY <1>1, <1>2, <2>1, <2>2, OutsideType DEF EntryOK
<1>3. ASSUME NEW d \in Cache, NEW x \in Address
      PROVE  \/ Overwrite(d, a0 + i - 1, v1)[x] = d[x]
             \/ x \in b /\ Overwrite(d, a0 + i - 1, v1)[x] = cc[x]
  <2>1. Overwrite(d, a0 + i - 1, v1)[x]
           = IF x - (a0 + i - 1) \in 0..(Len(v1) - 1) THEN v1[x - (a0 + i - 1) + 1] ELSE d[x]
      BY DEF Overwrite
  <2>2. CASE x - (a0 + i - 1) \in 0..(Len(v1) - 1)
    <3>1. Len(v1) = m /\ Len(v) \in Nat /\ x \in Int
        BY <1>1 DEF Piece, Address
    <3>2. x - a0 \in 0..(Len(v) - 1) /\ x \in b
        BY <1>1, <2>2, <3>1
    <3>3. cc[x] = v[x - a0 + 1]
        BY <3>2 DEF Overwrite
    <3>4. LET j == x - (a0 + i - 1) + 1 IN j \in 1..m /\ i + j - 1 = x - a0 + 1
        BY <2>2, <3>1
    <3>5. v1[x - (a0 + i - 1) + 1] = v[x - a0 + 1]
        BY <1>1, <3>4 DEF Piece
    <3>. HIDE DEF b, cc
    <3>. QED BY <2>1, <2>2, <3>2, <3>3, <3>5
  <2>3. CASE x - (a0 + i - 1) \notin 0..(Len(v1) - 1)
      BY <2>1, <2>3
  <2>. QED BY <2>2, <2>3
<1>. HIDE DEF b, cc
<1>4. Plays(u, cc, b)
    BY <1>2, <1>3 DEF Plays
<1>. QED BY <1>4 DEF b, cc

-----------------------------------------------------------------------------
(* Refinement, second part: what holds besides the invariant when every    *)
(* entry is one word.                                                      *)

(* The log parses and ends in the store.                                   *)
Fits(lg) == \E n \in 1..(LOG_SLOTS + 1) : LogOK(lg, n)

(* Once the rest of the write is appended, a restart finds all of its      *)
(* block.                                                                  *)
BlockStored ==
    \A X \in LogT : Extends(X, Len(todo)) =>
       \A x \in block : Playback(X, Zero)[1][read_consolidated].cache[x] = cache[x]

(* The end of the log is in the store.  Every word to append is an entry   *)
(* for bytes of the running block, and all of them make the block          *)
(* persistent.  The data are erased first.                                 *)
StepInv ==
    /\ Fits(log)
    /\ pc = "append" => \A q \in 1..Len(todo) : Plays(todo[q], cache, block)
    /\ pc = "append" /\ Ready => BlockStored
    /\ pc \in {"erase", "wipe"} /\ next > 1 => data = ZeroCache

(* An erased log ends in the store.                                        *)
LEMMA EmptyFits ==
    ASSUME NEW lg, Erased(lg, 1)
    PROVE  Fits(lg)
<1>1. 1 \in 1..(LOG_SLOTS + 1)
    BY Geometry
<1>. QED BY <1>1, EmptyLog DEF Fits

(* A write begins.                                                         *)
LEMMA StepWrite ==
    ASSUME OneWordEntries, IInv, StepInv, NEW a \in Address, NEW v \in Blocks, Write(a, v)
    PROVE  StepInv'
<1>1. v \in Seq(Byte) /\ Len(v) \in Nat /\ Len(v) >= 1 /\ a \in Nat /\ a + Len(v) <= LOGICAL_SIZE
    BY BlockIs DEF Write, Address
<1>2. /\ pc = "idle" /\ cache' = Overwrite(cache, a, v) /\ UNCHANGED <<store, write_address, next>>
      /\ cache \in Cache /\ log \in LogT /\ next = 1 /\ Fits(log')
    BY DEF Write, IInv, Types, NextInv, StepInv, store
<1>3. CASE pc' = "idle"
    BY <1>2, <1>3 DEF StepInv
<1>4. CASE pc' = "append" /\ todo' = LogWords(a, v) /\ block' = a..(a + Len(v) - 1)
  <2>1. \A q \in 1..Len(todo') : Plays(todo'[q], cache', block')
    <3>1. ASSUME NEW q \in 1..Len(LogWords(a, v)) PROVE PieceWord(LogWords(a, v)[q], a, v)
        BY <1>1, WordsArePieces
    <3>2. ASSUME NEW q \in 1..Len(LogWords(a, v))
          PROVE  Plays(LogWords(a, v)[q], Overwrite(cache, a, v), a..(a + Len(v) - 1))
        BY <1>1, <1>2, <3>1, PiecePlays
    <3>. QED BY <1>2, <1>4, <3>2
  <2>2. Ready' => BlockStored'
    <3>1. SUFFICES ASSUME Ready PROVE BlockStored'
        BY <1>2 DEF Ready, store
    <3>2. LogOK(log, write_address) /\ write_address \in Slot
        BY <1>2, <3>1 DEF IInv, LogInv, Ready
    <3>3. read_consolidated' = read_consolidated /\ read_consolidated \in Cache
        BY <1>2, SameStoreRead, SumRead DEF IInv, Types
    <3>4. Len(LogWords(a, v)) \in 0..Len(LogWords(a, v))
      <4>1. LogWords(a, v) \in Seq(WordT)
          BY <1>1, WriteReplays DEF Replays
      <4>2. Len(LogWords(a, v)) \in Nat
          BY <4>1
      <4>. QED BY <4>2
    <3>5. ASSUME NEW X \in LogT, NEW x \in block',
                 \A j \in Slot : j < write_address => X[j] = log[j],
                 Placed(X, write_address, LogWords(a, v), Len(LogWords(a, v))),
                 Erased(X, write_address + Len(LogWords(a, v)))
          PROVE  Playback(X, Zero)[1][read_consolidated].cache[x] = cache'[x]
      <4>. DEFINE d == Playback(log, Zero)[1][read_consolidated].cache
      <4>1. \A c \in Cache : Playback(X, Zero)[1][c] =
               [ok |-> TRUE, cache |-> Overwrite(Playback(log, Zero)[1][c].cache, a, v),
                next |-> write_address + Len(LogWords(a, v))]
          BY <1>1, <1>2, <3>2, <3>4, <3>5, WriteAppends
      <4>2. Playback(X, Zero)[1][read_consolidated] =
               [ok |-> TRUE, cache |-> Overwrite(d, a, v),
                next |-> write_address + Len(LogWords(a, v))]
          BY <3>3, <4>1
      <4>3. Playback(X, Zero)[1][read_consolidated].cache = Overwrite(d, a, v)
          BY <4>2
      <4>4. x \in Address /\ x - a \in 0..(Len(v) - 1)
        <5>1. LOGICAL_SIZE \in Nat /\ x \in a..(a + Len(v) - 1)
            BY <1>4, WearAssumption
        <5>. QED BY <1>1, <5>1 DEF Address
      <4>5. Overwrite(d, a, v)[x] = v[x - a + 1] /\ cache'[x] = v[x - a + 1]
        <5>. HIDE DEF d
        <5>. QED BY <1>2, <4>4 DEF Overwrite
      <4>. QED BY <4>3, <4>5
    <3>. QED BY <1>2, <1>4, <3>3, <3>5 DEF BlockStored, Extends, store
  <2>. QED BY <1>2, <1>4, <2>1, <2>2 DEF StepInv
<1>. QED BY <1>3, <1>4, <1>2 DEF Write

(* One more word, which is an entry by itself: what a restart finds.         *)
LEMMA AppendReads ==
    ASSUME OneWordEntries, IInv, StepInv, AppendWord, Ready
    PROVE  /\ write_address + 1 \in 1..(LOG_SLOTS + 1) /\ LogOK(log', write_address + 1)
           /\ \A x \in Address : \/ Recovered'[x] = Recovered[x]
                                 \/ x \in block /\ Recovered'[x] = cache[x]
<1>1. /\ log' \in LogT /\ log \in LogT /\ Len(todo) \in Nat \ {0} /\ Extends(log', 1)
      /\ write_address \in Slot /\ LOG_SLOTS \in Nat /\ pc = "append" /\ UNCHANGED <<data, sum>>
      /\ Appends /\ Erased(log, write_address) /\ todo \in Seq(WordT)
      /\ log' = [i \in Slot |-> IF i = write_address THEN Head(todo) ELSE log[i]]
    BY OneMoreWord, Geometry DEF AppendWord, IInv, LogInv, Types, Ready
<1>2. LogOK(log, write_address) /\ LogOK(log', write_address + 1)
  <2>1. 0 \in 0..Len(todo) /\ 1 \in 0..Len(todo) /\ write_address + 0 = write_address
      BY <1>1 DEF Slot
  <2>2. Extends(log, 0)
      BY <1>1, <2>1 DEF Extends, Placed
  <2>. QED BY <1>1, <2>1, <2>2 DEF Appends
<1>3. write_address + 1 \in 1..(LOG_SLOTS + 1)
    BY <1>1 DEF Slot
<1>. DEFINE c == read_consolidated
            e == EntryAt(log', Zero, write_address)
<1>4. c \in Cache /\ Recovered = Playback(log, Zero)[1][c].cache
      /\ Recovered' = Playback(log', Zero)[1][c].cache
  <2>1. read_consolidated' = read_consolidated
      BY <1>1 DEF read_consolidated
  <2>. QED BY <1>1, <2>1, SumRead DEF Recovered, playback_log, IInv, Types
<1>5. PICK d \in Cache : /\ Playback(log, Zero)[1][c] = Playback(log, Zero)[write_address][d]
                         /\ Playback(log', Zero)[1][c] = Playback(log', Zero)[write_address][d]
  <2>1. \A j \in Slot : j < write_address => log'[j] = log[j]
      BY <1>1 DEF Extends
  <2>2. write_address <= LOG_SLOTS + 1 /\ 1 \in Nat \ {0} /\ Zero \in Outside
      BY <1>1, OutsideType DEF Slot
  <2>3. Together(Playback(log, Zero), Playback(log', Zero), 1, write_address)
      BY <1>1, <1>2, <2>1, <2>2, PathMoves DEF LogOK
  <2>. QED BY <1>4, <2>3 DEF Together
<1>6. Playback(log, Zero)[write_address][d] = [ok |-> TRUE, cache |-> d, next |-> write_address]
    BY <1>1, PlaybackEnds, OutsideType DEF Ready, Slot
<1>7. log'[write_address] = todo[1] /\ Plays(todo[1], cache, block)
    BY <1>1 DEF StepInv
<1>8. /\ todo[1] # Zero /\ Inside(e) /\ GoodBytes(e) /\ e.words = 1
      /\ \A x \in Address :
            \/ Overwrite(d, e.address, e.value)[x] = d[x]
            \/ x \in block /\ Overwrite(d, e.address, e.value)[x] = cache[x]
    BY <1>1, <1>7 DEF Plays
<1>. DEFINE d2 == Overwrite(d, e.address, e.value)
<1>9. d2 \in Cache
    BY <1>8, OverwriteType DEF GoodBytes
<1>10. Playback(log', Zero)[write_address][d] = Playback(log', Zero)[write_address + 1][d2]
    BY <1>1, <1>7, <1>8, PlaybackGoesOn, OutsideType
<1>11. Playback(log', Zero)[write_address + 1][d2]
          = [ok |-> TRUE, cache |-> d2, next |-> write_address + 1]
  <2>1. write_address + 1 \notin Slot \/ log'[write_address + 1] = Zero
      BY <1>2, <1>3 DEF LogOK, Erased
  <2>. HIDE DEF d2
  <2>. QED BY <1>1, <1>3, <1>9, <2>1, PlaybackEnds, OutsideType
<1>12. Recovered = d /\ Recovered' = d2
  <2>. HIDE DEF d2, c
  <2>. QED BY <1>4, <1>5, <1>6, <1>10, <1>11
<1>. QED BY <1>2, <1>3, <1>8, <1>12

(* A word is appended.                                                     *)
LEMMA StepAppend ==
    ASSUME OneWordEntries, IInv, StepInv, AppendWord
    PROVE  StepInv'
<1>1. /\ log' \in LogT /\ Len(todo) \in Nat \ {0} /\ todo \in Seq(WordT) /\ next = 1
      /\ pc = "append" /\ UNCHANGED <<data, sum>> /\ LOG_SLOTS \in Nat
    BY OneMoreWord, Geometry DEF AppendWord, IInv, Types, NextInv
<1>2. Fits(log')
  <2>1. CASE Ready
      BY <2>1, AppendReads DEF Fits
  <2>2. CASE ~Ready
    <3>1. write_address \notin Slot
        BY <2>2 DEF AppendWord, Ready
    <3>2. log' = log
        BY <3>1 DEF AppendWord, IInv, Types, LogT
    <3>. QED BY <3>2 DEF StepInv
  <2>. QED BY <2>1, <2>2
<1>3. CASE pc' = "erase" /\ next' = next
    BY <1>1, <1>2, <1>3 DEF StepInv
<1>4. CASE pc' = "idle"
    BY <1>2, <1>4 DEF StepInv
<1>5. CASE /\ Len(todo) # 1 /\ write_address < LOG_SLOTS
           /\ write_address' = write_address + 1 /\ todo' = Tail(todo)
           /\ UNCHANGED <<cache, unlocked, pc, next, locks, block, result>>
  <2>1. Len(Tail(todo)) = Len(todo) - 1
      BY <1>1
  <2>2. Ready /\ BlockStored
    <3>1. write_address \in 1..(LOG_SLOTS + 1)
        BY DEF IInv, Types
    <3>2. Ready
        BY <1>1, <1>5, <3>1 DEF AppendWord, Ready, Slot
    <3>. QED BY <1>1, <3>2 DEF StepInv
  <2>3. \A q \in 1..Len(todo') : Plays(todo'[q], cache', block')
    <3>1. ASSUME NEW q \in 1..Len(Tail(todo)) PROVE q + 1 \in 1..Len(todo) /\ Tail(todo)[q] = todo[q + 1]
        BY <1>1, <2>1
    <3>. QED BY <1>1, <1>5, <3>1 DEF StepInv
  <2>4. read_consolidated' = read_consolidated
      BY <1>1 DEF read_consolidated
  <2>5. ASSUME NEW X \in LogT, NEW k \in Nat, k = Len(Tail(todo)), Extends(X, k)'
        PROVE  \A x \in block : Playback(X, Zero)[1][read_consolidated].cache[x] = cache[x]
    <3>1. k + 1 = Len(todo) /\ k <= Len(todo) - 1
        BY <1>1, <2>1, <2>5
    <3>2. Continues(X, k)
        BY <1>5, <2>5, <3>1 DEF Extends, Continues
    <3>3. Extends(X, k + 1)
        BY <1>1, <2>2, <2>5, <3>2, OneMoreExtends
    <3>. QED BY <2>2, <3>1, <3>3 DEF BlockStored
  <2>6. BlockStored'
    <3>1. Len(Tail(todo)) \in Nat
        BY <1>1, <2>1
    <3>. QED BY <1>5, <2>4, <2>5, <3>1 DEF BlockStored
  <2>. QED BY <1>1, <1>2, <1>5, <2>3, <2>6 DEF StepInv
<1>6. write_address \in 1..(LOG_SLOTS + 1)
    BY DEF IInv, Types
<1>. QED BY <1>1, <1>3, <1>4, <1>5, <1>6 DEF AppendWord, Return

(* A sector is erased.                                                     *)
LEMMA StepErase ==
    ASSUME OneSector, IInv, StepInv, EraseSector
    PROVE  StepInv'
<1>1. next \in 1..SECTORS /\ log' \in LogT /\ (next >= SectorOf[1] => Erased(log', 1))
      /\ SectorOf[1] \in 1..SECTORS
    BY SectorErased, Geometry
<1>2. Fits(log')
  <2>1. CASE next >= SectorOf[1]
      BY <1>1, <2>1, EmptyFits
  <2>2. CASE next < SectorOf[1]
    <3>1. \A i \in Slot : SectorOf[i] = SectorOf[1]
        BY Geometry DEF OneSector
    <3>2. \A i \in Slot : next # SectorOf[i]
        BY <1>1, <2>2, <3>1
    <3>3. log' = log
        BY <3>2 DEF EraseSector, IInv, Types, LogT
    <3>. QED BY <3>3 DEF StepInv
  <2>. QED BY <1>1, <2>1, <2>2
<1>3. data' = ZeroCache
  <2>1. pc \in {"erase", "wipe"}
      BY DEF EraseSector
  <2>2. CASE next = 1
      BY <2>2 DEF EraseSector
  <2>3. CASE next > 1
      BY <2>1, <2>3, <1>1 DEF StepInv, EraseSector
  <2>. QED BY <1>1, <2>2, <2>3
<1>4. pc' # "append"
    BY DEF EraseSector, Return
<1>. QED BY <1>2, <1>3, <1>4 DEF StepInv

(* Every step keeps that.                                                  *)
LEMMA StepStep ==
    ASSUME OneSector, OneWordEntries, IInv, StepInv, [Next]_vars
    PROVE  StepInv'
<1>1. CASE UNCHANGED vars
  <2>1. UNCHANGED store
      BY <1>1 DEF vars
  <2>2. read_consolidated' = read_consolidated
      BY <2>1, SameStoreRead
  <2>. QED BY <1>1, <2>2 DEF StepInv, Ready, BlockStored, Extends, vars, store
<1>2. ASSUME NEW a \in Address, NEW v \in Blocks, WriteSame(a, v) \/ Write(a, v)
      PROVE  StepInv'
  <2>1. CASE WriteSame(a, v)
      BY <2>1 DEF WriteSame, StepInv, store
  <2>. QED BY <1>2, <2>1, StepWrite
<1>3. CASE PowerLoss
    BY <1>3 DEF PowerLoss, StepInv, store
<1>4. CASE wear_leveling_init \/ InitFails \/ EraseCall
  <2>1. next' = 1 /\ pc' # "append" /\ log' = log
      BY <1>4 DEF wear_leveling_init, InitFails, EraseCall, IInv, NextInv, store
  <2>. QED BY <2>1 DEF StepInv
<1>5. CASE AppendWord
    BY <1>5, StepAppend
<1>6. CASE AppendFails \/ EraseFails \/ ConsolidationFails
  <2>1. pc' = "idle" /\ log' = log
      BY <1>6 DEF AppendFails, EraseFails, ConsolidationFails, Return, store
  <2>. QED BY <2>1 DEF StepInv
<1>7. CASE EraseSector
    BY <1>7, StepErase
<1>8. CASE WriteData \/ WriteSum
  <2>1. pc' \in {"idle", "data", "sum"} /\ log' = log
      BY <1>8 DEF WriteData, WriteSum, Return
  <2>. QED BY <2>1 DEF StepInv
<1>. QED BY <1>1, <1>2, <1>3, <1>4, <1>5, <1>6, <1>7, <1>8 DEF Next

-----------------------------------------------------------------------------
(* Refinement, third part: every step is a step of the persistent memory.  *)

(* Bytes that a restart finds change only to what reads return, or to      *)
(* zero.                                                                   *)
Changed(kept, lost) ==
    \A x \in Address : \/ Recovered'[x] = Recovered[x]
                       \/ x \in kept /\ Recovered'[x] = cache[x]
                       \/ x \in lost /\ Recovered'[x] = 0

(* The specification of the persistent memory says the same.               *)
LEMMA ChangesIs ==
    ASSUME NEW kept, NEW lost, Changed(kept, lost)
    PROVE  Store!Changes(kept, lost)
BY DEF Changed, Store!Changes

(* Nothing changes while the store does not.                               *)
LEMMA Unchanged ==
    ASSUME UNCHANGED store, NEW kept, NEW lost
    PROVE  Store!Changes(kept, lost)
<1>1. Recovered' = Recovered
    BY SameStoreRead
<1>. QED BY <1>1, ChangesIs DEF Changed

(* The same of what is stored when a call returns.                         *)
LEMMA StoredIs ==
    ASSUME NEW done, \A x \in done : Recovered'[x] = cache'[x]
    PROVE  Store!Stored(done)
BY DEF Store!Stored

(* A call that returns with status s and leaves done stored when it has.     *)
LEMMA FinishIs ==
    ASSUME NEW s, NEW addr, Return(s, addr), NEW done,
           s = "FAILED" => Faults # {},
           s # "FAILED" => \A x \in done : Recovered'[x] = cache'[x]
    PROVE  Store!Finish(done)
<1>1. state' = "idle" /\ block' = {}
    BY DEF Return, state
<1>2. CASE s = "FAILED"
  <2>1. result' = "FAILED"
      BY <1>2 DEF Return, Relock
  <2>. QED BY <1>1, <1>2, <2>1 DEF Store!Finish
<1>3. CASE s # "FAILED"
  <2>1. Store!Stored(done)
      BY <1>3, StoredIs
  <2>2. result' = s \/ (result' = "FAILED" /\ Faults # {})
      BY DEF Return, Relock
  <2>. QED BY <1>1, <1>3, <2>1, <2>2 DEF Store!Finish
<1>. QED BY <1>2, <1>3

(* What the refinement rests on.                                           *)
Sound == IInv /\ StepInv /\ (Faults = {} => StoredInv)

(* A restart reads what was stored, also when it consolidates next.        *)
LEMMA StoreRestart ==
    ASSUME OneWordEntries, Sound, wear_leveling_init
    PROVE  Store!Restart
<1>1. PICK n \in 1..(LOG_SLOTS + 1) : LogOK(log, n)
    BY DEF Sound, StepInv, Fits
<1>2. PICK o \in Outside :
         /\ cache' = playback_log(o).cache
         /\ pc' \in {"idle", "erase"} /\ pc = "off" /\ UNCHANGED <<store, block>>
    BY DEF wear_leveling_init, Outside
<1>. DEFINE c == read_consolidated
<1>3. c \in Cache /\ log \in LogT
    BY SumRead DEF Sound, IInv, Types
<1>4. Playback(log, o)[1][c].cache = Playback(log, Zero)[1][c].cache
  <2>1. n <= LOG_SLOTS + 1 /\ 1 \in Nat \ {0} /\ n \in Nat
      BY <1>1, Geometry
  <2>2. Together(Playback(log, Zero), Playback(log, o), 1, n)
      BY <1>1, <1>3, <2>1, PathMoves DEF LogOK
  <2>3. PICK d \in Cache : /\ Playback(log, Zero)[1][c] = Playback(log, Zero)[n][d]
                           /\ Playback(log, o)[1][c] = Playback(log, o)[n][d]
      BY <1>3, <2>2 DEF Together
  <2>4. n \notin Slot \/ log[n] = Zero
      BY <1>1, <2>1 DEF LogOK, Erased
  <2>5. Playback(log, Zero)[n][d] = Playback(log, o)[n][d]
    <3>1. Zero \in WordT /\ o \in WordT
        BY OutsideType
    <3>2. Playback(log, Zero)[n][d] = [ok |-> TRUE, cache |-> d, next |-> n]
        BY <1>3, <2>1, <2>4, <3>1, PlaybackEnds
    <3>3. Playback(log, o)[n][d] = [ok |-> TRUE, cache |-> d, next |-> n]
        BY <1>3, <2>1, <2>4, <3>1, PlaybackEnds
    <3>. QED BY <3>2, <3>3
  <2>. QED BY <2>3, <2>5
<1>5. cache' = Recovered /\ Recovered' = Recovered
  <2>1. Recovered' = Recovered
      BY <1>2, SameStoreRead
  <2>. QED BY <1>2, <1>4, <2>1 DEF Recovered, playback_log
<1>6. state = "off" /\ state' \in {"idle", "consolidating"}
    BY <1>2 DEF state
<1>. QED BY <1>2, <1>5, <1>6 DEF Store!Restart

(* A write that begins, has nothing to do, or cannot unlock the store.     *)
LEMMA StoreWrite ==
    ASSUME Sound, NEW a \in Address, NEW v \in Blocks, WriteSame(a, v) \/ Write(a, v)
    PROVE  Store!Write
<1>1. /\ pc = "idle" /\ UNCHANGED store /\ cache \in Cache
      /\ v \in Seq(Byte)
    BY BlockIs DEF WriteSame, Write, Sound, IInv, Types
<1>2. state = "idle" /\ Recovered' = Recovered
    BY <1>1, SameStoreRead DEF state
<1>3. cache' \in [Address -> Byte]
    BY <1>1, OverwriteType DEF WriteSame, Write, Cache
<1>4. CASE WriteSame(a, v)
  <2>1. result' # "FAILED" /\ UNCHANGED <<state, cache, block>>
      BY <1>4 DEF WriteSame, state
  <2>. QED BY <1>2, <1>3, <2>1 DEF Store!Write
<1>5. CASE Write(a, v) /\ pc' = "append" /\ block' = a..(a + Len(v) - 1)
  <2>1. state' = "writing"
      BY <1>5 DEF state
  <2>2. ASSUME NEW x \in Address \ block' PROVE cache'[x] = cache[x]
    <3>1. a \in Int /\ x \in Int /\ Len(v) \in Nat
        BY <1>1 DEF Address
    <3>2. x - a \notin 0..(Len(v) - 1)
        BY <1>5, <2>2, <3>1
    <3>. QED BY <1>5, <3>2 DEF Write, Overwrite
  <2>. QED BY <1>2, <1>3, <2>1, <2>2 DEF Store!Write
<1>6. CASE Write(a, v) /\ "unlock" \in Faults /\ result' = "FAILED" /\ UNCHANGED <<pc, block>>
  <2>1. UNCHANGED state
      BY <1>6 DEF state
  <2>. QED BY <1>2, <1>3, <1>6, <2>1 DEF Store!Write
<1>. QED BY <1>4, <1>5, <1>6 DEF Write

(* An appended word, the last of a write or the last of the log.           *)
LEMMA StoreAppend ==
    ASSUME OneWordEntries, Sound, AppendWord
    PROVE  Store!Commit
<1>1. /\ pc = "append" /\ Len(todo) \in Nat \ {0} /\ block # {} /\ log' \in LogT
      /\ block \in SUBSET Address /\ write_address \in 1..(LOG_SLOTS + 1) /\ LOG_SLOTS \in Nat
      /\ UNCHANGED <<data, sum>>
    BY OneMoreWord, Geometry DEF AppendWord, Sound, IInv, Types
<1>2. Store!Changes(block, {})
  <2>1. CASE Ready
      BY <2>1, AppendReads, ChangesIs DEF Sound, Changed
  <2>2. CASE ~Ready
    <3>1. write_address \notin Slot
        BY <2>2 DEF AppendWord, Ready
    <3>2. log' = log
        BY <3>1 DEF AppendWord, Sound, IInv, Types, LogT
    <3>. QED BY <1>1, <3>2, Unchanged DEF store
  <2>. QED BY <2>1, <2>2
<1>3. state = "writing"
    BY <1>1 DEF state
<1>4. CASE pc' \in {"erase", "append"} /\ UNCHANGED <<cache, block>>
  <2>1. state' \in {"writing", "consolidating"}
      BY <1>4 DEF state
  <2>. QED BY <1>2, <1>3, <1>4, <2>1 DEF Store!Commit
<1>5. CASE Len(todo) = 1 /\ write_address < LOG_SLOTS /\ Return("SUCCESS", write_address + 1)
  <2>1. cache' = cache
      BY <1>1, <1>5 DEF Return, ofInit
  <2>2. Ready
      BY <1>1, <1>5 DEF AppendWord, Ready, Slot
  <2>3. BlockStored /\ Extends(log', 1)
      BY <1>1, <2>2, OneMoreWord DEF Sound, StepInv
  <2>4. \A x \in block : Recovered'[x] = cache'[x]
    <3>1. \A x \in block : Playback(log', Zero)[1][read_consolidated].cache[x] = cache[x]
        BY <1>1, <1>5, <2>3 DEF BlockStored
    <3>2. Recovered' = Playback(log', Zero)[1][read_consolidated].cache
        BY <1>1 DEF Recovered, playback_log, read_consolidated
    <3>. QED BY <2>1, <3>1, <3>2
  <2>5. Store!Finish(block)
      BY <1>5, <2>4, FinishIs
  <2>. QED BY <1>2, <1>3, <2>1, <2>5 DEF Store!Commit
<1>. QED BY <1>1, <1>4, <1>5 DEF AppendWord

(* A word that cannot be appended.                                         *)
LEMMA StoreAppendFails ==
    ASSUME Sound, AppendFails
    PROVE  Store!Commit
<1>1. pc = "append" /\ block # {} /\ UNCHANGED store /\ Return("FAILED", write_address)
    BY DEF AppendFails, Sound, IInv, Types
<1>2. Faults # {}
    BY <1>1 DEF AppendFails, Sound, StoredInv, Ready
<1>3. state = "writing" /\ cache' = cache
    BY <1>1 DEF state, Return, ofInit
<1>4. Store!Finish(block)
    BY <1>1, <1>2, FinishIs
<1>. QED BY <1>1, <1>3, <1>4, Unchanged DEF Store!Commit

(* What a restart finds loses bytes while the store is erased.               *)
LEMMA EraseReads ==
    ASSUME OneSector, Sound, EraseSector
    PROVE  /\ Store!Changes({}, Address) /\ Store!Changes(Address, Address)
           /\ next = SECTORS => Recovered' = ZeroCache
<1>1. /\ data' \in Cache /\ log' \in LogT /\ next \in 1..SECTORS
      /\ next >= SectorOf[1] => Erased(log', 1)
      /\ next = SECTORS => Erased(log', 1)
      /\ pc \in {"erase", "wipe"} /\ data \in Cache /\ log \in LogT
    BY SectorErased DEF Sound, EraseSector, IInv, Types
<1>2. data' = ZeroCache
  <2>1. CASE next = 1
      BY <2>1 DEF EraseSector
  <2>2. CASE next > 1
      BY <1>1, <2>2 DEF Sound, StepInv, EraseSector
  <2>. QED BY <1>1, <2>1, <2>2
<1>3. read_consolidated' = ZeroCache /\ ZeroCache \in Cache /\ read_consolidated \in Cache
    BY <1>1, <1>2, Geometry, SumRead DEF read_consolidated
<1>4. Recovered' = Playback(log', Zero)[1][ZeroCache].cache
    BY <1>3 DEF Recovered, playback_log
<1>5. CASE Erased(log', 1)
  <2>1. Playback(log', Zero)[1][ZeroCache] = [ok |-> TRUE, cache |-> ZeroCache, next |-> 1]
      BY <1>1, <1>3, <1>5, ErasedIsRead
  <2>2. Recovered' = ZeroCache
      BY <1>4, <2>1
  <2>3. \A x \in Address : Recovered'[x] = 0
      BY <2>2 DEF ZeroCache
  <2>. QED BY <2>2, <2>3, ChangesIs DEF Changed
<1>6. CASE ~Erased(log', 1)
  <2>1. log' = log
    <3>1. \A i \in Slot : SectorOf[i] = SectorOf[1]
        BY Geometry DEF OneSector
    <3>2. \A i \in Slot : next # SectorOf[i]
        BY <1>1, <1>6, <3>1, Geometry
    <3>. QED BY <1>1, <3>2 DEF EraseSector, LogT
  <2>2. Mixes(Playback(log, Zero), 1)
      BY <1>1, LogMixes DEF Sound, StepInv, Fits
  <2>3. \A x \in Address : Recovered'[x] = Recovered[x] \/ Recovered'[x] = 0
    <3>1. Recovered = Playback(log, Zero)[1][read_consolidated].cache
        BY DEF Recovered, playback_log
    <3>2. Recovered' = Playback(log, Zero)[1][ZeroCache].cache
        BY <1>4, <2>1
    <3>3. \A x \in Address : ZeroCache[x] = 0
        BY DEF ZeroCache
    <3>. QED BY <1>3, <2>2, <3>1, <3>2, <3>3 DEF Mixes
  <2>. QED BY <1>1, <1>6, <2>3, ChangesIs DEF Changed
<1>. QED BY <1>5, <1>6

(* An erased sector, of a consolidation or of an erase.                    *)
LEMMA StoreErase ==
    ASSUME OneSector, Sound, EraseSector
    PROVE  Store!Next
<1>1. /\ Store!Changes({}, Address) /\ Store!Changes(Address, Address)
      /\ next = SECTORS => Recovered' = ZeroCache
    BY EraseReads
<1>2. CASE pc = "wipe"
  <2>1. state = "erasing"
      BY <1>2 DEF state
  <2>2. CASE pc' = "wipe" /\ UNCHANGED <<cache, block>>
    <3>1. state' = "erasing"
        BY <2>2 DEF state
    <3>. QED BY <1>1, <2>1, <2>2, <3>1 DEF Store!Erase, Store!Next
  <2>3. CASE next = SECTORS /\ Return("SUCCESS", 1)
    <3>1. cache' = ZeroCache
        BY <1>2, <2>3 DEF Return, clear_cache
    <3>2. Store!Finish(Address)
        BY <1>1, <2>3, <3>1, FinishIs
    <3>. QED BY <1>1, <2>1, <3>1, <3>2 DEF Store!Erase, Store!Next, Store!Zeros, ZeroCache
  <2>. QED BY <1>2, <2>2, <2>3 DEF EraseSector
<1>3. CASE pc = "erase"
  <2>1. pc' \in {"erase", "data"} /\ UNCHANGED <<cache, block>>
      BY <1>3 DEF EraseSector
  <2>2. state = "consolidating" /\ state' = "consolidating"
      BY <1>3, <2>1 DEF state
  <2>. QED BY <1>1, <2>1, <2>2 DEF Store!Consolidate, Store!Next
<1>. QED BY <1>2, <1>3 DEF EraseSector

(* Erasing or consolidating gives up: a consolidation at init clears the     *)
(* cache.                                                                    *)
LEMMA StoreGivesUp ==
    ASSUME Sound, NEW addr, Return("FAILED", addr), UNCHANGED store, Faults # {},
           pc \in {"erase", "wipe", "data", "sum"}
    PROVE  Store!Next
<1>1. Store!Finish(Address) /\ Store!Finish({})
    BY FinishIs
<1>2. Store!Changes(Address, Address) /\ Store!Changes({}, Address)
    BY Unchanged
<1>3. result' = "FAILED"
    BY DEF Return, Relock
<1>4. CASE pc = "wipe"
  <2>1. state = "erasing" /\ cache' = ZeroCache
      BY <1>4 DEF state, Return, clear_cache
  <2>. QED BY <1>1, <1>2, <2>1 DEF Store!Erase, Store!Next, Store!Zeros, ZeroCache
<1>5. CASE pc # "wipe" /\ block = {}
  <2>1. state = "consolidating" /\ cache' = ZeroCache
      BY <1>5 DEF state, Return, clear_cache, ofInit
  <2>. QED BY <1>1, <1>2, <1>3, <1>5, <2>1 DEF Store!Consolidate, Store!Next, Store!Zeros, ZeroCache
<1>6. CASE pc # "wipe" /\ block # {}
  <2>1. state = "consolidating" /\ cache' = cache
      BY <1>6 DEF state, Return, ofInit
  <2>. QED BY <1>1, <1>2, <2>1 DEF Store!Consolidate, Store!Next
<1>. QED BY <1>4, <1>5, <1>6

(* A word of the data, of which a restart sees nothing.                    *)
LEMMA StoreData ==
    ASSUME Sound, WriteData
    PROVE  Store!Consolidate
<1>1. sum = NoSum /\ UNCHANGED <<sum, log, cache, block>> /\ pc = "data" /\ pc' \in {"data", "sum"}
    BY DEF WriteData, Sound, IInv, SumInv
<1>2. NoSum.words # HASH_WORDS
    BY Geometry DEF NoSum
<1>3. read_consolidated = ZeroCache /\ read_consolidated' = ZeroCache
    BY <1>1, <1>2 DEF read_consolidated
<1>4. Recovered' = Recovered
    BY <1>1, <1>3 DEF Recovered, playback_log
<1>5. state = "consolidating" /\ state' = "consolidating"
    BY <1>1 DEF state
<1>6. Store!Changes(Address, Address)
    BY <1>4, ChangesIs DEF Changed
<1>. QED BY <1>1, <1>5, <1>6 DEF Store!Consolidate

(* A word of the checksum, of which the last makes the cache what is       *)
(* found.                                                                  *)
LEMMA StoreSum ==
    ASSUME Sound, WriteSum
    PROVE  Store!Consolidate
<1>1. /\ pc = "sum" /\ data = cache /\ sum' = [of |-> cache, words |-> next]
      /\ UNCHANGED <<data, log>> /\ log \in LogT /\ Erased(log, 1) /\ cache \in Cache
      /\ next \in Nat /\ next <= HASH_WORDS /\ HASH_WORDS \in Nat
    BY Geometry DEF WriteSum, Sound, IInv, Types, NextInv, SumInv, LogInv
<1>2. /\ read_consolidated' \in Cache
      /\ read_consolidated' = IF next = HASH_WORDS THEN cache ELSE ZeroCache
    BY <1>1, Geometry DEF read_consolidated
<1>3. Recovered' = read_consolidated'
  <2>1. \A c \in Cache : Playback(log, Zero)[1][c] = [ok |-> TRUE, cache |-> c, next |-> 1]
      BY <1>1, ErasedIsRead
  <2>2. ASSUME NEW c \in Cache PROVE Playback(log, Zero)[1][c].cache = c
    <3>1. [ok |-> TRUE, cache |-> c, next |-> 1].cache = c
        OBVIOUS
    <3>. QED BY <2>1, <3>1
  <2>. QED BY <1>1, <1>2, <2>2 DEF Recovered, playback_log
<1>4. Store!Changes(Address, Address)
  <2>1. \A x \in Address : Recovered'[x] = cache[x] \/ Recovered'[x] = 0
      BY <1>2, <1>3 DEF ZeroCache
  <2>. QED BY <2>1, ChangesIs DEF Changed
<1>5. state = "consolidating"
    BY <1>1 DEF state
<1>6. CASE UNCHANGED <<cache, write_address, unlocked, pc, todo, locks, block, result>>
  <2>1. state' = "consolidating"
      BY <1>1, <1>6 DEF state
  <2>. QED BY <1>4, <1>5, <1>6, <2>1 DEF Store!Consolidate
<1>7. CASE next = HASH_WORDS /\ Return("CONSOLIDATED", 1)
  <2>1. cache' = cache
      BY <1>1, <1>7 DEF Return
  <2>2. Store!Finish(Address)
      BY <1>2, <1>3, <1>7, <2>1, FinishIs
  <2>. QED BY <1>4, <1>5, <2>1, <2>2 DEF Store!Consolidate
<1>8. next < HASH_WORDS \/ next = HASH_WORDS
    BY <1>1
<1>. QED BY <1>6, <1>7, <1>8 DEF WriteSum

(* Every step is one of the persistent memory or changes nothing of it.    *)
LEMMA StoreStep ==
    ASSUME OneSector, OneWordEntries, Sound, [Next]_vars
    PROVE  [Store!Next]_(Store!svars)
<1>1. CASE UNCHANGED vars
  <2>1. UNCHANGED store /\ UNCHANGED <<pc, cache, block, result>>
      BY <1>1 DEF vars
  <2>2. Recovered' = Recovered /\ state' = state
      BY <2>1, SameStoreRead DEF state
  <2>. QED BY <2>1, <2>2 DEF Store!svars
<1>2. ASSUME NEW a \in Address, NEW v \in Blocks, WriteSame(a, v) \/ Write(a, v)
      PROVE  Store!Next
    BY <1>2, StoreWrite DEF Store!Next
<1>3. CASE PowerLoss
  <2>1. state' = "off" /\ cache' = ZeroCache /\ block' = {} /\ Recovered' = Recovered
      BY <1>3, SameStoreRead DEF PowerLoss, state, clear_cache
  <2>. QED BY <2>1 DEF Store!PowerLoss, Store!Next, Store!Zeros, ZeroCache
<1>4. CASE wear_leveling_init
    BY <1>4, StoreRestart DEF Store!Next
<1>5. CASE InitFails
  <2>1. /\ state = "off" /\ state' = "idle" /\ cache' = ZeroCache /\ block' = block
        /\ Recovered' = Recovered /\ Faults # {}
      BY <1>5, SameStoreRead DEF InitFails, state, clear_cache
  <2>. QED BY <2>1 DEF Store!Restart, Store!Next, Store!Zeros, ZeroCache
<1>6. CASE EraseCall
  <2>1. pc = "idle" /\ state = "idle" /\ UNCHANGED <<cache, block>> /\ UNCHANGED store
      BY <1>6 DEF EraseCall, state
  <2>2. CASE pc' = "wipe"
    <3>1. state' = "erasing"
        BY <2>2 DEF state
    <3>. QED BY <2>1, <3>1, Unchanged DEF Store!Erase, Store!Next
  <2>3. CASE "unlock" \in Faults /\ result' = "FAILED" /\ pc' = pc
    <3>1. state' = state /\ Recovered' = Recovered /\ cache' \in [Address -> Byte]
        BY <2>1, <2>3, SameStoreRead DEF state, Sound, IInv, Types, Cache
    <3>. QED BY <2>1, <2>3, <3>1 DEF Store!Write, Store!Next
  <2>. QED BY <1>6, <2>2, <2>3 DEF EraseCall
<1>7. CASE AppendWord
    BY <1>7, StoreAppend DEF Store!Next
<1>8. CASE AppendFails
    BY <1>8, StoreAppendFails DEF Store!Next
<1>9. CASE EraseSector
    BY <1>9, StoreErase
<1>10. CASE EraseFails
    BY <1>10, StoreGivesUp DEF EraseFails
<1>11. CASE WriteData
    BY <1>11, StoreData DEF Store!Next
<1>12. CASE WriteSum
    BY <1>12, StoreSum DEF Store!Next
<1>13. CASE ConsolidationFails
  <2>1. Faults # {}
      BY <1>13 DEF ConsolidationFails, Sound, StoredInv
  <2>. QED BY <1>13, <2>1, StoreGivesUp DEF ConsolidationFails
<1>. QED BY <1>1, <1>2, <1>3, <1>4, <1>5, <1>6, <1>7, <1>8, <1>9, <1>10, <1>11, <1>12,
            <1>13 DEF Next

(* When every entry is one word, as with a backing store of 8-byte words,  *)
(* wear leveling implements the persistent memory of EepromStore, whatever *)
(* calls of the backing store fail and wherever power is lost.             *)
THEOREM StoresAsPromised ==
    ASSUME OneSector, OneWordEntries
    PROVE  Spec => ImplementsStore
<1>1. Init => StepInv
  <2>1. SUFFICES ASSUME Init PROVE StepInv
      OBVIOUS
  <2>2. Erased(log, 1)
      BY <2>1 DEF Init, Erased
  <2>. QED BY <2>1, <2>2, EmptyFits DEF Init, StepInv
<1>2. IInv /\ StepInv /\ [Next]_vars => StepInv'
    BY StepStep
<1>3. Spec => []IInv
    BY WearInv DEF WholeEntries
<1>4. Spec => [](Faults = {} => StoredInv)
  <2>1. CASE Faults = {}
    <3>1. Spec => [](IInv /\ StoredInv)
        BY <2>1, WearStored DEF NoFailures
    <3>2. IInv /\ StoredInv => (Faults = {} => StoredInv)
        OBVIOUS
    <3>. QED BY <3>1, <3>2, PTL
  <2>2. CASE Faults # {}
    <3>1. Faults = {} => StoredInv
        BY <2>2
    <3>. QED BY <3>1, PTL
  <2>. QED BY <2>1, <2>2
<1>5. Init => Store!Init
  <2>1. SUFFICES ASSUME Init PROVE Store!Init
      OBVIOUS
  <2>2. Recovered = ZeroCache
    <3>1. log \in LogT /\ Erased(log, 1) /\ ZeroCache \in Cache
        BY <2>1, Geometry DEF Init, Erased, LogT
    <3>2. Playback(log, Zero)[1][ZeroCache] = [ok |-> TRUE, cache |-> ZeroCache, next |-> 1]
        BY <3>1, ErasedIsRead
    <3>3. read_consolidated = ZeroCache
        BY <2>1 DEF Init, read_consolidated
    <3>. QED BY <3>2, <3>3 DEF Recovered, playback_log
  <2>3. state = "off"
      BY <2>1 DEF Init, state
  <2>. QED BY <2>1, <2>2, <2>3 DEF Init, Store!Init, Store!Zeros, ZeroCache
<1>6. Sound /\ [Next]_vars => [Store!Next]_(Store!svars)
    BY StoreStep
<1>. QED BY <1>1, <1>2, <1>3, <1>4, <1>5, <1>6, PTL DEF Spec, Sound, ImplementsStore, Store!Spec

=============================================================================
