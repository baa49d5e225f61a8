---------------------------- MODULE WearLeveling ----------------------------
(* Wear-leveled EEPROM emulation (quantum/wear_leveling/wear_leveling.c): a  *)
(* consolidated copy with its checksum, and a write log that is played back  *)
(* at power-up.  A step is one call into the backing store, so that power    *)
(* can be lost between any two of them.                                      *)
EXTENDS Integers, Sequences

CONSTANTS
    WRITE_SIZE,       \* BACKING_STORE_WRITE_SIZE: 2, 4 or 8 bytes
    LOGICAL_SIZE,     \* bytes of emulated EEPROM
    LOG_SLOTS,        \* words that fit between the checksum and the end
    BYTE,             \* values of a byte; 256, fewer in the model
    OPTIMIZED_LIMIT,  \* 64: one-byte entries address less than this
    WORD_LIMIT,       \* 16384: entries of a 0/1 word address less than this
    MULTIBYTE_MAX,    \* LOG_ENTRY_MULTIBYTE_MAX_BYTES: 5
    SECTORS,          \* erase units of the backing store
    SectorOf,         \* of every log slot, and of the checksum as slot 0
    Value,            \* bound: the bytes that are written
    MaxLength,        \* bound: the longest block written
    Faults            \* backing store calls that may fail

Address == 0..(LOGICAL_SIZE - 1)
Byte    == 0..(BYTE - 1)
Slot    == 1..LOG_SLOTS
Cache   == [Address -> Byte]
ZeroCache == [x \in Address |-> 0]
Zero    == [i \in 1..WRITE_SIZE |-> 0]     \* an erased word
HASH_WORDS == 8 \div WRITE_SIZE
(* mutant: the last word is forgotten *)
OneWordShort == LOGICAL_SIZE \div WRITE_SIZE - 1
DATA_WORDS == LOGICAL_SIZE \div WRITE_SIZE

ASSUME WearAssumption ==
    /\ WRITE_SIZE \in {2, 4, 8} /\ LOGICAL_SIZE \in Nat \ {0}
    /\ LOGICAL_SIZE % WRITE_SIZE = 0
    /\ LOG_SLOTS \in Nat \ {0} /\ BYTE \in Nat \ {0, 1} /\ LOGICAL_SIZE <= BYTE * BYTE
    /\ OPTIMIZED_LIMIT \in 0..64 /\ WORD_LIMIT \in 0..(64 * BYTE) /\ MULTIBYTE_MAX \in 1..5
    /\ SECTORS \in Nat \ {0} /\ SectorOf \in [0..LOG_SLOTS -> 1..SECTORS]
    /\ Value \subseteq Byte /\ MaxLength \in Nat \ {0}
    /\ Faults \subseteq {"init", "unlock", "lock", "erase", "write"}

VARIABLES
    data, sum, log,      \* the backing store: consolidated bytes, checksum, log
    cache,               \* wear_leveling.cache
    write_address,       \* wear_leveling.write_address, as a log slot
    unlocked,            \* wear_leveling.unlocked
    pc,                  \* where the running call is
    todo,                \* words of the running write still to append
    next,                \* next sector, data word or checksum word
    locks,               \* the running call locks the store when it returns
    block,               \* addresses the running write is about
    result               \* status of the last call, "none" while one runs

store == <<data, sum, log>>
vars  == <<store, cache, write_address, unlocked, pc, todo, next, locks, block, result>>

Overwrite(c, a, v) == [x \in Address |-> IF x - a \in 0..(Len(v) - 1) THEN v[x - a + 1] ELSE c[x]]

-----------------------------------------------------------------------------
(* Log entries.  raw8 is the 8-byte union, of which the words needed are     *)
(* written.                                                                  *)
WordsOf(raw8, n) == [w \in 1..n |-> SubSeq(raw8, WRITE_SIZE * (w - 1) + 1, WRITE_SIZE * w)]

MultibyteWords(l) == IF WRITE_SIZE = 2 /\ l <= 1 THEN 2 ELSE (3 + l + WRITE_SIZE - 1) \div WRITE_SIZE

(* mutant: the bytes of the address are swapped *)
AddressSwapped(a, v) ==
    WordsOf(<<8 * Len(v), a % BYTE, a \div BYTE>>
              \o [i \in 1..5 |-> IF i <= Len(v) THEN v[i] ELSE 0],
            MultibyteWords(Len(v)))
LOG_ENTRY_MAKE_MULTIBYTE(a, v) ==
    WordsOf(<<8 * Len(v), a \div BYTE, a % BYTE>>
              \o [i \in 1..5 |-> IF i <= Len(v) THEN v[i] ELSE 0],
            MultibyteWords(Len(v)))
LOG_ENTRY_MAKE_OPTIMIZED_64(a, b) == << <<64 + a, b>> >>
LOG_ENTRY_MAKE_WORD_01(a, b) == << <<128 + 32 * b + a \div (2 * BYTE), (a \div 2) % BYTE>> >>

(* wear_leveling_write_raw(): the words of a write, entry by entry.          *)
LogWords(a0, v) ==
    LET words[i \in 1..(Len(v) + 1)] ==
          LET a         == a0 + i - 1
              remaining == Len(v) - i + 1
              chunk     == IF remaining >= MULTIBYTE_MAX THEN MULTIBYTE_MAX ELSE remaining
          IN  IF remaining = 0 THEN <<>>
              ELSE IF /\ WRITE_SIZE = 2 /\ remaining >= 2 /\ a % 2 = 0 /\ a < WORD_LIMIT
                      /\ v[i] \in {0, 1} /\ v[i + 1] = 0
                   THEN LOG_ENTRY_MAKE_WORD_01(a, v[i]) \o words[i + 2]
              ELSE IF WRITE_SIZE = 2 /\ a < OPTIMIZED_LIMIT
                   THEN LOG_ENTRY_MAKE_OPTIMIZED_64(a, v[i]) \o words[i + 1]
              ELSE LOG_ENTRY_MAKE_MULTIBYTE(a, SubSeq(v, i, i + chunk - 1)) \o words[i + chunk]
    IN  words[1]

-----------------------------------------------------------------------------
(* wear_leveling_init(): what the store says after a restart.  outside is    *)
(* what a read past the end of the store returns.                            *)

(* mutant: the checksum is not compared *)
ChecksumIgnored == data

read_consolidated == IF sum.words = HASH_WORDS /\ sum.of = data THEN data ELSE ZeroCache

EndOfLog(lg, i) == lg[i] = Zero

MultibyteLength(raw) == (raw[1] \div 8) % 8
MultibyteValues(raw) == SubSeq(raw, 4, 3 + MultibyteLength(raw))

(* What the bytes of an entry say.  An entry of no known type is refused     *)
(* like one that is not inside the emulated EEPROM.                          *)
Decoded(raw) ==
    LET type           == raw[1] \div 64
        entry(n, a, v) == [words |-> n, address |-> a, value |-> v]
    IN  CASE type = 0 ->
               entry(MultibyteWords(MultibyteLength(raw)), BYTE * raw[2] + raw[3],
                     MultibyteValues(raw))
          [] type = 1 /\ WRITE_SIZE = 2 -> entry(1, raw[1] % 64, <<raw[2]>>)
          [] type = 2 /\ WRITE_SIZE = 2 ->
               entry(1, 2 * (BYTE * (raw[1] % 32) + raw[2]), <<(raw[1] \div 32) % 2, 0>>)
          [] OTHER -> entry(1, LOGICAL_SIZE, <<0>>)

Word(lg, outside, i) == IF i \in Slot THEN lg[i] ELSE outside
EntryAt(lg, outside, i) ==
    Decoded([b \in 1..8 |-> Word(lg, outside, i + (b - 1) \div WRITE_SIZE)
                                [((b - 1) % WRITE_SIZE) + 1]])
Inside(e) == e.address + Len(e.value) <= LOGICAL_SIZE

(* From slot i of a log lg, with the cache as it is when slot i is reached.  *)
Playback(lg, outside) ==
    LET play[i \in Nat] == [c \in Cache |->
          IF i \notin Slot \/ EndOfLog(lg, i)
          THEN [ok |-> TRUE, cache |-> c, next |-> i]
          ELSE LET e == EntryAt(lg, outside, i) IN
               IF Inside(e) THEN play[i + e.words][Overwrite(c, e.address, e.value)]
                            ELSE [ok |-> FALSE, cache |-> c, next |-> LOG_SLOTS + 1]]
    IN  play

playback_log(outside) == Playback(log, outside)[1][read_consolidated]

Recovered == playback_log(Zero).cache

-----------------------------------------------------------------------------
NoSum == [of |-> ZeroCache, words |-> 0]

Init ==
    /\ data = ZeroCache /\ sum = NoSum /\ log = [i \in Slot |-> Zero]
    /\ cache = ZeroCache /\ write_address = 1 /\ unlocked = FALSE
    /\ pc = "off" /\ todo = <<>> /\ next = 1 /\ locks = FALSE
    /\ block = {} /\ result = "none"

clear_cache == cache' = ZeroCache /\ write_address' = 1

PowerLoss ==
    /\ pc # "off" /\ pc' = "off"
    /\ clear_cache /\ unlocked' = FALSE
    /\ todo' = <<>> /\ next' = 1 /\ locks' = FALSE /\ block' = {} /\ result' = "none"
    /\ UNCHANGED store

(* mutant: the log is written from its start again after a restart *)
StartOfLog(p) == 1
(* mutant: the address is left where the last entry ended *)
PastTheEnd(p) == p.next
NewWriteAddress(p) == IF p.next > LOG_SLOTS THEN LOG_SLOTS + 1 ELSE p.next

(* Read, play back, and consolidate when the log is full or unreadable.      *)
wear_leveling_init ==
    /\ pc = "off"
    /\ \E outside \in {Zero, [i \in 1..WRITE_SIZE |-> BYTE - 1]} :
          LET p == playback_log(outside) IN
          /\ cache' = p.cache /\ write_address' = NewWriteAddress(p)
          /\ IF p.ok /\ p.next <= LOG_SLOTS
             THEN pc' = "idle" /\ result' = "SUCCESS"
             ELSE pc' = "erase" /\ UNCHANGED result
    /\ UNCHANGED <<store, unlocked, todo, next, locks, block>>

InitFails ==
    /\ pc = "off" /\ "init" \in Faults
    /\ clear_cache /\ pc' = "idle" /\ result' = "FAILED"
    /\ UNCHANGED <<store, unlocked, todo, next, locks, block>>

-----------------------------------------------------------------------------
(* wear_leveling_lock() at the end of a call: only when the call unlocked.   *)
(* Its failure makes a write or an erase fail, not a consolidation at init.  *)
ofInit == block = {} /\ pc # "wipe"

(* mutant: an error path forgets to lock *)
RelockOnSuccess(s) ==
    /\ unlocked' = IF locks /\ s # "FAILED" THEN FALSE ELSE unlocked
    /\ result' = s

Relock(s) ==
    \/ /\ unlocked' = IF locks THEN FALSE ELSE unlocked
       /\ result' = s
    \/ /\ locks /\ "lock" \in Faults
       /\ unlocked' = TRUE /\ result' = IF ofInit THEN s ELSE "FAILED"

Return(s, addr) ==
    /\ Relock(s)
    /\ IF pc = "wipe" \/ (ofInit /\ s = "FAILED")
       THEN clear_cache
       ELSE write_address' = addr /\ UNCHANGED cache
    /\ pc' = "idle" /\ todo' = <<>> /\ next' = 1 /\ locks' = FALSE /\ block' = {}

Blocks == UNION {[1..l -> Value] : l \in 1..MaxLength}

(* A block that equals the cache is not written again.                       *)
WriteSame(a, v) ==
    /\ pc = "idle" /\ a + Len(v) <= LOGICAL_SIZE /\ Overwrite(cache, a, v) = cache
    /\ result' = "SUCCESS"
    /\ UNCHANGED <<store, cache, write_address, unlocked, pc, todo, next, locks, block>>

Write(a, v) ==
    /\ pc = "idle" /\ a + Len(v) <= LOGICAL_SIZE /\ Overwrite(cache, a, v) # cache
    /\ cache' = Overwrite(cache, a, v)
    /\ \/ /\ unlocked' = TRUE /\ locks' = ~unlocked
          /\ pc' = "append" /\ todo' = LogWords(a, v)
          /\ block' = a..(a + Len(v) - 1) /\ result' = "none"
       \/ /\ ~unlocked /\ "unlock" \in Faults
          /\ result' = "FAILED" /\ UNCHANGED <<unlocked, locks, pc, todo, block>>
    /\ UNCHANGED <<store, write_address, next>>

EraseCall ==
    /\ pc = "idle"
    /\ \/ /\ unlocked' = TRUE /\ locks' = ~unlocked
          /\ pc' = "wipe" /\ result' = "none"
       \/ /\ ~unlocked /\ "unlock" \in Faults
          /\ result' = "FAILED" /\ UNCHANGED <<unlocked, locks, pc>>
    /\ UNCHANGED <<store, cache, write_address, todo, next, block>>

-----------------------------------------------------------------------------
(* wear_leveling_append_raw().  The store takes a word at an erased slot; a  *)
(* word past its end goes somewhere else.                                    *)
AppendWord ==
    /\ pc = "append"
    /\ write_address \in Slot => log[write_address] = Zero
    /\ log' = [i \in Slot |-> IF i = write_address THEN Head(todo) ELSE log[i]]
    /\ IF write_address >= LOG_SLOTS
       THEN /\ pc' = "erase" /\ write_address' = LOG_SLOTS + 1
            /\ todo' = <<>> /\ UNCHANGED <<cache, unlocked, next, locks, block, result>>
       ELSE IF Len(todo) = 1
       THEN Return("SUCCESS", write_address + 1)
       ELSE /\ write_address' = write_address + 1 /\ todo' = Tail(todo)
            /\ UNCHANGED <<cache, unlocked, pc, next, locks, block, result>>
    /\ UNCHANGED <<data, sum>>

AppendFails ==
    /\ pc = "append"
    /\ "write" \in Faults \/ (write_address \in Slot /\ log[write_address] # Zero)
    /\ Return("FAILED", write_address) /\ UNCHANGED store

(* backing_store_erase(), sector by sector; sector 1 starts with the data.   *)
EraseSector ==
    /\ pc \in {"erase", "wipe"}
    /\ data' = IF next = 1 THEN ZeroCache ELSE data
    /\ sum'  = IF next = SectorOf[0] THEN NoSum ELSE sum
    /\ log'  = [i \in Slot |-> IF next = SectorOf[i] THEN Zero ELSE log[i]]
    /\ \/ /\ next < SECTORS /\ next' = next + 1
          /\ UNCHANGED <<cache, write_address, unlocked, pc, todo, locks, block, result>>
       \/ next = SECTORS /\ pc = "wipe" /\ Return("SUCCESS", 1)
       \/ /\ next = SECTORS /\ pc = "erase"
          /\ pc' = "data" /\ next' = 1
          /\ \/ unlocked' = TRUE /\ locks' = (locks \/ ~unlocked)
             \/ ~unlocked /\ "unlock" \in Faults /\ UNCHANGED <<unlocked, locks>>
          /\ UNCHANGED <<cache, write_address, todo, block, result>>

EraseFails ==
    /\ pc \in {"erase", "wipe"} /\ "erase" \in Faults
    /\ Return("FAILED", write_address) /\ UNCHANGED store

(* wear_leveling_write_consolidated(): the data, then the checksum.          *)
WriteData ==
    /\ pc = "data" /\ unlocked
    /\ data' = [x \in Address |-> IF x \div WRITE_SIZE = next - 1 THEN cache[x] ELSE data[x]]
    /\ IF next < DATA_WORDS THEN next' = next + 1 /\ UNCHANGED pc
                            ELSE next' = 1 /\ pc' = "sum"
    /\ UNCHANGED <<sum, log, cache, write_address, unlocked, todo, locks, block, result>>

WriteSum ==
    /\ pc = "sum" /\ unlocked
    /\ sum' = [of |-> cache, words |-> next]
    /\ IF next < HASH_WORDS
       THEN /\ next' = next + 1
            /\ UNCHANGED <<cache, write_address, unlocked, pc, todo, locks, block, result>>
       ELSE Return("CONSOLIDATED", 1)
    /\ UNCHANGED <<data, log>>

ConsolidationFails ==
    /\ pc \in {"data", "sum"} /\ ("write" \in Faults \/ ~unlocked)
    /\ Return("FAILED", 1) /\ UNCHANGED store

Next ==
    \/ PowerLoss \/ wear_leveling_init \/ InitFails
    \/ \E a \in Address, v \in Blocks : WriteSame(a, v) \/ Write(a, v)
    \/ EraseCall \/ AppendWord \/ AppendFails \/ EraseSector \/ EraseFails
    \/ WriteData \/ WriteSum \/ ConsolidationFails

Spec == Init /\ [][Next]_vars

-----------------------------------------------------------------------------
(* Every variable has its type.                                              *)
TypeOK ==
    /\ data \in Cache /\ sum \in [of : Cache, words : 0..HASH_WORDS]
    /\ DOMAIN log = Slot /\ \A i \in Slot : Len(log[i]) = WRITE_SIZE
    /\ cache \in Cache /\ write_address \in 1..(LOG_SLOTS + 1)
    /\ unlocked \in BOOLEAN /\ locks \in BOOLEAN
    /\ pc \in {"off", "idle", "append", "erase", "data", "sum", "wipe"}
    /\ (pc = "append") = (todo # <<>>)
    /\ next \in Nat /\ block \in SUBSET Address
    /\ result \in {"none", "FAILED", "SUCCESS", "CONSOLIDATED"}

(* "any subsequent reads are capable of returning the latest data"           *)
(* (wear_leveling.c:41): between two calls a restart would find exactly what *)
(* reads return now, however often power was lost before.                    *)
IdleMeansStored == pc = "idle" => Recovered = cache

(* The checksum is there "to detect and guard against any data corruption"   *)
(* (wear_leveling.c:82): while the erased store is filled again, a restart   *)
(* finds all of the new data or none of it.                                  *)
AllOrNothing == pc \in {"data", "sum"} => Recovered \in {ZeroCache, cache}

(* "Attempted write at index which isn't empty." (backing_mocks.hpp:48): the *)
(* log is only ever written at an erased word.                               *)
WritesOnlyErased ==
    pc = "append" /\ write_address \in Slot => log[write_address] = Zero

(* Whatever fails, no call leaves the backing store unlocked ...             *)
LockedBetweenCalls == pc \in {"off", "idle"} => ~unlocked

(* ... and no entry of the log is taken for a corrupted one, which would     *)
(* have the next restart give up the rest of the log.                        *)
LogParses == playback_log(Zero).ok

(* A call that returns WEAR_LEVELING_SUCCESS, "Invocation succeeded"         *)
(* (wear_leveling.h:12), has left nothing unwritten of its block.            *)
Persists(x) == Recovered'[x] = cache'[x]

SuccessMeansPersistent ==
    [][/\ pc = "append" /\ result' = "SUCCESS" => \A x \in block : Persists(x)
       /\ \A a \in Address, v \in Blocks :
             WriteSame(a, v) => \A x \in a..(a + Len(v) - 1) : Persists(x)]_vars

-----------------------------------------------------------------------------
(* What those hold under.  The log is in one erase unit: an erase that stops *)
(* before the log is done leaves all of it.  Every entry is one word, or no  *)
(* append fails in the middle of one.  Nothing but locking fails.            *)
OneSector      == \A i, j \in Slot : SectorOf[i] = SectorOf[j]
OneWordEntries == 3 + MULTIBYTE_MAX <= WRITE_SIZE
WholeEntries   == "write" \notin Faults \/ OneWordEntries
NoFailures     == Faults \subseteq {"lock"}

-----------------------------------------------------------------------------
(* With one word per entry the module implements a persistent memory,        *)
(* whatever calls of the backing store, reads aside, fail.                   *)
state == CASE pc = "off"                      -> "off"
           [] pc = "idle"                     -> "idle"
           [] pc = "append"                   -> "writing"
           [] pc \in {"erase", "data", "sum"} -> "consolidating"
           [] pc = "wipe"                     -> "erasing"

Store == INSTANCE EepromStore WITH mem <- cache, stored <- Recovered,
                                   ok <- result # "FAILED", MayFail <- Faults # {}
ImplementsStore == Store!Spec
=============================================================================
