----------------------------- MODULE EepromStore ----------------------------
(* What wear leveling promises its users: a memory that survives the loss of *)
(* power.  A byte of a write that was cut short has its old or its new       *)
(* value, and no other byte changes.  Only a consolidation, or an erase, may *)
(* lose bytes, to zero.  A write that succeeds is stored even when earlier   *)
(* calls have failed.                                                        *)
EXTENDS Naturals

CONSTANTS Address, Byte,
          MayFail   \* TRUE: calls may fail, and then the two copies differ

VARIABLES
    state,    \* "off", "idle", "writing", "consolidating" or "erasing"
    mem,      \* what reads return
    stored,   \* what a restart would find
    block,    \* the addresses of the running write
    ok        \* FALSE when the last call returned FAILED

svars == <<state, mem, stored, block, ok>>

Zeros == [x \in Address |-> 0]

Init == state = "off" /\ mem = Zeros /\ stored = Zeros /\ block = {} /\ ok = TRUE

PowerLoss ==
    /\ state' = "off" /\ mem' = Zeros /\ block' = {} /\ UNCHANGED stored

Restart ==
    /\ state = "off" /\ UNCHANGED <<stored, block>>
    /\ \/ mem' = stored /\ state' \in {"idle", "consolidating"}
       \/ MayFail /\ mem' = Zeros /\ state' = "idle"

(* A write that cannot start has changed what reads return all the same, and *)
(* one of what reads return already succeeds without storing anything.       *)
Write ==
    /\ state = "idle" /\ UNCHANGED stored
    /\ mem' \in [Address -> Byte]
    /\ \/ state' = "writing" /\ \A x \in Address \ block' : mem'[x] = mem[x]
       \/ MayFail /\ ~ok' /\ UNCHANGED <<state, block>>
       \/ ok' /\ UNCHANGED <<state, mem, block>>

(* Bytes of lost may become zero, bytes of kept what reads return; the rest  *)
(* stays.  stored is bound once: for wear leveling it is a whole playback.   *)
Changes(kept, lost) ==
    \E old \in {stored}, new \in {stored'} : \A x \in Address :
        \/ new[x] = old[x]
        \/ x \in kept /\ new[x] = mem[x]
        \/ x \in lost /\ new[x] = 0

Stored(done) == \E new \in {stored'} : \A x \in done : new[x] = mem'[x]

Finish(done) ==
    /\ state' = "idle" /\ block' = {}
    /\ (ok' /\ Stored(done)) \/ (MayFail /\ ~ok')

Commit ==
    /\ state = "writing" /\ UNCHANGED mem /\ Changes(block, {})
    /\ \/ state' \in {"writing", "consolidating"} /\ UNCHANGED block
       \/ Finish(block)

Consolidate ==
    /\ state = "consolidating" /\ Changes(Address, Address)
    /\ \/ state' = "consolidating" /\ UNCHANGED <<mem, block>>
       \/ UNCHANGED mem /\ Finish(Address)
       \/ MayFail /\ block = {} /\ mem' = Zeros /\ ~ok' /\ Finish({})

Erase ==
    /\ state \in {"idle", "erasing"} /\ Changes({}, Address)
    /\ \/ state' = "erasing" /\ UNCHANGED <<mem, block>>
       \/ mem' = Zeros /\ Finish(Address)

Next == PowerLoss \/ Restart \/ Write \/ Commit \/ Consolidate \/ Erase

Spec == Init /\ [][Next]_svars
=============================================================================
