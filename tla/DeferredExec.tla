---------------------------- MODULE DeferredExec ----------------------------
(* Deferred execution (quantum/deferred_exec.c): a table of callbacks with    *)
(* their trigger times, looked through once per millisecond.  The table may be *)
(* changed by the main loop between two passes and by every callback while    *)
(* a pass is under way.                                                        *)
EXTENDS Integers

CONSTANTS
    SLOTS,     \* table_count
    TOKENS,    \* values of a deferred_token: 256, fewer in the model
    TIMES,     \* values of the timer: 2^32, fewer in the model
    Delay,     \* bound: the delays that are asked for or returned
    MaxGap,    \* bound: ms between two passes
    Replace    \* a callback that cancelled itself may defer something

Slot  == 1..SLOTS
Byte  == 0..(TOKENS - 1)
Token == 1..(TOKENS - 1)
Time  == 0..(TIMES - 1)

INVALID_DEFERRED_TOKEN == 0

(* The loop comes round often enough for the callbacks that repeat, and no    *)
(* difference of times leaves the signed half of the timer's range.           *)
ASSUME DeferredAssumption ==
    /\ SLOTS \in Nat \ {0} /\ TOKENS \in Nat \ {0, 1} /\ TIMES \in Nat \ {0, 1}
    /\ MaxGap \in Nat \ {0} /\ 2 * MaxGap < TIMES /\ Replace \in BOOLEAN
    /\ \A d \in Delay : d \in Nat /\ MaxGap <= d /\ 2 * (2 * d + MaxGap) < TIMES

VARIABLES
    table,                 \* token and trigger_time of every slot
    current_token,         \* of the file: shared by all tables
    now,                   \* timer_read32()
    last_execution_time,   \* of the table; `now' of the pass under way
    pc,                    \* "idle", "task" or "callback"
    entry,                 \* the slot the pass looks at
    own                    \* history: the slot still holds what was invoked

vars == <<table, current_token, now, last_execution_time, pc, entry, own>>

Free == [token |-> INVALID_DEFERRED_TOKEN, trigger_time |-> 0]

Init ==
    /\ table = [s \in Slot |-> Free] /\ current_token = 0
    /\ now = 0 /\ last_execution_time = 0
    /\ pc = "idle" /\ entry = 1 /\ own = FALSE

(* (int32_t)TIMER_DIFF_32(a, b)                                               *)
TIMER_DIFF(a, b) ==
    LET d == (a - b) % TIMES IN IF 2 * d >= TIMES THEN d - TIMES ELSE d

After(d) == (now + d) % TIMES

-----------------------------------------------------------------------------
(* The API, called by the main loop or by a callback.                         *)
Calling == pc \in {"idle", "callback"}

(* mutant: only the invalid token is avoided *)
NotInvalid(token) == token # INVALID_DEFERRED_TOKEN
token_can_be_used(token) ==
    token # INVALID_DEFERRED_TOKEN /\ \A s \in Slot : table[s].token # token

(* The tokens from the next one round to the current one, in turn.            *)
Candidate(n) == (current_token + n) % TOKENS

allocate_token(token) ==
    \/ \E n \in 1..TOKENS :
          /\ token = Candidate(n) /\ token_can_be_used(token)
          /\ \A m \in 1..(n - 1) : ~token_can_be_used(Candidate(m))
          /\ current_token' = token
    \/ /\ \A n \in 1..TOKENS : ~token_can_be_used(Candidate(n))
       /\ token = INVALID_DEFERRED_TOKEN
       /\ current_token' = Candidate(1)

FirstFree(s) ==
    /\ table[s].token = INVALID_DEFERRED_TOKEN
    /\ \A r \in 1..(s - 1) : table[r].token # INVALID_DEFERRED_TOKEN

defer_exec(d) ==
    /\ Calling /\ (pc = "callback" => own \/ Replace)
    /\ \E s \in Slot, token \in Byte :
          /\ FirstFree(s) /\ allocate_token(token)
          /\ table' = IF token = INVALID_DEFERRED_TOKEN THEN table
                      ELSE [table EXCEPT ![s] = [token |-> token, trigger_time |-> After(d)]]
    /\ UNCHANGED <<now, last_execution_time, pc, entry, own>>

(* Another table takes a token, which it needs only to find free itself.      *)
OtherTableDefers ==
    /\ Calling /\ current_token' \in Byte \ {current_token}
    /\ UNCHANGED <<table, now, last_execution_time, pc, entry, own>>

extend_deferred_exec(s, d) ==
    /\ Calling /\ table[s].token # INVALID_DEFERRED_TOKEN
    /\ table' = [table EXCEPT ![s].trigger_time = After(d)]
    /\ UNCHANGED <<current_token, now, last_execution_time, pc, entry, own>>

cancel_deferred_exec(s) ==
    /\ Calling /\ table[s].token # INVALID_DEFERRED_TOKEN
    /\ table' = [table EXCEPT ![s] = Free]
    /\ own' = (own /\ s # entry)
    /\ UNCHANGED <<current_token, now, last_execution_time, pc, entry>>

-----------------------------------------------------------------------------
(* deferred_exec_advanced_task()                                              *)
(* mutant: the times are compared as they are *)
LaterNumber == now > last_execution_time
NewMillisecond == TIMER_DIFF(now, last_execution_time) > 0

BeginPass ==
    /\ pc = "idle" /\ NewMillisecond
    /\ last_execution_time' = now /\ pc' = "task" /\ entry' = 1
    /\ UNCHANGED <<table, current_token, now, own>>

(* mutant: one millisecond early *)
AlmostDue(s) == TIMER_DIFF(table[s].trigger_time, last_execution_time) <= 1
Triggers(s) == TIMER_DIFF(table[s].trigger_time, last_execution_time) <= 0

ToRun(s) == s >= entry /\ table[s].token # INVALID_DEFERRED_TOKEN /\ Triggers(s)

Invoke ==
    /\ pc = "task"
    /\ \E s \in Slot :
          /\ ToRun(s) /\ \A r \in 1..(s - 1) : ~ToRun(r)
          /\ entry' = s /\ pc' = "callback" /\ own' = TRUE
    /\ UNCHANGED <<table, current_token, now, last_execution_time>>

EndPass ==
    /\ pc = "task" /\ \A s \in Slot : ~ToRun(s)
    /\ pc' = "idle" /\ entry' = 1
    /\ UNCHANGED <<table, current_token, now, last_execution_time, own>>

(* The callback returns d; what its slot holds by now is requeued or freed.   *)
(* mutant: the delay counts from when the callback ran *)
FromNow(d) == [table EXCEPT ![entry].trigger_time = After(d)]
Requeued(d) == [table EXCEPT ![entry].trigger_time = (@ + d) % TIMES]

CallbackReturns(d) ==
    /\ pc = "callback"
    /\ table' = IF d > 0 THEN Requeued(d) ELSE [table EXCEPT ![entry] = Free]
    /\ pc' = "task" /\ entry' = entry + 1 /\ own' = FALSE
    /\ UNCHANGED <<current_token, now, last_execution_time>>

Tick ==
    /\ TIMER_DIFF(now, last_execution_time) < MaxGap
    /\ now' = After(1)
    /\ UNCHANGED <<table, current_token, last_execution_time, pc, entry, own>>

Returns == \E d \in Delay \cup {0} : CallbackReturns(d)

Next ==
    \/ \E d \in Delay : defer_exec(d) \/ \E s \in Slot : extend_deferred_exec(s, d)
    \/ \E s \in Slot : cancel_deferred_exec(s)
    \/ OtherTableDefers \/ BeginPass \/ Invoke \/ EndPass \/ Returns \/ Tick

(* The timer runs, the main loop comes round, and callbacks return.           *)
Spec ==
    /\ Init /\ [][Next]_vars
    /\ WF_vars(Tick) /\ WF_vars(BeginPass \/ Invoke \/ EndPass) /\ WF_vars(Returns)

-----------------------------------------------------------------------------
(* Every variable has its type.                                               *)
TypeOK ==
    /\ table \in [Slot -> [token : Byte, trigger_time : Time]]
    /\ current_token \in Byte /\ now \in Time /\ last_execution_time \in Time
    /\ pc \in {"idle", "task", "callback"} /\ entry \in 1..(SLOTS + 1)
    /\ own \in BOOLEAN

Used == {s \in Slot : table[s].token # INVALID_DEFERRED_TOKEN}

(* "a token usable for extension/cancellation" (deferred_exec.h:49) names one *)
(* entry, although tokens are reused after a while and shared with tables     *)
(* that do not look at each other's.                                          *)
TokensUnique == \A s, r \in Used : table[s].token = table[r].token => s = r

DueIn(s) == TIMER_DIFF(table[s].trigger_time, now)

(* An entry that is due is invoked in the end, unless it is cancelled or      *)
(* extended before.                                                           *)
Due(s) == s \in Used /\ DueIn(s) <= 0
DueRuns == \A s \in Slot : Due(s) ~> (own /\ entry = s) \/ ~Due(s)

-----------------------------------------------------------------------------
(* The table implements a queue of timers as long as no callback that has     *)
(* cancelled its own entry defers another one.                                *)
SlotOf(t) == CHOOSE s \in Used : table[s].token = t

Queue == INSTANCE TimerQueue WITH
    pending <- [t \in {table[s].token : s \in Used} |-> DueIn(SlotOf(t))],
    running <- IF own THEN table[entry].token ELSE INVALID_DEFERRED_TOKEN
ImplementsQueue == Queue!Spec
=============================================================================
