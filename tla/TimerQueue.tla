------------------------------ MODULE TimerQueue ------------------------------
(* What deferred execution promises its users: an entry is pending until it   *)
(* is cancelled or its callback ends it; the callback runs when the time has   *)
(* come and never before; "the returned delay will be applied to the intended  *)
(* trigger time" (docs/custom_quantum_functions.md:308); and nothing but the   *)
(* calls about an entry touches it.                                            *)
EXTENDS Integers

CONSTANTS Token,   \* names of entries: not 0
          Delay    \* what a caller may ask for: more than 0

NoToken == 0       \* names no entry

VARIABLES
    pending,   \* the entries, and in how many ms each is due
    running    \* the entry whose callback runs, NoToken when it is gone
               \* or when none runs
qvars == <<pending, running>>

Init == pending = [t \in {} |-> 0] /\ running = NoToken

Without(t) == [u \in DOMAIN pending \ {t} |-> pending[u]]

Tick == pending' = [t \in DOMAIN pending |-> pending[t] - 1] /\ UNCHANGED running

Defer(d) ==
    \E t \in Token \ DOMAIN pending :
        /\ pending' = [u \in DOMAIN pending \cup {t} |-> IF u = t THEN d ELSE pending[u]]
        /\ UNCHANGED running

Extend(t, d) == pending' = [pending EXCEPT ![t] = d] /\ UNCHANGED running

Cancel(t) ==
    /\ pending' = Without(t)
    /\ running' = IF running = t THEN NoToken ELSE running

Run(t) ==
    /\ running = NoToken /\ pending[t] <= 0
    /\ running' = t /\ UNCHANGED pending

Return(d) ==
    /\ running # NoToken /\ running' = NoToken
    /\ pending' = IF d = 0 THEN Without(running) ELSE [pending EXCEPT ![running] = @ + d]

Next ==
    \/ Tick
    \/ \E d \in Delay : Defer(d)
    \/ \E t \in DOMAIN pending : Cancel(t) \/ Run(t) \/ \E d \in Delay : Extend(t, d)
    \/ \E d \in Delay \cup {0} : Return(d)

Spec == Init /\ [][Next]_qvars
=============================================================================
