------------------------------ MODULE KeyStream -----------------------------
(* What the tap/hold machine promises about each key, whatever it decides:   *)
(* the host sees the key's events in the order the matrix saw them, and none *)
(* is lost as long as the machine has room for what is pending.  Events of   *)
(* different keys may overtake each other here.                              *)
EXTENDS Naturals, Sequences

CONSTANTS
    Key,
    Capacity  \* a number: how many events the machine can keep pending

VARIABLES
    pending,  \* the events that have not been processed, as they came
    sent      \* the keys whose last processed event was a press

svars == <<pending, sent>>

Init == pending = <<>> /\ sent = {}

Arrive(k, p) ==
    /\ pending' = Append(pending, [key |-> k, pressed |-> p])
    /\ UNCHANGED sent

(* Nothing of the same key waits before the i-th event.                      *)
FirstOfKey(i) == \A j \in 1..(i - 1) : pending[j].key # pending[i].key

Without(i) == [j \in 1..(Len(pending) - 1) |-> pending[IF j < i THEN j ELSE j + 1]]
After(e)   == IF e.pressed THEN sent \cup {e.key} ELSE sent \ {e.key}

Deliver(i) == FirstOfKey(i) /\ pending' = Without(i) /\ sent' = After(pending[i])

(* The host may be told early that a key is up, when a press is pending that *)
(* makes its own key the one to be decided.                                  *)
ReleaseEarly(k) ==
    /\ k \in sent /\ sent' = sent \ {k} /\ UNCHANGED pending
    /\ \E i \in DOMAIN pending : FirstOfKey(i) /\ pending[i].pressed

(* More events than there is room for: all that is pending is lost, though   *)
(* the oldest, which was being decided, may be delivered first.              *)
LoseAll ==
    /\ Len(pending) > Capacity
    /\ pending' = <<>>
    /\ UNCHANGED sent \/ sent' = After(pending[1])

Next ==
    \/ \E k \in Key : \E p \in BOOLEAN : Arrive(k, p)
    \/ \E i \in DOMAIN pending : Deliver(i)
    \/ \E k \in Key : ReleaseEarly(k)
    \/ LoseAll

Spec == Init /\ [][Next]_svars
=============================================================================
