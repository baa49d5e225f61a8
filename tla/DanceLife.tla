----------------------------- MODULE DanceLife -----------------------------
(* What docs/feature_tap_dance.md promises the functions of one tap dance:    *)
(* "tap" at every press, "finished" at most once and not when a tap has ended *)
(* the dance, "reset" once after that, not before the key is up.              *)
EXTENDS Naturals

VARIABLES
    taps,   \* presses of the dance so far
    ended,  \* no further tap counts
    down,   \* the key of the dance is down
    calls   \* the functions called in the last step, in order

vars == <<taps, ended, down, calls>>

Init == taps = 0 /\ ended = FALSE /\ down = FALSE /\ calls = <<>>

Quiet == calls' = <<>> /\ UNCHANGED <<taps, ended, down>>

Tap ==
    /\ ~down /\ ~ended
    /\ taps' = taps + 1 /\ down' = TRUE /\ calls' = <<"tap">>
    /\ ended' \in BOOLEAN

Over == taps' = 0 /\ ended' = FALSE

Release ==
    /\ down /\ down' = FALSE
    /\ \/ ended  /\ Over /\ calls' = <<"release", "reset">>
       \/ ~ended /\ calls' = <<"release">> /\ UNCHANGED <<taps, ended>>

Finish ==
    /\ taps > 0 /\ ~ended /\ UNCHANGED down
    /\ \/ down  /\ ended' = TRUE /\ calls' = <<"finished">> /\ UNCHANGED taps
       \/ ~down /\ Over /\ calls' = <<"finished", "reset">>

Next == Quiet \/ Tap \/ Release \/ Finish

Spec == Init /\ [][Next]_vars
=============================================================================
