----------------------------- MODULE MCFixedTime -----------------------------
(* FixedTime with two devices on the list and one that is not on it.        *)
EXTENDS FixedTime

CONSTANTS d0, d1, other

MCDevices == {d0, d1, other}
MCOrder   == [d \in MCDevices |-> CASE d = d0 -> 0 [] d = d1 -> 1 [] d = other -> -1]

\* Two that leave room for the reports, one that takes the whole round and
\* leaves no delay, and one that outlasts it.
MCTimes   == {1, 2, 8, 9}
=============================================================================
