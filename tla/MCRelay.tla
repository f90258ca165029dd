------------------------------- MODULE MCRelay -------------------------------
(* Relay with a triangle of the sender and two relays, one of which has     *)
(* another behind it.                                                       *)
EXTENDS Relay

CONSTANTS s, r1, r2, r3

MCRelays == {r1, r2, r3}
MCNear   ==
  [d \in {s, r1, r2, r3} |-> CASE d = s  -> {r1, r2}
                               [] d = r1 -> {r2}
                               [] d = r2 -> {r1, r3}
                               [] d = r3 -> {r2}]
=============================================================================
