----------------------------- MODULE MCTransMode -----------------------------
(* TransMode with messages of at most four characters and the end string ex. *)
EXTENDS TransMode

CONSTANTS e, x

MCChars     == {CR, LF, e, x}
MCEndString == <<e, x>>
=============================================================================
