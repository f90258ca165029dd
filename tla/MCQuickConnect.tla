--------------------------- MODULE MCQuickConnect ---------------------------
(* QuickConnect on small sets: two frequencies and two modes.  Frequency f2 *)
(* is out of range at the bandwidth of mode m2.                             *)
EXTENDS QuickConnect

CONSTANTS f1, f2, m1, m2

MCFreqs   == {f1, f2}
MCModes   == {m1, m2}
MCInRange == {<<f1, m1>>, <<f1, m2>>, <<f2, m1>>}

QuickCommands  == {"start", "stop", "exit", "send"}
AllCommands    == {"start", "stop", "init", "run", "exit", "send", "sendNoBlock"}
=============================================================================
