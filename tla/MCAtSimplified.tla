--------------------------- MODULE MCAtSimplified ---------------------------
(* AtSimplified with two ranges that overlap, two bandwidths of which the   *)
(* wide one is no multiple of every frequency, and two values of the rest.  *)
EXTENDS AtSimplified

MCRanges   == [s \in 0..1 |-> <<<<10, 20>>, <<17, 26>>>>[s + 1]]
MCWidth    == <<4, 2>>
MCRequests == {9, 11, 15, 18, 21, 26}
MCStatic   == [userid |-> 7, sub |-> 3]
MCAddrs    == {7, 5000}
MCSubs     == {3, 4}
MCPowers   == {0, 20}
MCGarbage  == {0, 2, 65535}
MCTexts    == {0, 1, 60, 209, 306, 307, 1017, 1018}
MCSizes    == {5, 59, 100, 200, 700}
MCBytes(sub, first) == [sub |-> sub, first |-> first]
MCLoad     == [mcs \in 0..3 |-> [cast \in {"broadcast", "unicast"} |->
  <<MCBytes(7, 5), MCBytes(9, 9), MCBytes(21, 18), MCBytes(52, 51)>>
    [IF cast = "unicast" THEN mcs + 1 ELSE IF mcs = 3 THEN 3 ELSE 1]]]
=============================================================================
