--------------------------- MODULE MC_MultiServer ---------------------------
(* Instantiates MultiServer for TLC: two worker processes, two channel      *)
(* paths (the initial one and one to reconnect to), two control-FIFO        *)
(* writes.                                                                  *)
EXTENDS MultiServer, TLC

CONSTANTS c1, c2, e1, e2

MCConns     == {c1, c2}
MCEndpoints == {e1, e2}

\* Workers are interchangeable process ids.
ConnSymmetry == Permutations(MCConns)
=============================================================================
