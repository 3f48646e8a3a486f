--------------------------- MODULE MC_SingleServer ---------------------------
(* SingleServer instantiated for TLC: two channel endpoints.               *)
EXTENDS SingleServer, TLC

CONSTANTS e1, e2

MCEndpoints == {e1, e2}
=============================================================================
