----------------------------- MODULE MirrorSync -----------------------------
(***************************************************************************)
(* What the fd-mirror round trip promises (spec S1: contents match end to *)
(* end), stated without pools, tasks or shadow copies. Two sides each     *)
(* hold a file. A side's file is changed by the program writing it; the   *)
(* change is then transferred, after which the other side holds exactly   *)
(* the same bytes. No side is changed while a transfer is outstanding,    *)
(* and a transfer never writes the side that was changed.                 *)
(***************************************************************************)
CONSTANTS
  Sides,    \* the two ends of the mirror
  Files     \* every content a file may have

VARIABLES
  files,    \* files[s]: the content on side s
  dirty     \* the sides changed and not yet transferred ({} or one side)

Other(s) == CHOOSE t \in Sides : t # s

Init ==
  /\ files \in [Sides -> Files]
  /\ dirty = {}

\* The program writes side s (possibly leaving it as it was).
Change(s) ==
  /\ dirty = {}
  /\ files' \in [Sides -> Files]
  /\ files'[Other(s)] = files[Other(s)]
  /\ dirty' = {s}

\* The change on side s is transferred: the other side now equals it.
Transfer(s) ==
  /\ dirty = {s}
  /\ files'[s] = files[s]
  /\ files'[Other(s)] = files[s]
  /\ dirty' = {}

Next == \E s \in Sides : Change(s) \/ Transfer(s)

Spec == Init /\ [][Next]_<<files, dirty>>
=============================================================================
