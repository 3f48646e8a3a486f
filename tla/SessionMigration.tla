-------------------------- MODULE SessionMigration --------------------------
(***************************************************************************)
(* What the multi-connection supervisor promises its sessions about the   *)
(* channel path (spec 4.F and 4.G), stated without fds, records, links or *)
(* loop indices. A session starts on the supervisor's current path. A     *)
(* reconnection moves sessions one at a time, each only to a path that    *)
(* accepted the connection; it may stop part-way (spec 4.G: partial       *)
(* failure is tolerated). The supervisor adopts a path as its current one *)
(* only once every live session is on it, and may then remove the old    *)
(* one.                                                                    *)
(***************************************************************************)
CONSTANTS
  Conns,      \* sessions
  Endpoints,  \* paths a remote side may listen on
  Paths       \* every path the supervisor may hold

VARIABLES
  sessions,   \* live sessions
  ep,         \* ep[c]: the newest channel path handed to session c
  current,    \* the path new sessions are opened on
  up          \* the paths something listens on

vars == <<sessions, ep, current, up>>

Init ==
  /\ sessions = {}
  /\ ep \in [Conns -> Paths]
  /\ current \in Endpoints
  /\ up \in SUBSET Endpoints

\* A new session is opened on the current path, which is listening.
OpenSession(c) ==
  /\ c \notin sessions
  /\ current \in up
  /\ sessions' = sessions \cup {c}
  /\ ep' = [ep EXCEPT ![c] = current]
  /\ UNCHANGED <<current, up>>

\* A live session is handed a channel to a listening path.
Retarget(c, e) ==
  /\ c \in sessions
  /\ e \in up
  /\ ep' = [ep EXCEPT ![c] = e]
  /\ UNCHANGED <<sessions, current, up>>

\* The supervisor adopts e once every live session is on it; the old
\* path may be removed.
Adopt(e) ==
  /\ \A c \in sessions : ep[c] = e
  /\ current' = e
  /\ up' \in {up, up \ {current}}
  /\ UNCHANGED <<sessions, ep>>

\* A session ends.
EndSession(c) ==
  /\ c \in sessions
  /\ sessions' = sessions \ {c}
  /\ UNCHANGED <<ep, current, up>>

\* A remote side starts or stops listening.
Listen(e) ==
  /\ up' = IF e \in up THEN up \ {e} ELSE up \cup {e}
  /\ UNCHANGED <<sessions, ep, current>>

Next ==
  \/ \E c \in Conns : OpenSession(c) \/ EndSession(c)
  \/ \E c \in Conns, e \in Endpoints : Retarget(c, e)
  \/ \E e \in Paths : Adopt(e)
  \/ \E e \in Endpoints : Listen(e)

Spec == Init /\ [][Next]_vars
=============================================================================
