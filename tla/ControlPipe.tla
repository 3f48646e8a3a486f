---------------------------- MODULE ControlPipe ----------------------------
(***************************************************************************)
(* The control FIFO's input and read_sockaddr (src/src/server.c), shared   *)
(* by the oneshot reconnector and the multi-connection supervisor. A user  *)
(* writes a socket path, ended by a NUL or a newline; one read() of up to  *)
(* 4095 bytes takes every write queued so far (each is far shorter).       *)
(***************************************************************************)
EXTENDS Naturals, Sequences, SequencesExt

CONSTANTS
  Endpoints,    \* channel socket paths a remote side may listen on
  BadPath,      \* a path nothing listens on (e.g. one that kept its newline)
  TooLong       \* a path of sizeof(sun_path) bytes or more

ASSUME BadPath \notin Endpoints /\ TooLong \notin Endpoints \cup {BadPath}

Paths    == Endpoints \cup {BadPath}   \* what read_sockaddr can hand on
Terms    == {"nul", "nl"}              \* how a FIFO writer ends its path
FifoItem == [path : Endpoints \cup {TooLong}, term : Terms]

\* The string read_sockaddr reads: path[amt] = '\0' and strlen stop at the
\* first NUL, so it is every queued write up to the first NUL-terminated one.
PathString(items) ==
  LET nul == SelectInSeq(items, LAMBDA it : it.term = "nul")
  IN  SubSeq(items, 1, IF nul = 0 THEN Len(items) ELSE nul)

\* The path that string names: a single NUL-terminated write names its
\* path; a newline kept in it, or several writes run together, name a path
\* nothing listens on; TooLong if any part is over-long.
PathOf(str) ==
  IF \E i \in DOMAIN str : str[i].path = TooLong THEN TooLong
  ELSE IF Len(str) = 1 /\ str[1].term = "nul" THEN str[1].path
  ELSE BadPath

\* Variant without the strlen(path) >= sizeof(sun_path) check.
ReadSockaddrUnchecked(items) == [ok |-> TRUE, path |-> PathOf(PathString(items))]

\* read_sockaddr: -1 for a string of sizeof(sun_path) bytes or more,
\* otherwise 0 with the path copied into the sockaddr.
ReadSockaddr(items) ==
  LET p == PathOf(PathString(items))
  IN  [ok |-> p # TooLong, path |-> p]
=============================================================================
