---------------------------- MODULE MultiServer ----------------------------
(***************************************************************************)
(* The display-socket ("multi") session supervisor of the waypipe server   *)
(* side, src/src/server.c: run_multi_server, read_sockaddr,                *)
(* update_connections, handle_new_server_connection, conntoken_header and *)
(* fill_random_key. Without a control FIFO (control_pipe == -1) sessions  *)
(* are not reconnectable: no link socketpair and no record is made.      *)
(*                                                                         *)
(* The supervisor is one thread looping over poll(); each accepted         *)
(* application connection gets a forked worker process whose main loop is  *)
(* external (main_interface_loop) and is modelled from the spec: it adopts *)
(* replacement channels sent over its link socket, and it may exit.        *)
(* File descriptors are modelled by which processes hold a copy of each   *)
(* open file description, so that fork inheritance and every close on the *)
(* success and failure paths are visible.                                 *)
(***************************************************************************)
EXTENDS ControlPipe, FiniteSets

CONSTANTS
  Conns,        \* worker processes, one per accepted application connection
  E0,           \* the channel socket path given on the command line
  MaxWrites,    \* bound on the writes made to the control FIFO
  UnlinkAtEnd   \* unlink_at_end: the supervisor owns the channel socket path

ASSUME /\ E0 \in Endpoints
       /\ MaxWrites \in Nat /\ UnlinkAtEnd \in BOOLEAN

Sv     == "sv"                       \* the supervisor process
Procs  == {Sv} \cup Conns
Kinds  == {"app", "chan", "link0", "link1", "rchan"}
\* Open file descriptions: the listening display socket, the control FIFO,
\* and per worker its application socket, its channel, the two ends of its
\* link socketpair and the replacement channel made for it in an update.
Display == <<"display", Sv>>
Fifo    == <<"fifo", Sv>>
Objects == {Display, Fifo} \cup (Kinds \X Conns)

\* struct connection_token: the flag bits of the header and the key.
Header == [rc : BOOLEAN, upd : BOOLEAN]
Token  == [hdr : Header, key : Nat]
Chan   == [ep : Paths, token : Token, repl : BOOLEAN]
NoChan == [ep |-> BadPath, token |-> [hdr |-> [rc |-> FALSE, upd |-> FALSE], key |-> 0],
           repl |-> FALSE]
Record == [pid : Conns, token : Token]   \* struct conn_addr (linkfd is link0)

VARIABLES
  reconnectable, \* control_pipe != -1: a control FIFO was opened
  svpc,        \* where the supervisor is in its loop
  shutdown,    \* shutdown_flag, set by SIGINT
  appAlive,    \* the application child (child_pid) has not exited
  pending,     \* application connections queued on the display socket
  fifo,        \* writes queued in the control FIFO, not yet read
  writes,      \* writes made to the control FIFO so far
  up,          \* channel socket paths something listens on
  current,     \* current_sockaddr
  newEp,       \* new_sockaddr of the update in progress
  idx,         \* loop index i of update_connections
  acceptReady, \* pfs[0].revents & POLLIN of the last poll
  aborted,     \* an update gave up after migrating some connections
  token,       \* the token reused for each new connection (key refilled)
  connmap,     \* connmap.data[0 .. count-1]
  worker,      \* life of each worker process
  chan,        \* the channel each worker uses
  linkq,       \* replacement channels in flight on each link socket
  holders      \* holders[o]: processes with o in their fd table

vars == <<reconnectable, svpc, shutdown, appAlive, pending, fifo, writes, up,
          current, newEp, idx, acceptReady, aborted, token, connmap, worker,
          chan, linkq, holders>>

TypeOK ==
  /\ svpc \in {"loop", "reap", "poll", "fifo", "update", "accept", "exit", "done"}
  /\ shutdown \in BOOLEAN /\ appAlive \in BOOLEAN
  /\ pending \in 0..Cardinality(Conns)
  /\ fifo \in Seq(FifoItem)
  /\ writes \in 0..MaxWrites
  /\ up \in SUBSET Endpoints
  /\ current \in Paths /\ newEp \in Paths
  /\ idx \in Nat /\ acceptReady \in BOOLEAN /\ aborted \in BOOLEAN
  /\ reconnectable \in BOOLEAN
  /\ token \in Token
  /\ connmap \in Seq(Record)
  /\ worker \in [Conns -> {"none", "running", "exited", "reaped"}]
  /\ chan \in [Conns -> Chan]
  /\ linkq \in [Conns -> Seq(Chan)]
  /\ holders \in [Objects -> SUBSET Procs]

-----------------------------------------------------------------------------
(* Helpers translated from the code.                                       *)

\* fill_random_key: the key is re-drawn from /dev/urandom (falling back to
\* pid and clock mixing); it is modelled as a key never handed out before.
FreshKey(k) == k + 1

\* Variant: the reconnectable argument is ignored.
ConntokenHeaderAlwaysReconnectable(rc, update) == [rc |-> TRUE, upd |-> update]

\* conntoken_header(reconnectable, update): the flag bits of the header;
\* the protocol version and CONN_FIXED_BIT are the same on every token.
ConntokenHeader(rc, update) == [rc |-> rc, upd |-> update]

\* The fds run_multi_server is given: wdisplay_socket, and control_pipe
\* unless it is -1.
SvBase == {Display} \cup (IF reconnectable THEN {Fifo} ELSE {})

\* The link socketpair, made only for a reconnectable connection.
Links(c) == IF reconnectable THEN {<<"link0", c>>, <<"link1", c>>} ELSE {}

\* The fds the supervisor holds.
SvFds == {o \in Objects : Sv \in holders[o]}

\* What a process opens or closes in its own fd table.
Open(h, p, S)  == [o \in Objects |-> IF o \in S THEN h[o] \cup {p} ELSE h[o]]
Close(h, p, S) == [o \in Objects |-> IF o \in S THEN h[o] \ {p} ELSE h[o]]

\* Variant: the loop stops one record short.
UpdateLoopDoneEarly(i) == i >= Len(connmap)

\* for (int i = 0; i < connmap->count; i++): the loop is over (1-based i).
UpdateLoopDone(i) == i > Len(connmap)

\* The continuation after the control-FIFO branch of one poll iteration.
AfterFifo == IF acceptReady THEN "accept" ELSE "loop"

\* Variant: the flagged token copied from the supervisor's current token
\* instead of connmap.data[i].token.
FlaggedTokenStale(r) == [token EXCEPT !.hdr.upd = TRUE]

\* flagged_token = connmap->data[i].token; header |= CONN_UPDATE_BIT.
FlaggedToken(r) == [r.token EXCEPT !.hdr.upd = TRUE]

\* Variant: the child skips the loop over the other workers' link fds.
ChildClosesOwn(c) == {Display} \cup (IF reconnectable THEN {Fifo, <<"link0", c>>} ELSE {})

\* The fds a freshly forked worker closes before main_interface_loop: the
\* display socket, if reconnectable the control pipe and its own link0,
\* and every other worker's link0 still in the connection table.
ChildCloses(c) ==
  {Display} \cup (IF reconnectable THEN {Fifo, <<"link0", c>>} ELSE {})
            \cup {<<"link0", r.pid>> : r \in ToSet(connmap)}

\* Variant: the parent keeps the application connection open.
ParentClosesKeepApp(c) == {<<"chan", c>>} \cup (Links(c) \ {<<"link0", c>>})

\* The fds the supervisor closes after a successful fork: the channel,
\* the application socket and, if reconnectable, the worker's link end.
ParentCloses(c) == {<<"chan", c>>, <<"app", c>>} \cup (Links(c) \ {<<"link0", c>>})

\* The steps of handle_new_server_connection that can fail: growing the
\* connection table and the socketpair happen only if reconnectable.
FailStages == IF reconnectable THEN {"alloc", "connect", "socketpair", "fork"}
              ELSE {"connect", "fork"}

\* The fds handle_new_server_connection has open when a step fails, and
\* the ones its failure path closes.
OpenAtFailure(c, stage) ==
  CASE stage \in {"alloc", "connect"} -> {<<"app", c>>}
    [] stage = "socketpair"          -> {<<"app", c>>, <<"chan", c>>}
    [] stage = "fork"                -> {<<"app", c>>, <<"chan", c>>} \cup Links(c)
ClosedOnFailure(c, stage) ==
  CASE stage \in {"alloc", "connect"} -> {<<"app", c>>}
    [] stage = "socketpair"          -> {<<"chan", c>>, <<"app", c>>}
    [] stage = "fork"                -> Links(c) \cup {<<"chan", c>>, <<"app", c>>}

-----------------------------------------------------------------------------
(* The supervisor: one action per step of the run_multi_server loop.      *)

\* run_server opens the control FIFO or passes -1; the token header is
\* set once, before the loop.
Init ==
  /\ reconnectable \in BOOLEAN
  /\ svpc = "loop" /\ shutdown = FALSE /\ appAlive = TRUE
  /\ pending = 0 /\ fifo = <<>> /\ writes = 0
  /\ up = {E0} /\ current = E0 /\ newEp = E0 /\ idx = 0
  /\ acceptReady = FALSE /\ aborted = FALSE
  /\ token = [hdr |-> ConntokenHeader(reconnectable, FALSE), key |-> 0]
  /\ connmap = <<>>
  /\ worker = [c \in Conns |-> "none"]
  /\ chan = [c \in Conns |-> NoChan]
  /\ linkq = [c \in Conns |-> <<>>]
  /\ holders = [o \in Objects |-> IF o \in SvBase THEN {Sv} ELSE {}]

\* while (!shutdown_flag)
LoopTop ==
  /\ svpc = "loop"
  /\ svpc' = IF shutdown THEN "exit" ELSE "reap"
  /\ UNCHANGED <<shutdown, appAlive, pending, fifo, writes, up, current, newEp,
                 idx, acceptReady, aborted, token, connmap, worker, chan, linkq,
                 holders>>

\* wait_for_pid_and_clean(child_pid, WNOHANG, &connmap): exited workers are
\* reaped and their records dropped with their link fds; if the
\* application has exited the loop ends with its status.
ReapChildren ==
  LET dead == {c \in Conns : worker[c] = "exited"}
  IN /\ svpc = "reap"
     /\ connmap' = SelectSeq(connmap, LAMBDA r : r.pid \notin dead)
     /\ worker' = [c \in Conns |-> IF c \in dead THEN "reaped" ELSE worker[c]]
     /\ holders' = Close(holders, Sv, {<<"link0", c>> : c \in dead})
     /\ svpc' = IF appAlive THEN "poll" ELSE "exit"
     /\ UNCHANGED <<shutdown, appAlive, pending, fifo, writes, up, current,
                    newEp, idx, acceptReady, aborted, token, chan, linkq>>

\* poll(pfs, 1 + (control_pipe != -1), -1) returns once the control FIFO
\* (if polled) or the display socket is readable; SIGCHLD is not caught,
\* so an exiting child does not wake it.
Poll ==
  /\ svpc = "poll"
  /\ (reconnectable /\ fifo # <<>>) \/ pending > 0
  /\ acceptReady' = (pending > 0)
  /\ svpc' = IF reconnectable /\ fifo # <<>> THEN "fifo" ELSE "accept"
  /\ UNCHANGED <<shutdown, appAlive, pending, fifo, writes, up, current, newEp,
                 idx, aborted, token, connmap, worker, chan, linkq, holders>>

\* poll fails with an error other than EINTR: the loop ends.
PollFails ==
  /\ svpc = "poll"
  /\ svpc' = "exit"
  /\ UNCHANGED <<shutdown, appAlive, pending, fifo, writes, up, current, newEp,
                 idx, acceptReady, aborted, token, connmap, worker, chan, linkq,
                 holders>>

\* pfs[1].revents & POLLIN: read_sockaddr; a rejected path is ignored,
\* otherwise update_connections starts at i = 0.
ReadControlPipe ==
  LET rd == ReadSockaddr(fifo)
  IN /\ svpc = "fifo"
     /\ fifo' = <<>>
     /\ IF rd.ok
          THEN svpc' = "update" /\ newEp' = rd.path /\ idx' = 1
          ELSE svpc' = AfterFifo /\ UNCHANGED <<newEp, idx>>
     /\ UNCHANGED <<shutdown, appAlive, pending, writes, up, current,
                    acceptReady, aborted, token, connmap, worker, chan, linkq,
                    holders>>

\* One iteration of the update_connections loop for connmap.data[i]:
\* connect to the new path, write the record's token with CONN_UPDATE_BIT,
\* send the fd over the record's link socket, close it. A failed connect
\* or write, or a failed send (the link's peer end is closed), returns -1
\* and leaves the remaining records on the old channel.
UpdateConnection ==
  LET r == connmap[idx]
      c == r.pid
      t == FlaggedToken(r)
      reachable == newEp \in up
      peerOpen == holders[<<"link1", c>>] # {}
  IN /\ svpc = "update"
     /\ ~UpdateLoopDone(idx)
     /\ IF reachable /\ peerOpen
          THEN /\ linkq' = [linkq EXCEPT ![c] = Append(@,
                             [ep |-> newEp, token |-> t, repl |-> TRUE])]
               /\ idx' = idx + 1
               /\ UNCHANGED <<svpc, aborted>>
          ELSE /\ svpc' = AfterFifo
               /\ aborted' = (aborted \/ idx > 1)
               /\ UNCHANGED <<linkq, idx>>
     /\ holders' = Close(Open(holders, Sv, {<<"rchan", c>>}), Sv, {<<"rchan", c>>})
     /\ UNCHANGED <<shutdown, appAlive, pending, fifo, writes, up, current,
                    newEp, acceptReady, token, connmap, worker, chan>>

\* update_connections after its loop: unlink the old path if it differs
\* and adopt the new one.
UpdateConnectionsDone ==
  /\ svpc = "update"
  /\ UpdateLoopDone(idx)
  /\ up' = IF UnlinkAtEnd /\ current # newEp THEN up \ {current} ELSE up
  /\ current' = newEp
  /\ aborted' = FALSE
  /\ svpc' = AfterFifo
  /\ UNCHANGED <<shutdown, appAlive, pending, fifo, writes, newEp, idx,
                 acceptReady, token, connmap, worker, chan, linkq, holders>>

\* pfs[0].revents & POLLIN: accept() fails with an error other than
\* EAGAIN: the loop ends with EXIT_FAILURE.
AcceptFails ==
  /\ svpc = "accept"
  /\ svpc' = "exit"
  /\ UNCHANGED <<shutdown, appAlive, pending, fifo, writes, up, current, newEp,
                 idx, acceptReady, aborted, token, connmap, worker, chan, linkq,
                 holders>>

\* accept() fails with EAGAIN or EWOULDBLOCK (a spurious wakeup): the loop
\* continues.
AcceptSpurious ==
  /\ svpc = "accept"
  /\ svpc' = "loop"
  /\ UNCHANGED <<shutdown, appAlive, pending, fifo, writes, up, current, newEp,
                 idx, acceptReady, aborted, token, connmap, worker, chan, linkq,
                 holders>>

\* accept() and fill_random_key succeed and handle_new_server_connection
\* fails at a stage: the connection table cannot grow, the channel path
\* refuses the connection (connect or token write), socketpair fails or
\* fork fails. Its failure path closes what it opened, and
\* run_multi_server leaves the loop with EXIT_FAILURE.
HandleNewServerConnectionFails(c, stage) ==
  /\ svpc = "accept"
  /\ worker[c] = "none"
  /\ stage \in FailStages
  /\ stage = "connect" => current \notin up
  /\ stage \in {"socketpair", "fork"} => current \in up
  /\ pending' = pending - 1
  /\ token' = [token EXCEPT !.key = FreshKey(@)]
  /\ holders' = Close(Open(holders, Sv, OpenAtFailure(c, stage)),
                      Sv, ClosedOnFailure(c, stage))
  /\ svpc' = "exit"
  /\ UNCHANGED <<shutdown, appAlive, fifo, writes, up, current, newEp, idx,
                 acceptReady, aborted, connmap, worker, chan, linkq>>

\* accept(), fill_random_key, then handle_new_server_connection: connect to
\* current_sockaddr, write the token, make the link socketpair if
\* reconnectable and fork the worker c. The child inherits every fd the
\* supervisor holds and closes ChildCloses(c); the parent closes
\* ParentCloses(c) and, if reconnectable, records {token, pid, linkfd}.
HandleNewServerConnection(c) ==
  LET tok    == [token EXCEPT !.key = FreshKey(@)]
      opened == SvFds \cup {<<"app", c>>, <<"chan", c>>} \cup Links(c)
      child  == opened \ ChildCloses(c)
      parent == opened \ ParentCloses(c)
  IN /\ svpc = "accept"
     /\ worker[c] = "none"
     /\ current \in up
     /\ pending' = pending - 1
     /\ token' = tok
     /\ holders' = [o \in Objects |->
                      (holders[o] \ {Sv}) \cup (IF o \in parent THEN {Sv} ELSE {})
                                          \cup (IF o \in child THEN {c} ELSE {})]
     /\ connmap' = IF reconnectable THEN Append(connmap, [pid |-> c, token |-> tok])
                   ELSE connmap
     /\ worker' = [worker EXCEPT ![c] = "running"]
     /\ chan' = [chan EXCEPT ![c] = [ep |-> current, token |-> tok, repl |-> FALSE]]
     /\ svpc' = "loop"
     /\ UNCHANGED <<shutdown, appAlive, fifo, writes, up, current, newEp, idx,
                    acceptReady, aborted, linkq>>

\* After the loop: unlink current_sockaddr if the supervisor owns the
\* path, then close the display socket, the control pipe unless it is -1,
\* and every record's link fd.
CleanupAndExit ==
  /\ svpc = "exit"
  /\ up' = IF UnlinkAtEnd THEN up \ {current} ELSE up
  /\ holders' = Close(holders, Sv, SvBase \cup
                                   {<<"link0", r.pid>> : r \in ToSet(connmap)})
  /\ svpc' = "done"
  /\ UNCHANGED <<shutdown, appAlive, pending, fifo, writes, current, newEp,
                 idx, acceptReady, aborted, token, connmap, worker, chan, linkq>>

-----------------------------------------------------------------------------
(* Workers (main_interface_loop, external: modelled from the spec).        *)

\* The worker receives a replacement channel on its link and switches to it.
WorkerAdoptChannel(c) ==
  /\ worker[c] = "running"
  /\ linkq[c] # <<>>
  /\ chan' = [chan EXCEPT ![c] = Head(linkq[c])]
  /\ linkq' = [linkq EXCEPT ![c] = Tail(@)]
  /\ UNCHANGED <<svpc, shutdown, appAlive, pending, fifo, writes, up, current,
                 newEp, idx, acceptReady, aborted, token, connmap, worker,
                 holders>>

\* The worker's session ends; process exit closes every fd it holds.
WorkerExit(c) ==
  /\ worker[c] = "running"
  /\ worker' = [worker EXCEPT ![c] = "exited"]
  /\ holders' = [o \in Objects |-> holders[o] \ {c}]
  /\ UNCHANGED <<svpc, shutdown, appAlive, pending, fifo, writes, up, current,
                 newEp, idx, acceptReady, aborted, token, connmap, chan, linkq>>

-----------------------------------------------------------------------------
(* The environment.                                                        *)

\* An application connects to the display socket.
AppConnect ==
  /\ svpc # "done"
  /\ pending + Cardinality({c \in Conns : worker[c] # "none"}) < Cardinality(Conns)
  /\ pending' = pending + 1
  /\ UNCHANGED <<svpc, shutdown, appAlive, fifo, writes, up, current, newEp,
                 idx, acceptReady, aborted, token, connmap, worker, chan, linkq,
                 holders>>

\* A user writes a socket path to the control FIFO, if there is one.
FifoWrite(p, t) ==
  /\ reconnectable
  /\ svpc # "done"
  /\ writes < MaxWrites
  /\ fifo' = Append(fifo, [path |-> p, term |-> t])
  /\ writes' = writes + 1
  /\ UNCHANGED <<svpc, shutdown, appAlive, pending, up, current, newEp, idx,
                 acceptReady, aborted, token, connmap, worker, chan, linkq,
                 holders>>

\* A remote side starts or stops listening on a channel path.
EndpointToggle(e) ==
  /\ up' = IF e \in up THEN up \ {e} ELSE up \cup {e}
  /\ UNCHANGED <<svpc, shutdown, appAlive, pending, fifo, writes, current,
                 newEp, idx, acceptReady, aborted, token, connmap, worker, chan,
                 linkq, holders>>

\* The application child exits.
AppExit ==
  /\ appAlive
  /\ appAlive' = FALSE
  /\ UNCHANGED <<svpc, shutdown, pending, fifo, writes, up, current, newEp,
                 idx, acceptReady, aborted, token, connmap, worker, chan, linkq,
                 holders>>

\* SIGINT sets shutdown_flag; poll, if the supervisor is blocked in it,
\* returns EINTR and the loop re-checks the flag.
Interrupt ==
  /\ ~shutdown
  /\ svpc # "done"
  /\ shutdown' = TRUE
  /\ svpc' = IF svpc = "poll" THEN "loop" ELSE svpc
  /\ UNCHANGED <<appAlive, pending, fifo, writes, up, current, newEp, idx,
                 acceptReady, aborted, token, connmap, worker, chan, linkq,
                 holders>>

-----------------------------------------------------------------------------
\* What poll's return with a readable display socket leads to.
AcceptConnection ==
  \/ AcceptFails \/ AcceptSpurious
  \/ \E c \in Conns : HandleNewServerConnection(c)
  \/ \E c \in Conns, s \in {"alloc", "connect", "socketpair", "fork"} :
        HandleNewServerConnectionFails(c, s)

\* The supervisor's steps other than a failing poll().
SupervisorStep ==
  \/ LoopTop \/ ReapChildren \/ Poll \/ ReadControlPipe
  \/ UpdateConnection \/ UpdateConnectionsDone \/ AcceptConnection
  \/ CleanupAndExit

Supervisor == SupervisorStep \/ PollFails

Workers == \E c \in Conns : WorkerAdoptChannel(c) \/ WorkerExit(c)

Environment ==
  \/ AppConnect \/ AppExit \/ Interrupt
  \/ \E p \in Endpoints \cup {TooLong}, t \in Terms : FifoWrite(p, t)
  \/ \E e \in Endpoints : EndpointToggle(e)

\* Whether a control FIFO was opened never changes.
Next == (Supervisor \/ Workers \/ Environment) /\ UNCHANGED reconnectable

\* The supervisor runs whenever a step of it is enabled (a poll() error is
\* possible, never owed), and a worker's main loop polls its link socket;
\* the environment owes nothing.
Fairness ==
  /\ WF_vars(SupervisorStep /\ UNCHANGED reconnectable)
  /\ \A c \in Conns : WF_vars(WorkerAdoptChannel(c) /\ UNCHANGED reconnectable)

Spec == Init /\ [][Next]_vars /\ Fairness

-----------------------------------------------------------------------------
(* Properties.                                                             *)

\* The channel a worker will use last: the newest one in flight on its
\* link, else the one it has.
LatestEndpoint(c) == IF linkq[c] = <<>> THEN chan[c].ep ELSE Last(linkq[c]).ep

\* Connection tokens (spec 8.2): every channel opened for a recorded
\* connection, the first one by handle_new_server_connection and each
\* replacement by update_connections, carries that connection's own key,
\* and CONN_UPDATE_BIT is set exactly on the replacements.
TokenDiscipline ==
  \A r \in ToSet(connmap) :
    \A ch \in {chan[r.pid]} \cup ToSet(linkq[r.pid]) :
      ch.token.key = r.token.key /\ ch.token.hdr.upd = ch.repl

\* The reconnectable bit of the token header (spec 8.2) tells the remote
\* side that the session may later arrive on a replacement channel. On
\* every channel of a running worker it is set exactly when the supervisor
\* keeps the record and the link fd through which update_connections can
\* move that session, with or without a control FIFO, for as long as the
\* supervisor has not left its loop.
ReconnectablePromiseKept ==
  \A c \in Conns : (svpc # "done" /\ worker[c] = "running") =>
    \A ch \in {chan[c]} \cup ToSet(linkq[c]) :
      ch.token.hdr.rc =
        (<<"link0", c>> \in SvFds /\ \E r \in ToSet(connmap) : r.pid = c)

\* Reconnection moves every session together: unless an update gave up
\* half-way, once update_connections is over every running worker's
\* newest channel goes to current_sockaddr, the path new connections use.
EndpointAgreement ==
  (~aborted /\ svpc # "update") =>
    \A c \in Conns : worker[c] = "running" => LatestEndpoint(c) = current

\* No fd leaks in the supervisor (spec 8.3): on every success and failure
\* path of handle_new_server_connection, update_connections and the reaper
\* it holds exactly the display socket, the control FIFO if any and the link fd
\* of each recorded connection, and nothing once it has left its loop.
SupervisorFdsExact ==
  SvFds = IF svpc = "done" THEN {}
          ELSE SvBase \cup {<<"link0", r.pid>> : r \in ToSet(connmap)}

\* A forked worker holds only its own application socket, channel and
\* link end: never the display socket, the control FIFO or the link of
\* another session, so that each of those closes when its owner does.
WorkerFdIsolation ==
  \A c \in Conns, o \in Objects :
    c \in holders[o] => o \in {<<"app", c>>, <<"chan", c>>, <<"link1", c>>}

\* update_connections gives up on a reconnection, leaving the sessions
\* after record i on the old channel, only when the new path refused the
\* connection (spec 4.G and 7: a transient channel error).
GiveUpOnlyWhenUnreachable ==
  [][(svpc = "update" /\ svpc' # "update" /\ current' # newEp) => newEp \notin up]_vars

\* The supervisor implements SessionMigration: a live session is a running
\* worker, and its path is the newest channel it has or has in flight.
Migration == INSTANCE SessionMigration WITH
  sessions <- {c \in Conns : worker[c] = "running"},
  ep       <- [c \in Conns |-> LatestEndpoint(c)]

\* Every behaviour of the supervisor, its workers and its environment is
\* one the migration promise allows (spec 4.F, 4.G).
MigrationSpec == Migration!Spec

\* Spec 6: the control FIFO accepts one NUL- or newline-terminated path
\* per write, so a read of a single write of a path starts a reconnection
\* to that path.
SingleWriteHonoured ==
  [][(svpc = "fifo" /\ fifo' = <<>> /\ Len(fifo) = 1 /\ fifo[1].path # TooLong)
       => newEp' = fifo[1].path]_vars

\* Once the application (the session root) has exited (spec 4.F: the
\* supervisor exits with its status), or SIGINT has set shutdown_flag
\* (spec 5), the supervisor eventually leaves its loop, whatever poll is
\* blocked on.
SupervisorEndsOnExitOrSignal == (~appAlive \/ shutdown) ~> (svpc = "done")

=============================================================================
