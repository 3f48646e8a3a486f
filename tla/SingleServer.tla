---------------------------- MODULE SingleServer ----------------------------
(***************************************************************************)
(* The oneshot session of the waypipe server side, src/src/server.c:       *)
(* run_single_server sets up the one channel and, when a control FIFO is   *)
(* open, forks run_single_server_reconnector, which turns each path read   *)
(* from the FIFO into a replacement channel sent over a link socketpair to *)
(* the session's main loop (main_interface_loop, external, modelled from   *)
(* the spec). fds are modelled by which process holds each one.            *)
(***************************************************************************)
EXTENDS ControlPipe

CONSTANTS
  E0,           \* socket_addr, the channel path given on the command line
  MaxWrites,    \* bound on the writes made to the control FIFO
  UnlinkAtEnd   \* unlink_at_end

ASSUME /\ E0 \in Endpoints
       /\ MaxWrites \in Nat /\ UnlinkAtEnd \in BOOLEAN

Procs   == {"main", "recon"}
\* chanfd, server_link (the application socket), control_pipe, the two
\* ends of linkfds, and new_conn in the reconnector.
Objects == {"chan", "link", "fifo", "l0", "l1", "nc"}
\* A channel is only ever made by a successful connect to a listening path.
Chan    == [ep : Endpoints, upd : BOOLEAN, repl : BOOLEAN]
NoChan  == [ep |-> BadPath, upd |-> FALSE, repl |-> FALSE]

VARIABLES
  mainpc,    \* where run_single_server / main_interface_loop is
  reconpc,   \* where the reconnector child is ("none" before its fork)
  hasFifo,   \* control_pipe != -1 (mkfifo and open succeeded)
  fifo,      \* writes queued in the control FIFO
  writes,    \* writes made to the control FIFO so far
  up,        \* channel socket paths something listens on
  token,     \* the reconnector's copy of the token: CONN_UPDATE_BIT set?
  chan,      \* the channel the main loop uses
  linkq,     \* replacement channels in flight on the link socket
  holders,   \* holders[o]: processes with o in their fd table
  shutdown   \* shutdown_flag (set by SIGINT in both processes)

vars == <<mainpc, reconpc, hasFifo, fifo, writes, up, token, chan, linkq, holders, shutdown>>

TypeOK ==
  /\ mainpc \in {"connect", "write", "socketpair", "fork", "loop", "ended", "failed"}
  /\ reconpc \in {"none", "check", "setup", "poll", "exit", "done"}
  /\ hasFifo \in BOOLEAN
  /\ fifo \in Seq(FifoItem)
  /\ writes \in 0..MaxWrites
  /\ up \in SUBSET Endpoints
  /\ token \in BOOLEAN
  /\ chan \in Chan \cup {NoChan}
  /\ linkq \in Seq(Chan)
  /\ holders \in [Objects -> SUBSET Procs]
  /\ shutdown \in BOOLEAN

Open(h, p, S)  == [o \in Objects |-> IF o \in S THEN h[o] \cup {p} ELSE h[o]]
Close(h, p, S) == [o \in Objects |-> IF o \in S THEN h[o] \ {p} ELSE h[o]]
Held(p) == {o \in Objects : p \in holders[o]}

\* Variant: the reconnector keeps its copy of linkfds[0].
ReconClosesKeepL0 == {"chan", "link"}

\* The reconnector child closes chanfd, linkfds[0] and server_link.
ReconCloses == {"chan", "l0", "link"}

\* "Further uses of the token will be to reconnect".
FlagForReconnect(upd) == TRUE

\* poll reports POLLHUP on the reconnector's link end: the main loop has
\* closed the other end.
LinkHungUp == holders["l0"] = {}

\* The main process's fail_cfd / fail_srv paths and the fork-failure path
\* close these; control_pipe is not among them.
FailCloses(stage) ==
  CASE stage = "connect" -> {"link"}
    [] stage = "fork"    -> {"l0", "l1", "chan", "link"}
    [] OTHER             -> {"chan", "link"}

-----------------------------------------------------------------------------
(* run_single_server.                                                      *)

\* run_server has made the application socketpair (server_link) and tried
\* to create and open the control FIFO, which may have failed.
Init ==
  /\ mainpc = "connect"
  /\ reconpc = "none"
  /\ hasFifo \in BOOLEAN
  /\ fifo = <<>> /\ writes = 0
  /\ up \in {{E0}, {}}
  /\ token = FALSE
  /\ chan = NoChan
  /\ linkq = <<>> /\ shutdown = FALSE
  /\ holders = [o \in Objects |->
                  IF o = "link" \/ (o = "fifo" /\ hasFifo) THEN {"main"} ELSE {}]

\* connect_to_socket(socket_addr); on success the path is unlinked if
\* unlink_at_end.
Connect ==
  /\ mainpc = "connect"
  /\ IF E0 \in up
       THEN /\ mainpc' = "write"
            /\ holders' = Open(holders, "main", {"chan"})
            /\ up' = IF UnlinkAtEnd THEN up \ {E0} ELSE up
       ELSE /\ mainpc' = "failed"
            /\ holders' = Close(holders, "main", FailCloses("connect"))
            /\ UNCHANGED up
  /\ UNCHANGED <<shutdown, reconpc, hasFifo, fifo, writes, token, chan, linkq>>

\* fill_random_key and write the token (CONN_UPDATE_BIT clear); a short
\* write goes to fail_cfd.
WriteToken(ok) ==
  /\ mainpc = "write"
  /\ IF ok
       THEN /\ mainpc' = IF hasFifo THEN "socketpair" ELSE "loop"
            /\ chan' = [ep |-> E0, upd |-> token, repl |-> FALSE]
            /\ UNCHANGED holders
       ELSE /\ mainpc' = "failed"
            /\ holders' = Close(holders, "main", FailCloses("write"))
            /\ UNCHANGED chan
  /\ UNCHANGED <<shutdown, reconpc, hasFifo, fifo, writes, up, token, linkq>>

\* socketpair for the reconnector link.
MakeLink(ok) ==
  /\ mainpc = "socketpair"
  /\ IF ok
       THEN /\ mainpc' = "fork"
            /\ holders' = Open(holders, "main", {"l0", "l1"})
       ELSE /\ mainpc' = "failed"
            /\ holders' = Close(holders, "main", FailCloses("socketpair"))
  /\ UNCHANGED <<shutdown, reconpc, hasFifo, fifo, writes, up, token, chan, linkq>>

\* fork the reconnector. The child inherits every fd of the main process,
\* closes ReconCloses and sets CONN_UPDATE_BIT in its copy of the token;
\* the parent closes control_pipe and linkfds[1].
ForkReconnector ==
  /\ mainpc = "fork"
  /\ mainpc' = "loop"
  /\ reconpc' = "check"
  /\ token' = FlagForReconnect(token)
  /\ holders' = [o \in Objects |->
                   LET inherited == IF o \in Held("main") \ ReconCloses
                                    THEN {"recon"} ELSE {}
                   IN  (holders[o] \ (IF o \in {"fifo", "l1"} THEN {"main"} ELSE {}))
                       \cup inherited]
  /\ UNCHANGED <<shutdown, hasFifo, fifo, writes, up, chan, linkq>>

\* fork fails: close both link ends, then fail_cfd.
ForkFails ==
  /\ mainpc = "fork"
  /\ mainpc' = "failed"
  /\ holders' = Close(holders, "main", FailCloses("fork"))
  /\ UNCHANGED <<shutdown, reconpc, hasFifo, fifo, writes, up, token, chan, linkq>>

\* main_interface_loop (external, from the spec): it adopts a replacement
\* channel received on linkfds[0] ...
MainAdoptChannel ==
  /\ mainpc = "loop"
  /\ linkq # <<>>
  /\ chan' = Head(linkq)
  /\ linkq' = Tail(linkq)
  /\ UNCHANGED <<shutdown, mainpc, reconpc, hasFifo, fifo, writes, up, token, holders>>

\* ... and, when the session ends, closes chanfd, server_link and
\* linkfds[0].
MainLoopEnds ==
  /\ mainpc = "loop"
  /\ mainpc' = "ended"
  /\ holders' = Close(holders, "main", {"chan", "link", "l0"})
  /\ UNCHANGED <<shutdown, reconpc, hasFifo, fifo, writes, up, token, chan, linkq>>

-----------------------------------------------------------------------------
(* run_single_server_reconnector.                                          *)

\* Variant: the new_conn == -1 check after connect_to_socket is dropped.
ConnectedUnchecked(p) == TRUE

\* connect_to_socket(&new_sockaddr) succeeds: something listens on p.
Connected(p) == p \in up

\* while (!shutdown_flag): the loop ends with EXIT_SUCCESS once SIGINT
\* has been seen.
ReconnectorLoopTop ==
  /\ reconpc = "check"
  /\ reconpc' = IF shutdown THEN "exit" ELSE "setup"
  /\ UNCHANGED <<shutdown, mainpc, hasFifo, fifo, writes, up, token, chan, linkq, holders>>

\* The pollfds are filled in (control_pipe for POLLIN, the link end for
\* hang-up only) and poll blocks. A SIGINT between the flag test and this
\* step interrupts nothing.
ReconnectorPollSetup ==
  /\ reconpc = "setup"
  /\ reconpc' = "poll"
  /\ UNCHANGED <<shutdown, mainpc, hasFifo, fifo, writes, up, token, chan, linkq, holders>>

\* poll reports POLLHUP on linkfds[1] (checked first): leave the loop.
ReconnectorHangup ==
  /\ reconpc = "poll"
  /\ LinkHungUp
  /\ reconpc' = "exit"
  /\ UNCHANGED <<shutdown, mainpc, hasFifo, fifo, writes, up, token, chan, linkq, holders>>

\* poll fails with an error other than EINTR: EXIT_FAILURE.
ReconnectorPollFails ==
  /\ reconpc = "poll"
  /\ reconpc' = "exit"
  /\ UNCHANGED <<shutdown, mainpc, hasFifo, fifo, writes, up, token, chan, linkq, holders>>

\* The control pipe is readable: read_sockaddr (failure ends the loop with
\* EXIT_FAILURE); connect to the path (failure: continue); write the
\* flagged token (failure: close new_conn, continue); send new_conn over
\* the link (failure is logged) and close it.
ReconnectorReadFifo(writeOk) ==
  LET rd   == ReadSockaddr(fifo)
      sent == [ep |-> rd.path, upd |-> token, repl |-> TRUE]
  IN /\ reconpc = "poll"
     /\ ~LinkHungUp
     /\ fifo # <<>>
     /\ fifo' = <<>>
     /\ IF ~rd.ok
          THEN reconpc' = "exit" /\ UNCHANGED linkq
          ELSE /\ reconpc' = "check"
               /\ linkq' = IF Connected(rd.path) /\ writeOk
                           THEN Append(linkq, sent) ELSE linkq
     /\ holders' = Close(Open(holders, "recon", {"nc"}), "recon", {"nc"})
     /\ UNCHANGED <<shutdown, mainpc, hasFifo, writes, up, token, chan>>

\* After the loop: close control_pipe and linkfd, exit.
ReconnectorExit ==
  /\ reconpc = "exit"
  /\ reconpc' = "done"
  /\ holders' = Close(holders, "recon", {"fifo", "l1"})
  /\ UNCHANGED <<shutdown, mainpc, hasFifo, fifo, writes, up, token, chan, linkq>>

-----------------------------------------------------------------------------
(* The environment.                                                        *)

\* A user writes a socket path to the control FIFO (it exists only if it
\* was created).
FifoWrite(p, t) ==
  /\ hasFifo
  /\ writes < MaxWrites
  /\ fifo' = Append(fifo, [path |-> p, term |-> t])
  /\ writes' = writes + 1
  /\ UNCHANGED <<shutdown, mainpc, reconpc, hasFifo, up, token, chan, linkq, holders>>

\* A remote side starts or stops listening on a channel path.
EndpointToggle(e) ==
  /\ up' = IF e \in up THEN up \ {e} ELSE up \cup {e}
  /\ UNCHANGED <<shutdown, mainpc, reconpc, hasFifo, fifo, writes, token, chan, linkq, holders>>

\* SIGINT (Ctrl-C reaches the whole process group) sets shutdown_flag;
\* a reconnector blocked in poll gets EINTR and re-tests the flag.
Interrupt ==
  /\ ~shutdown
  /\ shutdown' = TRUE
  /\ reconpc' = IF reconpc = "poll" THEN "check" ELSE reconpc
  /\ UNCHANGED <<mainpc, hasFifo, fifo, writes, up, token, chan, linkq, holders>>

-----------------------------------------------------------------------------
MainSetup ==
  Connect \/ (\E ok \in BOOLEAN : WriteToken(ok) \/ MakeLink(ok))
  \/ ForkReconnector \/ ForkFails

\* main_interface_loop leaves its loop once shutdown_flag is set (spec 5:
\* the flag is read by every poll loop).
MainShutdown == shutdown /\ MainLoopEnds

MainStep ==
  \/ Connect \/ \E ok \in BOOLEAN : WriteToken(ok) \/ MakeLink(ok)
  \/ ForkReconnector \/ ForkFails \/ MainAdoptChannel \/ MainLoopEnds

ReconnectorStep ==
  \/ ReconnectorLoopTop \/ ReconnectorPollSetup
  \/ ReconnectorHangup \/ \E ok \in BOOLEAN : ReconnectorReadFifo(ok)
  \/ ReconnectorExit

Next ==
  \/ MainStep \/ ReconnectorStep \/ ReconnectorPollFails
  \/ \E p \in Endpoints \cup {TooLong}, t \in Terms : FifoWrite(p, t)
  \/ \E e \in Endpoints : EndpointToggle(e)
  \/ Interrupt

\* Both processes run whenever they can: run_single_server's setup is
\* straight-line code. The session may last forever, and the external
\* main_interface_loop tests shutdown_flag before it polls (the window
\* server.c:99 and :366 show), so its end is never owed, not even after
\* SIGINT; failures are never owed either.
Fairness ==
  /\ WF_vars(ReconnectorStep)
  /\ WF_vars(MainSetup)
  /\ WF_vars(MainAdoptChannel)

Spec == Init /\ [][Next]_vars /\ Fairness

-----------------------------------------------------------------------------
(* Properties.                                                             *)

\* The reconnector holds nothing of the session but the control pipe, its
\* link end and, briefly, new_conn: so the channel and the application
\* socket close when the main loop closes them.
ReconnectorFdIsolation ==
  \A o \in Objects : "recon" \in holders[o] => o \in {"fifo", "l1", "nc"}

\* When the session's main loop has ended, the reconnector eventually
\* exits too (it sees POLLHUP on its link).
ReconnectorEndsWithSession ==
  (mainpc = "ended") ~> (reconpc \in {"none", "done"})

\* An invalid path read from the control FIFO is logged and ignored: a
\* read of the control pipe never ends the reconnector's loop, which
\* keeps serving later paths (spec 4.G step 3, scenario S6).
ReconnectorSurvivesBadInput ==
  [][(reconpc = "poll" /\ fifo # <<>> /\ fifo' = <<>>) => reconpc' # "exit"]_vars
=============================================================================
