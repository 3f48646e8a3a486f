----------------------------- MODULE RunServer -----------------------------
(***************************************************************************)
(* run_server (src/src/server.c): resolve the display socket path (multi   *)
(* mode), make the application's connection (a socketpair in oneshot mode, *)
(* a listening display socket otherwise), fork the application, create and *)
(* open the control FIFO, run the supervisor, remove the files it made and *)
(* wait for the application. The supervisor itself is MultiServer or       *)
(* SingleServer; here it is one step with the outcomes those modules show. *)
(***************************************************************************)
EXTENDS Naturals

Modes   == {"oneshot", "multi"}
Procs   == {"server", "app"}
\* wayland_socket and server_link (the oneshot socketpair), wdisplay_socket
\* and control_pipe.
Fds     == {"wsock", "slink", "wdisp", "fifo"}
\* The filesystem entries run_server creates: the display socket and the
\* control FIFO.
Files   == {"display", "fifo"}
\* What happens to control_path: no path given, mkfifo fails, mkfifo
\* succeeds but open fails, both succeed.
FifoOutcomes == {"none", "mkfifo_fails", "open_fails", "open"}

VARIABLES
  mode,       \* oneshot or multi
  pc,         \* where run_server is
  files,      \* entries run_server created that are still on disk
  holders,    \* holders[fd]: processes holding that fd
  pipeOpen,   \* control_pipe != -1
  app,        \* the application child
  shutdown    \* shutdown_flag

vars == <<mode, pc, files, holders, pipeOpen, app, shutdown>>

Open(h, p, S)  == [f \in Fds |-> IF f \in S THEN h[f] \cup {p} ELSE h[f]]
Close(h, p, S) == [f \in Fds |-> IF f \in S THEN h[f] \ {p} ELSE h[f]]

\* Variant: the application child keeps every fd it inherits.
AppClosesNothing(m) == {}

\* The forked application closes server_link (oneshot) or the display
\* socket (multi): it keeps only the socket it is told about.
AppCloses(m) == IF m = "oneshot" THEN {"slink"} ELSE {"wdisp"}

\* Variant: the fork-failure path forgets to unlink the display socket.
ForkFailKeepsDisplay(m) == {}

\* fork() fails: the display socket is unlinked in multi mode.
ForkFailUnlinks(m) == IF m = "multi" THEN {"display"} ELSE {}

Init ==
  /\ mode \in Modes
  /\ pc = "display"
  /\ files = {} /\ holders = [f \in Fds |-> {}]
  /\ pipeOpen = FALSE /\ app = "none" /\ shutdown = FALSE

\* Multi mode builds display_path from WAYLAND_DISPLAY, absolute or under
\* $XDG_RUNTIME_DIR; a path of sizeof(sun_path) bytes or more, or an unset
\* XDG_RUNTIME_DIR, returns EXIT_FAILURE before anything is created.
ResolveDisplayPath(ok) ==
  /\ pc = "display"
  /\ pc' = IF mode = "oneshot" \/ ok THEN "setup" ELSE "returned"
  /\ UNCHANGED <<mode, files, holders, pipeOpen, app, shutdown>>

\* socketpair (oneshot) or setup_nb_socket, which binds the display
\* socket path (multi); a failure returns EXIT_FAILURE.
SetupConnection(ok) ==
  /\ pc = "setup"
  /\ pc' = IF ok THEN "fork" ELSE "returned"
  /\ files' = IF ok /\ mode = "multi" THEN {"display"} ELSE files
  /\ holders' = IF ~ok THEN holders
                ELSE IF mode = "oneshot" THEN Open(holders, "server", {"wsock", "slink"})
                ELSE Open(holders, "server", {"wdisp"})
  /\ UNCHANGED <<mode, pipeOpen, app, shutdown>>

\* fork the application. The child inherits the server's fds and closes
\* AppCloses; the parent closes wayland_socket. On failure the display
\* socket is unlinked and run_server returns EXIT_FAILURE.
ForkApp(ok) ==
  /\ pc = "fork"
  /\ IF ok
       THEN /\ pc' = "fifo"
            /\ app' = "running"
            /\ holders' = [f \in Fds |->
                             (IF f = "wsock" THEN holders[f] \ {"server"} ELSE holders[f])
                             \cup (IF "server" \in holders[f] /\ f \notin AppCloses(mode)
                                   THEN {"app"} ELSE {})]
            /\ UNCHANGED files
       ELSE /\ pc' = "returned"
            /\ files' = files \ ForkFailUnlinks(mode)
            /\ UNCHANGED <<app, holders>>
  /\ UNCHANGED <<mode, pipeOpen, shutdown>>

\* mkfifo(control_path) and open it O_RDWR; either may fail, which is only
\* logged.
MakeControlFifo(o) ==
  /\ pc = "fifo"
  /\ pc' = "run"
  /\ files' = IF o \in {"open_fails", "open"} THEN files \cup {"fifo"} ELSE files
  /\ pipeOpen' = (o = "open")
  /\ holders' = IF o = "open" THEN Open(holders, "server", {"fifo"}) ELSE holders
  /\ UNCHANGED <<mode, app, shutdown>>

\* run_single_server or run_multi_server. They close server_link or the
\* display socket; run_multi_server closes control_pipe, and so does
\* run_single_server except on its early failure paths (SingleServer's
\* FailCloses). The multi supervisor reaps the application if it notices
\* its exit.
RunSupervisor(leakPipe) ==
  /\ pc = "run"
  /\ leakPipe => mode = "oneshot"
  /\ pc' = "cleanup"
  /\ holders' = Close(holders, "server",
                      {"slink", "wdisp"} \cup (IF leakPipe THEN {} ELSE {"fifo"}))
  /\ app' = IF mode = "multi" /\ app = "exited" THEN "reaped" ELSE app
  /\ UNCHANGED <<mode, files, pipeOpen, shutdown>>

\* if (control_pipe != -1) unlink(control_path); if (!oneshot)
\* unlink(display_path).
Cleanup ==
  /\ pc = "cleanup"
  /\ pc' = "wait"
  /\ files' = files \ ((IF pipeOpen THEN {"fifo"} ELSE {})
                       \cup (IF mode = "multi" THEN {"display"} ELSE {}))
  /\ UNCHANGED <<mode, holders, pipeOpen, app, shutdown>>

\* wait_for_pid_and_clean(&pid, ..., shutdown_flag ? WNOHANG : 0): a
\* blocking wait for the application, or a WNOHANG one after SIGINT.
WaitForApp ==
  /\ pc = "wait"
  /\ shutdown \/ app # "running"
  /\ pc' = "returned"
  /\ app' = IF app = "exited" THEN "reaped" ELSE app
  /\ UNCHANGED <<mode, files, holders, pipeOpen, shutdown>>

\* The application exits; its fds close.
AppExit ==
  /\ app = "running"
  /\ app' = "exited"
  /\ holders' = [f \in Fds |-> holders[f] \ {"app"}]
  /\ UNCHANGED <<mode, pc, files, pipeOpen, shutdown>>

\* SIGINT.
Interrupt ==
  /\ ~shutdown
  /\ shutdown' = TRUE
  /\ UNCHANGED <<mode, pc, files, holders, pipeOpen, app>>

Next ==
  \/ \E ok \in BOOLEAN : ResolveDisplayPath(ok) \/ SetupConnection(ok) \/ ForkApp(ok)
  \/ \E o \in FifoOutcomes : MakeControlFifo(o)
  \/ \E leak \in BOOLEAN : RunSupervisor(leak)
  \/ Cleanup \/ WaitForApp \/ AppExit \/ Interrupt

Spec == Init /\ [][Next]_vars

-----------------------------------------------------------------------------
(* Properties.                                                             *)

\* Spec 4.F unlink policy: the display socket run_server bound is gone
\* when run_server returns, on the fork-failure path and the normal one.
DisplaySocketRemoved == pc = "returned" => "display" \notin files

\* The control FIFO is released when run_server returns: the entry it
\* created is unlinked (spec 4.F unlink policy) and control_pipe is closed
\* (the comment at lines 607-608: the supervisor closes it).
ControlPipeReleased ==
  pc = "returned" => "fifo" \notin files /\ "server" \notin holders["fifo"]

\* The application holds nothing of the server's but its own end of the
\* oneshot socketpair: in particular not server_link, whose hang-up ends
\* the session, nor the display socket.
AppFdIsolation ==
  \A f \in Fds : "app" \in holders[f] => f = "wsock"

=============================================================================
