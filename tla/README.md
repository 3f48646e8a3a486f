# TLA+ models of the waypipe server side

This directory holds TLA+ models of `src/src/server.c`: how waypipe's
server side sets up and reconnects channels. It also models the
fd-mirror test in `src/test/fd_mirror.c`: the thread-pool drain and the
transfer round trip. TLC checks every module through
the runs listed in `PROJECT.json`.

## The system

`run_server` prepares the server side. It sets up the display socket (multi
mode) or an application socketpair (oneshot mode), forks the application,
and optionally creates a control FIFO. It then hands over to one of two
supervisors.

* **Oneshot (`run_single_server`).** This mode has a single channel. The
  main process connects to the channel socket path and writes a connection
  token (a random key plus a header with `CONN_UPDATE_BIT` clear). If a
  control FIFO exists, it makes a link socketpair and forks a
  **reconnector** (`run_single_server_reconnector`). The reconnector polls
  the FIFO and its link end. For each path it reads, it connects, writes the
  token with `CONN_UPDATE_BIT` set, and passes the new fd over the link to
  the session's `main_interface_loop`. When that loop closes its link end,
  the reconnector sees `POLLHUP` and exits.
* **Multi (`run_multi_server`).** A supervisor loop does four things in
  turn:
  1. It reaps exited children and drops their connection records and link
     fds. If the application has died, it leaves the loop.
  2. It polls the display socket and, if there is one, the FIFO.
  3. It handles a FIFO path with `update_connections`. For every record this
     connects to the new path, writes that record's token with the update
     bit, and sends the fd over the record's link. On the first failure it
     gives up.
  4. It accepts an application connection with
     `handle_new_server_connection`. This connects to `current_sockaddr`,
     writes a fresh token and, if a FIFO exists, makes a link socketpair.
     It then forks a worker, which closes every fd that is not its own.
     Finally, if a FIFO exists, it records `{token, pid, linkfd}`.

  After the loop it unlinks the current channel path if it owns it, and
  closes the display socket, the FIFO and every link.
  Without a control FIFO (`control_pipe == -1`) sessions are not
  reconnectable: no link socketpair or record is made, and the token
  header built by `conntoken_header` has its reconnectable bit clear.
* **`read_sockaddr`** is shared by both modes. A single `read()` of up to
  4095 bytes takes whatever is queued in the FIFO. The string ends at the
  first NUL. A string of `sizeof(sun_path)` bytes or more is rejected.

The processes interact through fds (inherited across `fork`, passed with
`send_one_fd`), through `POLLHUP` when the last holder of a socket end closes
it, and through signals (SIGINT sets `shutdown_flag`; SIGCHLD is not
caught).

The fd-mirror test (`src/test/fd_mirror.c`) shadows a file on a source
map. For five passes it changes one side and transfers the change to the
other. Each transfer collects the change on the sending side's thread
pool, drains the pool with `wait_for_thread_pool`, applies the blocks, and
compares the files. In the drain, worker threads and the main thread take
tasks from one queue under `work_mutex`.

`main_interface_loop`, `wait_for_pid_and_clean`, `connect_to_socket` and
`send_one_fd` are outside `src/`. They are modelled from `spec.md`:
`WorkerAdoptChannel`, `WorkerExit`, `MainAdoptChannel`, `MainLoopEnds` and
`MainShutdown` are marked `spec_modelled` in the map. The same holds for the
thread pool's worker loop, setup, push and teardown (`PoolInit`,
`Spawned`, `Push`, `PushStops`, `WorkerTake`, `WorkerFinish`, `WorkerNext`,
`JoinPool`), which live in the repository's thread-pool code outside `src/`.

## Modules

| module | models | state ↔ code |
|---|---|---|
| `ControlPipe` | `read_sockaddr` and what a FIFO writer can queue | `FifoItem` is one `write()` (a path, or an over-long one, ended by NUL or newline). `PathString` is the string up to the first NUL. `PathOf` is the `sun_path` that results. `ReadSockaddr` gives the return value and the path. |
| `MultiServer` | `run_multi_server`, `handle_new_server_connection`, `update_connections`, `conntoken_header`, plus workers and environment | `reconnectable` is `control_pipe != -1`, chosen in `Init` and never changed. `token` is the reused `struct connection_token`: the header's reconnectable and update bits and the key. `svpc` is the loop position. `connmap` is the record table. `holders[o]` is the set of processes whose fd table holds open file description `o` (display, FIFO, and each session's app, chan, link0, link1 and replacement chan). `chan`/`linkq` are each worker's channel and the replacement channels in flight on its link. `current`, `newEp` and `idx` are `current_sockaddr`, `new_sockaddr` and the loop index `i`. |
| `SingleServer` | `run_single_server`, `run_single_server_reconnector`, plus the session loop and environment | `mainpc`/`reconpc` are the two processes' positions. `token` is the reconnector's copy of the update bit. `holders` works as in `MultiServer`, over chanfd, server_link, control_pipe, linkfds[0], linkfds[1] and new_conn. |
| `SessionMigration` | the abstract promise of the multi supervisor about channel paths (spec 4.F, 4.G) | `sessions`, `ep[c]` (the newest path session `c` was handed), `current` and `up`. A session opens on a listening current path and is retargeted only to a listening path. The current path is adopted only once every live session is on it. `MultiServer` maps onto it with `sessions` = the running workers and `ep[c]` = `LatestEndpoint(c)`; `MigrationSpec` is checked as a property. |
| `LoginShell` | `setup_login_shell_command` | `env` is `$SHELL` or `Unset`; `shell`/`shellname` are the two buffers after the call. `ScanBack` (RECURSIVE) is the backwards `start--` loop and is checked against the reference `Basename` (built from `SelectLastInSeq`). The read of `shell[-1]` when there is no slash is undefined and gives any byte. |
| `RunServer` | `run_server` | `pc` is the step. `files` are the display socket and FIFO entries on disk. `holders` records which of the server and the application hold wayland_socket, server_link, the display socket and control_pipe. `pipeOpen` is `control_pipe != -1`. The supervisor call is one step with the outcomes `MultiServer`/`SingleServer` show, including the oneshot leak of control_pipe. |
| `ThreadPool` | the pool the fd-mirror test drives: `wait_for_thread_pool` (from the test), and the worker loop, the push and `cleanup_thread_pool` (from spec 4.D) | `queue[p]` is every task pushed, and `qstart[p]` is `queue_start`, so `queue_end` is `Len(queue[p])` (the immutable-queue idiom). `inProgress` is `queue_in_progress`. `finished` holds the tasks whose `run_task` has returned. `wpc`/`wtask` are each worker thread's state and task. `mwait` is the pool the main thread drains. `mtask` is its local `task`, with `Stop` standing for `task.type = TASK_STOP`. |
| `FdMirror` | `test_mirror`, `test_transfer`, `update_file`, `check_match` | `round` is `i`. `content[side]` is the file's bytes and `mirror[side]` that side's mirror copy. `ndiff` and `pass` are the test's variables. `mapFail` records that an mmap of the last `check_match` failed. It composes `ThreadPool` (`Pool == INSTANCE ThreadPool`) with the pools named after the sides. |
| `MirrorSync` | the abstract promise of the round trip (spec S1) | `files[side]` and `dirty`, the side changed and not yet transferred. `Change(s)` writes side `s` only; `Transfer(s)` makes the other side equal to `s`. `FdMirror` maps onto it with `files` = `content` and `dirty` = the sender while the pass is in its drain; `MirrorSyncSpec` is checked as a property. |
| `MC_MultiServer`, `MC_SingleServer`, `MC_LoginShell` | model values for TLC | |

Each action is one step of the code, with every failure path the code has:

* In `MultiServer`: `LoopTop`, `ReapChildren`, `Poll`/`PollFails`,
  `ReadControlPipe`, `UpdateConnection` (one loop iteration) and
  `UpdateConnectionsDone`. Acceptance is `AcceptFails`, `AcceptSpurious`
  (EAGAIN), `HandleNewServerConnection` and
  `HandleNewServerConnectionFails` (with stages alloc, connect,
  socketpair and fork; alloc and socketpair only when reconnectable). Then `CleanupAndExit`.
* In `SingleServer`: `Connect`, `WriteToken`, `MakeLink`, `ForkReconnector`,
  `ForkFails`. The reconnector has `ReconnectorLoopTop` (the
  `shutdown_flag` test), `ReconnectorPollSetup` (pollfds filled in, then
  poll blocks), `ReconnectorHangup`, `ReconnectorPollFails`,
  `ReconnectorReadFifo` and `ReconnectorExit`.
* In `FdMirror`: `UpdateAndCollect` (update_file, then the dirty mark and
  `collect_update`, which enter the drain). `ThreadPool`'s
  `WaitForThreadPool` and `MainRunTask` are the drain loop. `TestTransfer`
  is the rest of `test_transfer`, with `check_match`'s mmaps succeeding
  or failing, and the tail of the pass. `StopPool` and
  `JoinPool` are the teardown. The worker threads do `WorkerTake` and
  `WorkerFinish`.

The environment does the following. An application connects (`AppConnect`).
A user writes to the FIFO (`FifoWrite`). A remote side starts or stops
listening on a path (`EndpointToggle`). The application exits (`AppExit`).
SIGINT arrives (`Interrupt`, in both supervisors).

Abstractions:

* Token keys are a counter (`FreshKey`), since every draw is assumed
  distinct.
* A token write that fails on a connected socket is merged with a refused
  connect, because the failure path is the same.
* `EINTR` and `r == 0` retries of poll are stutter, except for SIGINT while
  a supervisor or the reconnector is blocked in poll, which `Interrupt`
  models.
* In the fd-mirror test, a file is a function from byte positions to
  values. `collect_update` makes one task per position. A task emits a
  block when the byte differs from the side's mirror copy, and updates the
  copy. Since nothing else touches the sender's file or copy during a
  drain, the blocks are computed from the finished tasks when the drain
  returns. The self-pipe's bytes are read and discarded, so the pipe is
  left out.

## Runs

| run | cfg | result | what it shows |
|---|---|---|---|
| multi_safety | `MC_MultiServer.cfg` | pass (≈570k states, both with and without a control FIFO) | `MigrationSpec`: the supervisor refines `SessionMigration`. Symmetry over sessions is sound here because the mapping and the abstract spec treat sessions alike. `TokenDiscipline`: every channel of a recorded session carries that session's key, and the update bit is set exactly on replacements. `EndpointAgreement`: after an update that did not give up half-way, every running worker's newest channel goes to `current_sockaddr`. `SupervisorFdsExact`: the supervisor holds exactly display, FIFO and one link per record on every path. `WorkerFdIsolation`: a worker holds only its own three fds. `ReconnectablePromiseKept`: while the supervisor runs, every channel of a running worker has the token's reconnectable bit set exactly when the supervisor keeps the record and link fd through which it could move that session. |
| multi_giveup | `MC_MultiServer_GiveUp.cfg` | violation | `update_connections` gives up though the new path is reachable. A worker exited unreaped, and the send to its dead link fails (server.c:330). |
| multi_exit | `MC_MultiServer_Exit.cfg` | violation | `SupervisorEndsOnExitOrSignal` fails in two ways. (1) The application exits while the supervisor sleeps in poll, and nothing wakes it: the comment at server.c:378 assumes SIGCHLD interrupts poll. (2) A SIGINT between the flag test (366) and poll (375) is lost. |
| single_safety | `MC_SingleServer.cfg` | pass | `ReconnectorFdIsolation`: the reconnector keeps only FIFO, its link end and new_conn. `ReconnectorEndsWithSession`, a liveness property: after the session loop ends, the reconnector exits, because the loop's close of linkfds[0] hangs up the reconnector's link only if the reconnector dropped its own inherited copy. The reconnector has the same lost-signal window as the multi supervisor (server.c:99-108); whether SIGINT ends the oneshot session depends on the external main loop, which has the same window, so no property about it is stated. |
| single_badinput | `MC_SingleServer_BadInput.cfg` | violation | `ReconnectorSurvivesBadInput`: no read of the control pipe may end the reconnector's loop, yet a rejected (too long) FIFO path does (server.c:125). Spec 4.G/S6 says to ignore it. |
| multi_newline | `MC_MultiServer_Newline.cfg` | violation | `SingleWriteHonoured`: a path written with a trailing newline (`echo /path > fifo`) keeps the newline. The reconnection goes to a path nothing listens on, although spec 6 accepts newline termination (server.c:84). |
| login_shell | `MC_LoginShell.cfg` | pass (2,060 states) | `NamesFitBuffers`: for every `$SHELL` up to one byte longer than the buffers, both strings and their NUL fit. `LoginNameIsBasenameOfPath`: for a `$SHELL` with a slash, the backwards scan yields `-` plus the basename, including a trailing slash (giving `-`). |
| login_shell_spec | `MC_LoginShell_Spec.cfg` | violation | `ArgvZeroMatchesSpec`: with `$SHELL` unset and no login shell, argv[0] is `-sh`, not `/bin/sh` (server.c:444). With a slash-less `$SHELL` and a login shell, the copy starts at `shell[-1]` (server.c:470). |
| run_server | `MC_RunServer.cfg` | pass | `DisplaySocketRemoved`: the display socket is unlinked on the fork-failure path and at the end. `AppFdIsolation`: the application keeps only its end of the oneshot socketpair, and never server_link or the display socket. |
| run_server_fifo | `MC_RunServer_Fifo.cfg` | violation | `ControlPipeReleased` fails in two ways. (1) When mkfifo succeeds and open fails, the FIFO is never unlinked (server.c:616). (2) On run_single_server's early failure paths, control_pipe stays open (server.c:217), contrary to the comment at 607-608. |
| fd_mirror | `MC_FdMirror.cfg` | pass (≈721k states, 55 s) | `DrainCompletesPass`: when `wait_for_thread_pool` returns, every task of the pass has finished. `TestTerminates` (liveness): every drain returns and every worker is joined, with 0 to 3 worker threads per pool. With none, only the main thread's own taking of tasks ends the drain. `MirrorSyncSpec`: the round trip refines `MirrorSync`: an update writes only the sender, and every transfer, on every interleaving of the drain, leaves the receiver byte for byte equal to it, even on passes the test counts as failed. |
| fd_mirror_verdict | `MC_FdMirror_Verdict.cfg` | violation | `VerdictSound`: in pass 1, a one-byte memset of seqno 1 at offset 1 changes nothing, because the pattern already holds 1 there. `update_file` still returns 1, the transfer is empty, and the test reports a failure for a correct mirror (fd_mirror.c:83-86 against :265). A failed mmap in `check_match` also fails the test and is not counted against the verdict. |

Every property of a passing run has a mutant in `PROJECT.json`: a
plausible bug in the definition it is about, which TLC shows breaks the
property.

### Bounds

* `LoginShell` enumerates every `$SHELL` over `{"/", "a"}` up to the buffer length. The 256-byte buffers are scaled to `ShellBuf = 8`, and the code's limit 254 becomes `ShellBuf - 2`, so the boundary (accepted at limit - 1, rejected at limit) keeps its relation to the buffer size. `/bin/sh` still fits.
* `RunServer` has no parameters: it enumerates both modes and every failure outcome.
* `FdMirror` keeps the test's five passes and its update outcomes. The file is scaled to 4 bytes (3 for the verdict run) with the test pattern `k mod 256`. The pass run allows 0 to 3 worker threads per pool, while the test runs `gt`/`rt` of 1 to 5 threads (0 to 4 workers, fd_mirror.c:409-410). Three workers already give every interleaving the drain has (a task running on a worker while the main thread decides done, and a pool with no worker at all); the fourth worker adds only symmetric interleavings. Three bytes are the smallest file in which a one-byte range can already hold its pass's seqno.

For `MultiServer`:

* Two sessions (`c1`, `c2`) are enough for a worker to inherit another
  session's link, and for an update to succeed on one record and fail on
  the next.
* Two endpoints allow a real migration, and toggling them lets either
  succeed or fail.
* `reconnectable` ranges over both values in one run, so every property
  is checked with and without a control FIFO.
* `MaxWrites = 2` allows two queued writes run together in one read, or a
  second migration after a first.
* The `TooLong` path and the `BadPath` result cover both `read_sockaddr`
  outcomes.

The safety run uses symmetry over the sessions. The liveness runs do not.

### Fairness

* The supervisor gets weak fairness on its steps other than a poll error,
  because it is a single-threaded loop that runs whenever it is not blocked.
  `Poll` is enabled only when an fd is readable, which is exactly the
  blocking the code does.
* Fairness is stated on the supervisor's and workers' steps conjoined
  with `UNCHANGED reconnectable`, the form in which they occur in `Next`.
* Each worker's adoption of a channel on its link is weakly fair, because
  its main loop polls the link.
* The reconnector's steps are weakly fair. So are `run_single_server`'s
  setup steps, which are straight-line code.
* `main_interface_loop` (external) owes no exit, not even after SIGINT
  (`MainShutdown` is a possible step without fairness): spec 5 gives it
  the same test-the-flag-then-poll pattern that loses a signal in the
  supervisors (server.c:99, :366).
* In the fd-mirror test, the main thread and every worker thread are
  weakly fair. A worker is enabled only while a task is queued or
  running, which is when its condition-variable wait would return.
* Nothing is assumed of the environment.

The cfgs use `CHECK_DEADLOCK FALSE` because the supervisor blocks in poll
forever once the bounded environment has done everything. That is the
program's real behaviour, not a modelling artefact.

## Not modelled, and why

1. **fd-mirror details.** The dmabuf variant (`update_dmabuf`, and the dmabuf branch of `check_match`) has the same control as the file variant and needs a gbm device; it is not modelled separately. `check_match`'s type or size mismatch is never reached by two shadows of one file. The reverse pass applies with `dst_pool` instead of `src_pool` (fd_mirror.c:346). The pools share a codec, so no behaviour tells the two apart, and no property is stated. Spec S1 says odd passes run in reverse; the code (`fwd = i == 0 || i % 2`, fd_mirror.c:324) runs passes 1 and 3 forward and 2 and 4 in reverse. This is noted here, not checked.
2. `run_server`'s path-length arithmetic. It is modelled by its outcome only, because the checks restate `strlen(...) >= sizeof(sun_path)`. The environment variables given to the app are not modelled either.
3. The fds `run_server` leaves open when the application fork fails (server.c:544): the process exits right after, and the kernel closes them, so no property states that leak.
4. A composition of `RunServer` with the two supervisors through `INSTANCE`. The supervisors' only interface to `run_server` is their return code and what they close, which `RunServer`'s supervisor step takes from `MultiServer` and `SingleServer`; composing the three would multiply state spaces that are each checked in full already.
5. Out of scope: the shadow-fd registry, the codecs, the wire format and dmabuf. These are byte-level transformations that live outside this repository's `src/`.
