------------------------------ MODULE FdMirror ------------------------------
(***************************************************************************)
(* The fd-mirror round trip of src/test/fd_mirror.c: test_mirror shadows a *)
(* file on a source map, then for five passes changes one side (update_   *)
(* file), and test_transfer collects the change on that side's pool,       *)
(* drains the pool (wait_for_thread_pool, module ThreadPool), applies the *)
(* blocks on the other side and compares the two files (check_match).     *)
(* Finally both pools are torn down.                                       *)
(*                                                                         *)
(* A file is a function from byte positions to byte values; a test byte at *)
(* 0-based offset k starts as k mod 256. collect_update, the diff tasks    *)
(* and apply_update live outside src/ and are modelled from spec 4.E: a   *)
(* damaged file is split into one task per byte position, a task emits a  *)
(* block for its position if the file differs from the side's mirror copy *)
(* and then updates that copy, and applying a block writes the file and   *)
(* the receiving side's copy.                                              *)
(***************************************************************************)
EXTENDS Integers, Sequences, FiniteSets

CONSTANTS
  Size,        \* test_size, scaled down
  Missing,     \* no byte: a side with no file or no mirror copy yet
  MaxWorkers,
  Stop,
  NoPool

Bytes   == 1..Size
\* for (int i = 0; i < 5; i++)
NPasses == 5
Sides   == {"src", "dst"}
Tasks   == (0..NPasses - 1) \X Bytes

VARIABLES
  round,       \* i of test_mirror
  mpc,         \* where the main thread is
  content,     \* content[side]: the file's bytes on that side
  mirror,      \* mirror[side]: that side's copy of what was last mirrored
  ndiff,       \* the value update_file returned (-1: mmap failed)
  pass,        \* pass of test_mirror
  mapFail,     \* an mmap in the last check_match failed
  queue, qstart, inProgress, finished, wpc, wtask, mwait, mtask

mirrorVars == <<round, mpc, content, mirror, ndiff, pass, mapFail>>
vars == <<mirrorVars, queue, qstart, inProgress, finished, wpc, wtask, mwait, mtask>>

Pool == INSTANCE ThreadPool WITH Pools <- Sides, Tasks <- Tasks

\* Variant: the first pass is sent like any even one.
FwdOddOnly(i) == i % 2 = 1

\* bool fwd = i == 0 || i % 2; the sending side, whose pool collects.
Fwd(i)    == i = 0 \/ i % 2 = 1
Sender(i) == IF Fwd(i) THEN "src" ELSE "dst"
Receiver(i) == IF Fwd(i) THEN "dst" ELSE "src"

\* test_pattern[i] = (uint8_t)i
Pattern == [b \in Bytes |-> (b - 1) % 256]

\* What update_file may do: no change (rand() % 11 == 0), a failed mmap,
\* or start = rand() % sz and end = rand() % sz, swapped into order.
UpdateOutcomes == {"nochange", "mmap_fails"} \X {<<0, 0>>}
                  \cup {"memset"} \X ((0..Size - 1) \X (0..Size - 1))

\* memset(data + start, seqno, end - start) after ordering start and end.
Memset(f, s, e, v) ==
  LET lo == IF s <= e THEN s ELSE e
      hi == IF s <= e THEN e ELSE s
  IN  [b \in Bytes |-> IF lo <= b - 1 /\ b - 1 < hi THEN v ELSE f[b]]

Span(s, e) == IF s <= e THEN e - s ELSE s - e

\* check_match(orig_fd, copy_fd, ...): both files are mapped and compared
\* with memcmp; a failed mmap fails the check. Both shadows are of the
\* same type and size, so the early return on a mismatch is never taken.
CheckMatch(orig, copy, mapped) == mapped /\ orig = copy

Init ==
  /\ round = 0 /\ mpc = "update"
  /\ content = [d \in Sides |-> IF d = "src" THEN Pattern ELSE [b \in Bytes |-> Missing]]
  /\ mirror = [d \in Sides |-> [b \in Bytes |-> Missing]]
  /\ ndiff = 0 /\ pass = TRUE /\ mapFail = FALSE
  /\ Pool!PoolInit

\* One pass up to the drain: ndiff = i > 0 ? update(...) : sz. On -1 the
\* loop breaks. Otherwise the sender's shadow is marked dirty and fully
\* damaged, collect_update enqueues a task per position on the sender's
\* pool, and the main thread enters wait_for_thread_pool.
UpdateAndCollect(o) ==
  /\ mpc = "update"
  /\ round = 0 => o = <<"nochange", <<0, 0>>>>
  /\ LET S == Sender(round)
         kind == o[1]
         s == o[2][1]
         e == o[2][2]
     IN  IF kind = "mmap_fails"
           THEN /\ ndiff' = -1 /\ pass' = FALSE
                /\ mpc' = "stop_src"
                /\ UNCHANGED <<content, queue, mwait>>
           ELSE /\ ndiff' = CASE round = 0       -> Size
                              [] kind = "nochange" -> 0
                              [] OTHER            -> Span(s, e)
                /\ content' = IF kind = "memset"
                                THEN [content EXCEPT ![S] = Memset(@, s, e, round)]
                                ELSE content
                /\ Pool!Push(S, [b \in Bytes |-> <<round, b>>])
                /\ mwait' = S
                /\ mpc' = "drain"
                /\ UNCHANGED pass
  /\ UNCHANGED <<round, mirror, mapFail, qstart, inProgress, finished, wpc, wtask,
                 mtask>>

\* The rest of test_transfer once wait_for_thread_pool has returned, and
\* the tail of the pass in test_mirror. The blocks are those the finished
\* tasks emitted. With ndiff == 0 any block fails the pass; otherwise no
\* block fails it, and else the blocks are applied on the receiver and the
\* files compared by check_match, whose mmaps succeed when mapped holds.
TestTransfer(mapped) ==
  /\ mpc = "drain" /\ mwait = NoPool
  /\ LET S == Sender(round)
         R == Receiver(round)
         ran == {b \in Bytes : <<round, b>> \in finished[S]}
         blocks == {b \in ran : content[S][b] # mirror[S][b]}
         applied == [b \in Bytes |-> IF b \in blocks THEN content[S][b] ELSE content[R][b]]
         checked == ndiff # 0 /\ blocks # {}
         subpass == IF ndiff = 0 THEN blocks = {}
                    ELSE blocks # {} /\ CheckMatch(content[S], applied, mapped)
     IN  /\ mirror' = [mirror EXCEPT
                         ![S] = [b \in Bytes |-> IF b \in ran THEN content[S][b] ELSE @[b]],
                         ![R] = IF ndiff # 0 /\ blocks # {}
                                  THEN [b \in Bytes |-> IF b \in blocks THEN content[S][b] ELSE @[b]]
                                  ELSE @]
         /\ content' = IF ndiff # 0 /\ blocks # {} THEN [content EXCEPT ![R] = applied]
                       ELSE content
         /\ pass' = (pass /\ subpass)
         /\ mapFail' = (checked /\ ~mapped)
         /\ round' = round + 1
         /\ mpc' = IF pass' /\ round + 1 < NPasses THEN "update" ELSE "stop_src"
  /\ UNCHANGED <<ndiff, queue, qstart, inProgress, finished, wpc, wtask, mwait, mtask>>

\* cleanup_thread_pool(&src_pool), then (&dst_pool): push a TASK_STOP for
\* every worker, then join them.
StopPool(p) ==
  /\ mpc = "stop_" \o p
  /\ Pool!PushStops(p)
  /\ mpc' = "join_" \o p
  /\ UNCHANGED <<round, content, mirror, ndiff, pass, mapFail,
                 qstart, inProgress, finished, wpc, wtask, mwait, mtask>>

JoinPool(p) ==
  /\ mpc = "join_" \o p
  /\ \A w \in Pool!Spawned(p) : wpc[p][w] = "exited"
  /\ mpc' = IF p = "src" THEN "stop_dst" ELSE "finished"
  /\ UNCHANGED <<round, content, mirror, ndiff, pass, mapFail,
                 queue, qstart, inProgress, finished, wpc, wtask, mwait, mtask>>

\* Every step of the main thread.
MainNext ==
  \/ \E o \in UpdateOutcomes : UpdateAndCollect(o)
  \/ \E mapped \in BOOLEAN : TestTransfer(mapped)
  \/ \E p \in Sides : StopPool(p) \/ JoinPool(p)
  \/ Pool!MainDrainNext /\ UNCHANGED mirrorVars

Next ==
  \/ MainNext
  \/ \E p \in Sides, w \in Pool!Workers : Pool!WorkerNext(p, w) /\ UNCHANGED mirrorVars

\* Every thread is scheduled while it can run: the main thread, and each
\* worker thread while it has a task or one is queued.
Spec ==
  /\ Init /\ [][Next]_vars
  /\ WF_vars(MainNext)
  /\ \A p \in Sides, w \in Pool!Workers : WF_vars(Pool!WorkerNext(p, w) /\ UNCHANGED mirrorVars)

-----------------------------------------------------------------------------
(* Properties.                                                             *)

\* What test_transfer relies on when wait_for_thread_pool returns: every
\* task collect_update queued for this pass has run to completion, on the
\* main thread or on a worker, so no block is still being written into
\* transfer_data when the blocks are combined.
DrainCompletesPass ==
  (mpc = "drain" /\ mwait = NoPool) =>
    \A b \in Bytes : <<round, b>> \in finished[Sender(round)]

\* The test ends: every drain returns, whatever the number of worker
\* threads (none included), and every worker takes its TASK_STOP and is
\* joined.
TestTerminates == <>(mpc = "finished")

\* The test's verdict is sound: it reports a failure only when an update
\* failed, check_match could not map the files, or the two files really
\* differ (spec S1: contents must match end to end).
VerdictSound ==
  (mpc = "finished" /\ ~pass) =>
    (ndiff = -1 \/ mapFail \/ content["src"] # content["dst"])

\* The round trip implements MirrorSync: a side's file is the test file's
\* content, and the sender is dirty from the update until test_transfer
\* has applied its blocks.
Sync == INSTANCE MirrorSync WITH
  Files <- [Bytes -> (0..255) \cup {Missing}],
  files <- content,
  dirty <- IF mpc = "drain" THEN {Sender(round)} ELSE {}

\* Whatever the pools' interleaving and whatever update_file did, every
\* pass writes only the sending side and its transfer leaves the receiving
\* side byte for byte equal to it (spec S1), including passes the test
\* counts as failed.
MirrorSyncSpec == Sync!Spec
=============================================================================
