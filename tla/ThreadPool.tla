----------------------------- MODULE ThreadPool -----------------------------
(***************************************************************************)
(* The thread pool the fd-mirror test drives (spec 4.D). Tasks are pushed *)
(* at the queue's end under work_mutex; worker threads take them from     *)
(* queue_start, count them in queue_in_progress while they run, and break *)
(* on a TASK_STOP. The main thread drains a pool with wait_for_thread_pool *)
(* (src/test/fd_mirror.c), running queued tasks itself until the queue is *)
(* empty and nothing is in progress. The worker loop and the push live    *)
(* outside src/ and are modelled from the spec.                           *)
(*                                                                         *)
(* The queue is kept whole and queue_start indexes into it, so a task is  *)
(* never removed: queue_end is Len(queue[p]). The bytes on the self-pipe  *)
(* are read and discarded by the main thread and decide nothing, so the   *)
(* pipe is left out; usleep(100) is a step that changes nothing.          *)
(***************************************************************************)
EXTENDS Naturals, Sequences, FiniteSets

CONSTANTS
  Pools,       \* the pools of the process
  Tasks,       \* work items (a task_data of a type other than TASK_STOP)
  Stop,        \* a task_data of type TASK_STOP
  MaxWorkers,  \* the most worker threads a pool has
  NoPool       \* the main thread is not in wait_for_thread_pool

ASSUME Stop \notin Tasks /\ NoPool \notin Pools /\ MaxWorkers \in Nat

Workers == 1..MaxWorkers

VARIABLES
  queue,       \* queue[p]: every task pushed to p, in order
  qstart,      \* qstart[p]: queue_start
  inProgress,  \* inProgress[p]: queue_in_progress
  finished,    \* finished[p]: tasks whose run_task has returned
  wpc,         \* wpc[p][w]: "absent", "wait", "run" or "exited"
  wtask,       \* wtask[p][w]: the task worker w of p is running
  mwait,       \* the pool the main thread is draining, or NoPool
  mtask        \* the main thread's local task (Stop: task.type = TASK_STOP)

poolVars == <<queue, qstart, inProgress, finished, wpc, wtask, mwait, mtask>>

\* A pool has 0..MaxWorkers worker threads besides the main thread.
PoolInit ==
  /\ queue = [p \in Pools |-> <<>>]
  /\ qstart = [p \in Pools |-> 0]
  /\ inProgress = [p \in Pools |-> 0]
  /\ finished = [p \in Pools |-> {}]
  /\ wpc \in [Pools -> {[w \in Workers |-> IF w <= n THEN "wait" ELSE "absent"]
                          : n \in 0..MaxWorkers}]
  /\ wtask \in [Pools -> [Workers -> {Stop}]]
  /\ mwait = NoPool
  /\ mtask = Stop

QueueEmpty(p) == qstart[p] = Len(queue[p])
QueueHead(p)  == queue[p][qstart[p] + 1]
Spawned(p)    == {w \in Workers : wpc[p][w] # "absent"}

\* Tasks are appended with work_mutex held and the workers woken
\* (collect_update's enqueue). Only queue changes; the caller says what
\* else its step does.
Push(p, ts) == queue' = [queue EXCEPT ![p] = @ \o ts]

\* cleanup_thread_pool: one TASK_STOP per worker thread.
PushStops(p) ==
  Push(p, [i \in 1..Cardinality(Spawned(p)) |-> Stop])

\* A waiting worker takes the head task; a TASK_STOP ends it.
WorkerTake(p, w) ==
  /\ wpc[p][w] = "wait"
  /\ ~QueueEmpty(p)
  /\ qstart' = [qstart EXCEPT ![p] = @ + 1]
  /\ IF QueueHead(p) = Stop
       THEN /\ wpc' = [wpc EXCEPT ![p][w] = "exited"]
            /\ UNCHANGED <<inProgress, wtask>>
       ELSE /\ wpc' = [wpc EXCEPT ![p][w] = "run"]
            /\ wtask' = [wtask EXCEPT ![p][w] = QueueHead(p)]
            /\ inProgress' = [inProgress EXCEPT ![p] = @ + 1]
  /\ UNCHANGED <<queue, finished, mwait, mtask>>

\* run_task returns; under work_mutex the worker decrements
\* queue_in_progress and writes a byte to the self-pipe.
WorkerFinish(p, w) ==
  /\ wpc[p][w] = "run"
  /\ finished' = [finished EXCEPT ![p] = @ \cup {wtask[p][w]}]
  /\ inProgress' = [inProgress EXCEPT ![p] = @ - 1]
  /\ wpc' = [wpc EXCEPT ![p][w] = "wait"]
  /\ wtask' = [wtask EXCEPT ![p][w] = Stop]
  /\ UNCHANGED <<queue, qstart, mwait, mtask>>

\* Variant: done ignores the tasks still running on worker threads.
DrainDoneIgnoringWorkers(p) == QueueEmpty(p)

\* done = queue_end == queue_start && queue_in_progress == 0;
DrainDone(p) == QueueEmpty(p) /\ inProgress[p] = 0

\* Variant: the main thread never runs a task itself.
MainTakesNothing(p) == FALSE

\* if (queue_start < queue_end && queue[queue_start].type != TASK_STOP)
MainTakes(p) == ~QueueEmpty(p) /\ QueueHead(p) # Stop

\* One pass of the while (!done) loop up to the unlock: read the
\* self-pipe, then under work_mutex decide done and take the head task
\* if there is one. With no task and not done, usleep and loop; with
\* done, return.
WaitForThreadPool ==
  /\ mwait # NoPool /\ mtask = Stop
  /\ LET p == mwait IN
       IF MainTakes(p)
         THEN /\ mtask' = QueueHead(p)
              /\ qstart' = [qstart EXCEPT ![p] = @ + 1]
              /\ inProgress' = [inProgress EXCEPT ![p] = @ + 1]
              /\ UNCHANGED mwait
         ELSE /\ mwait' = IF DrainDone(p) THEN NoPool ELSE mwait
              /\ UNCHANGED <<mtask, qstart, inProgress>>
  /\ UNCHANGED <<queue, finished, wpc, wtask>>

\* The main thread runs the task it took (run_task on threads[0]) and
\* decrements queue_in_progress under work_mutex.
MainRunTask ==
  /\ mwait # NoPool /\ mtask # Stop
  /\ finished' = [finished EXCEPT ![mwait] = @ \cup {mtask}]
  /\ inProgress' = [inProgress EXCEPT ![mwait] = @ - 1]
  /\ mtask' = Stop
  /\ UNCHANGED <<queue, qstart, wpc, wtask, mwait>>

\* Steps of the worker threads.
WorkerNext(p, w) == WorkerTake(p, w) \/ WorkerFinish(p, w)

\* Steps of the main thread inside wait_for_thread_pool.
MainDrainNext == WaitForThreadPool \/ MainRunTask
=============================================================================
