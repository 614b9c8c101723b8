# Verification of repid-benchmarks in TLA+

`repid-benchmarks` measures five Python task-queue frameworks (repid, celery,
dramatiq, taskiq, faststream) on RabbitMQ. A suite (`run_all.py`) starts one
runner process per measurement (`benchmarks/_runner.py`). The runner starts
publisher and worker processes, watches a completion counter that the workers
share, prints a report and cleans up. Nothing in it is a long algorithm; what
makes a number in the results wrong is the way these processes overlap, die and
are stopped. That is what is modelled here.

The modules are checked with TLC on small instances, and what matters most is
proved with TLAPS for every value of the constants.

## The system

| Component | State | Operations | Talks to |
|---|---|---|---|
| Suite, `run_all.py` | results in memory, two CSV files, a metadata file, a counts file, the order of the runs | calibrate, plan messages, run once (start a runner, read its output, kill it after the limit + 180 s), append rows, resume | runner (process, stdout), CSV files |
| Runner, `_runner.py:run` | its configuration file, the counter file, the latency file, the queue | reset or delete the queue, one of four modes, cleanup in `finally` | all below |
| Drain run, `_runner.py:298-354`, `_work.py:106-188` | milestones, `TASKS_DONE`, `STATUS` | publish all, start workers, poll, report, stop | counter, workers, queue |
| Burst run, `_runner.py:517-575` | the same and queue snapshots | start workers, wait for consumers, publish one burst, poll | counter, workers, queue |
| Steady run, `_runner.py:578-644` | warmup count, publisher processes | start workers and publishers, read clock and counter until the window is over | counter, workers, publishers, queue |
| Latency run, `_runner.py:412-472` | backlog, samples | publish at a rate, drain until a deadline, read the samples | latency file, workers, queue |
| Completion counter, `_processes.py:19-41`, `multiprocessing.Value` | eight bytes and a lock | increment (workers), read (runner) | |
| Latency file, `_work.py:39-92` | a count and one slot per measured message, a flock | record (workers), count and read (runner) | |
| Publisher pool, `_runner.py:126-262`, `_publisher.py` | processes, reader threads, progress | split, start, wait, collect errors, terminate | publishing loops |
| Publishing loops, `_publishing.py` | messages left, errors | coroutines or threads that send | RabbitMQ |
| Workers, `adapters/*.py` | the tasks they hold | run a task, count it, record its latency, acknowledge it | RabbitMQ, counter, latency file |
| RabbitMQ, `_rabbitmq.py` | queues, unacknowledged messages | deliver, requeue, delete, purge, count consumers | |
| Termination, `_processes.py:44-77` | processes and a deadline | ask, wait, kill | workers, publishers |
| Tables and plots, `plot_benchmarks.py` | | read the CSV files, average, draw | CSV files |

What is hard, component by component, and what correctness means there:

- **Counter.** Worker processes read, add and write without any atomic
  instruction; the runner reads one of the two kinds without its lock. Workers
  can die at any point. Correct: it is a counter that is incremented in one
  step, it never goes back for the runner, and a death costs at most the
  increment that was being made.
- **Queue and workers.** Delivery is at least once: a task is counted before it
  is acknowledged, so a worker that ends in between makes it be counted again.
  Correct: the counter is wrong by no more than what the ended workers held.
- **Drain run.** The poll is a sequence of separate reads of counter and clock;
  publishing and starting may fail half way; a worker may die unnoticed.
  Correct: `ok` means that everything was executed, but for what workers that
  died held (at most their prefetch);
  milestones and `TASKS_DONE` agree; nothing runs after the exit; the run ends.
- **Steady run.** Publishers, workers, clock and runner move together, and the
  loop has three exits. Correct: warmup completions are not measured;
  `exhausted` means that the publishers ran dry; the run ends even if nothing
  is ever executed; nothing is left running.
- **Latency file.** Redelivered tasks take more samples than there are slots;
  the runner reads while workers write. Correct: the percentiles come from true
  samples, each of them once, and the three counts of the report agree.
- **Publisher pool and loops.** Concurrency inside one process, and errors that
  are collected at the end. Correct: success means that every message was sent
  once, and one failure does not hide another.
- **Termination.** Correct: no process of the list is left, in bounded time.
- **Suite.** Can be killed between any two writes and resumed. Correct: every
  run of the plan has one row when it is over, timeouts and errors are not in
  the averages, and the three files follow one another.
- **Message counts.** Presets, numbers of the user, calibrated numbers and a
  file of them made for another selection meet in one function. Correct: what
  has a preset is run, a steady run has enough messages for its window, and a
  stopped calibration leaves no file that passes for a whole one.
- **Charts.** The files are read four times while a suite may write them, and
  what is comparable is decided by the ends of names. Correct: a chart has the
  rows it is about and no others; labels can be read.

## The modules

    EventCounter                       the counter as it should be
        ^  implements
    SharedCounter    <- Counting_proofs          flock or lock, one step per memory access

    WorkQueue        <- WorkQueue_proofs         queue, workers, counter of one run
        ^  extends (and implements)
        |-- DrainRun     <- DrainRun_proofs      modes base, hc, cpu, nogt
        |-- BurstRun     <- BurstRun_proofs      mode burst
        `-- SteadyRun    <- SteadyRun_proofs     mode steady      (MCSteadyRun)

    LatencyFile      <- LatencyFile_proofs       the samples and who reads them
        ^  extends and implements
    LatencyRun       <- LatencyFile_proofs       mode latency: the file and WorkQueue (INSTANCE)

    Publisher                          what publishing promises
        ^  implement
        |-- PublishAsync                         coroutines of one event loop
        |-- PublishThreaded                      threads with a common count
        |-- PublisherPool                        processes, pipes and reader threads
        `-- Publishing   <- Counting_proofs      _publish: one of the three (INSTANCE)

    Shutdown                           ask, wait, kill, wait: the end of a list of processes
        ^  INSTANCE
    RunOnce          <- RunAll_proofs            one runner: timeout, outcome, what is left
    MessageCounts    <- RunAll_proofs            calibration, counts file, plan  (MCMessageCounts)
    Suite            <- RunAll_proofs            the plan, the CSV files, --resume

    ChartLabels      <- Charts_proofs            placing of labels above one another
        ^  extends
        `-- Charts   <- Charts_proofs            readings, rows and points of charts  (MCCharts)

Time and data are abstracted in the same way everywhere. A message is a model
value and what is kept of it is where it is. A time limit or a window is a
variable that may change to "passed" at any moment, which covers every
duration. Sleeps, printing and formatting are left out. `slips` in a module are
wrong variants of its operations, used by no action; each is one bug that a
property is meant to notice.

### EventCounter and SharedCounter

`EventCounter` has a `value` that is incremented in one step, and reads of it.
`SharedCounter` is what the code does: `Acquire`, `Load`, `Store`, `Release`
are the lines of `counter_incr_mmap` (`_processes.py:29-36`), or those of
`_counter.value += 1` under `get_lock()` for the `Value` kind; which of the two
an adapter uses (`COUNTER_KIND`) is the variable `kind`, chosen at the start. `Crash(w)` can happen between any two of them; the
kernel frees a flock and leaves a semaphore as it is. The runner's poll reads
the mapping at once (`ReadMmap`) or takes the lock of the `Value` first
(`LockValue`, `ReadValue`). A worker that dies while it holds the lock of a
`Value` never gives it back (`LockLost`): the other workers stop counting, and
the runner's poll does not return. The liveness properties say that this is the
only such case. `holder` is who has the lock, `copy` what it read under it;
`wrote` and `seen` are history.

### WorkQueue

One queue, its messages and the worker processes. `loc[m]` goes from `unsent`
over `queued`, `delivered`, `counted` to `acked`, back to `queued` when the
holder's connection ends, or to `purged`. A worker process is one AMQP
connection: it holds at most `Prefetch` messages, and when it ends in whatever
way (`Stop` by the runner, `Crash`) what it held is requeued. `RunTask` is the
body of `benchmark_task` up to and including the increment; `Ack` follows it,
as with `acks_late=True` and `--ack-type when_executed`. That the increment can
be one step, which a live worker takes in the end, is what `SharedCounter` shows,
with one exception, and that is kept here. If `CounterKind` is `"value"`, a worker
may die in the critical section (`CrashInLock`), before or after its store, and
take the lock with it: `lockLost` is then true for ever, `RunTask` is not enabled for
any worker, nor is any read of the counter by the runner of a drain, steady
or burst run. A worker that the runner ends inside the lock matters to nobody:
the others are being ended too, and no read of the counter follows. Every run has
`CounterKind = "value"`, whose behaviours include all of `"mmap"`; for
`"mmap"` `lockLost` stays false, so the exceptions below never excuse such a run.
The theorems hold for both. `PurgeQueue` and `DeleteQueue` are
the two management requests; a best-effort request that fails changes nothing.
Deleting a queue does not take away what a live worker already holds. The
auxiliary queues (`.DQ`, `.XQ`, `.dead_letter`) are not modelled: tasks do not
fail here, so nothing is ever routed to them.

`WorkNext` is everything that can happen to the queue in any mode, and
`WorkSpec` the specification that each run implements.

### DrainRun

`run()` and `_run_value_counter` / `_run_mmap_counter`, from the publish to the
cleanup. `pc` is the runner's place in it:
`publish -> start -> poll <-> check -> expired -> stopping -> purge -> cleanup -> exit`.
Each read of the counter is a step: `Poll` (`_work.py:170-178`) records the
milestones and may end the run; `CheckTime` looks at the clock;
`ReportTimeout` reads the counter again (lines 181-186). `StopWorker` and
`WorkersStopped` are `_stop_workers`, `PurgeAfterTimeout` is line 709 of
`run()`, `Cleanup` its `finally`. `PublishFails` sends any part of the messages
and raises; `StartFails` starts any part of the workers and raises, and since
the list of workers has not been returned nobody stops them. The constant
`Thresholds` stands for `_milestone_thresholds`. The branch
`publish_first = False` cannot be reached: the modes that come here are the
four of its condition.

### SteadyRun

`_run_steady` and the cleanup. Each publisher is a process with its share of
the messages (`Chunk`), that sends them one at a time and ends done or failed.
`clock` is the phase the time is in, `now` the phase of the last reading:
`ReadNow` and `ReadCount` are lines 604 and 605, and the three exits of the
loop are `WindowOver`, `Exhausted`, `PublisherFailed`, in the order in which
the code tests them. `atWarmupEnd` (the counter when the warmup ended) and
`failedBefore` (publishers that had failed when the clock was last read) are
history for two properties. A failed start of a publisher (`LaunchFails`)
leaves those already started running: `_start_publishers` has not returned.

### BurstRun

`_run_burst_recovery` and the cleanup of `run()`. It differs from a drain in
what overlaps: workers are up before the first message is sent, and work while
the publish goes on (`PublishOne`, `Published`); the time limit starts when the
publish ends; on a timeout the queue is purged while the workers still hold
tasks (`TimeOver`), and the number reported is one more read of the counter
(`ReadReport`), capped at the total. `ConsumersReady` and `ConsumersTimeout`
are the two ends of `wait_for_consumers`.

### Publisher, PublishAsync, PublishThreaded, PublisherPool, Publishing

`Publisher` is the promise: a count of sent messages that goes up one at a time
to `Messages`, a progress that goes up and is never ahead of it, and a result
that is `ok` only when all are sent. `Publishing` is `_publish`: `way` says which
of the three modules it takes, and its refinement mapping to `Publisher` takes
from each what it sends and what it prints. The variables of the two that are
not taken stay `Unused`.

`PublishAsync` is `publish_async` in the loop of `publish_async_bursts`. A
coroutine runs alone from one await to the next (`Resume`); its send returns,
raises or is cancelled; `Gathered` is the return of `gather`. A plain publish is
one burst of all messages. A send that ends with `asyncio.CancelledError` is not
among the errors, so that a publish can succeed without its message: `lost`
counts these, and `sent + lost` is the `sent` of `Publisher`. `PublishThreaded` is `publish_threaded` and
`publish_threaded_chunks`: the increment of the common count is a read (`Lock`)
and a write (`Add`) with the lock held, errors are appended under the same lock,
and the main thread prints what it reads under it. `PublisherPool` is `_publish`:
`SendOne`, `PrintEnqueued`, `PrintBurst`, `Exit` and `Fail` of a publisher
process, a pipe with room for few lines, `ReadEnqueued` and `ReadBurst` of its
reader thread, and the parent from `Launch` to `CleanedUp`. It is the mode burst,
in which two kinds of lines are turned into one number; without it a chunk is
one burst and there is no burst line. The sum of what the publishers have sent
is the `sent` of `Publisher`.

### Suite and RunOnce

`Suite` is the part of `main()` in `run_all.py` from `throughput_results` to the
tables. The CSV files are sequences of lines, with a buffer of what has been
written and not flushed: `WriteRow` and `WriteLatencyRow` are a write and its
flush, `Start` and `Resume` open the files and leave a header in the buffer. Of
the metadata file it is kept how many lines it has of each run (`WriteMetadata`,
which comes before the row). The end of the program, however it comes, loses
what it had in memory (`Forget`).
`Interrupt` closes the files, `Kill` loses the buffers. `Resume` reads the file
as `csv.DictReader` does, that is, takes whatever comes first for the header.

`RunOnce` is `run_once` with the runner it starts. The runner is seen from
outside: what it creates before its `try` (`DeclareQueue`, `CreateFile`), the
processes of its mode, its STATUS line and its `finally`. Workers live in the
runner's process group (multiprocessing) or in sessions of their own
(subprocesses); the difference decides what a kill of the group leaves. With
`keepQueue` (`--keep-queues`) the `finally` empties the queue and leaves it. A steady run one of
whose publishers failed reports `error` and exits with zero (`Report`).

`Shutdown` is `terminate_processes` and `terminate_multiprocessing`. `Ask` takes
the list, `WaitReturns` and `Kill` are the two ends of the wait of one process,
`WaitRaises` and `JoinGivesUp` what happens to the two kinds of processes five
seconds after SIGKILL. `RunOnce` says who is in which list: `held` gets the
workers when all have been started (a `StartWorkersFails` leaves some running
that are in no list), and the publishers one by one in `_publish`, all at once in
a steady run. `PublishersStopped` and `WorkersStopped` are the order of the two
stops, and `WaitRaises` says where the exception of the first leads: past the
second in a steady run, to it otherwise.

### MessageCounts

The part of `main()` before the runs: `StartWithFile`, `StartCalibrating` and
`StartWithTable` are the three ways to come by `calibrated_counts`, `Calibrate`
is one run of `calibrate_message_counts` with its throughput or its failure,
`OpenFile` and `Dump` are the two effects of writing the counts file, between
which a stop leaves it torn. `MessagesFor` is `messages_for`, `SteadyFloor`
`steady_message_floor`, `Suggest` one line of `suggest_message_counts`.
`Rounded` is Python's `round`, ties to even, in integers: throughputs are
multiples of a message per second and the target is in seconds. `Stop` ends the
program anywhere; the next start may select other benchmarks. The constants
`Table` and `Base` are any presets; `filePairs` is history.

### Charts, ChartLabels

`Charts` is `main()` of `plot_benchmarks.py`. `Load` is one of the four readings,
`Categories` says which charts follow it, `DrawChart` and `DrawScatter` begin a
chart, `SaveChart` ends it and keeps in `saved` which rows it shows. Names are the
sequences of parts that `_` joins, so that `SplitFramework` can be wrong about
them. A file is a set of lines, without its header between its creation and its
first flush (`Unheaded`), when two of the readings raise and the other two
return nothing. The suite is there with what it does to the files
(`BeginFiles`, `WriteRow`, `WriteLatencyRow`, `CloseFiles`); it acts where a
reading is due, because in between the program looks at no file. `SortColumn`
computes the points of one column of labels from the rows (averages are
rounded) and `ChartLabels` places them, one `PlaceLabel` for each turn of the
loop. `DrawScatter` draws its points; the rules by which the labels of the scatter
chart are moved about are left out. `Load` is one step: the code reads a file in
blocks, and a suite could begin it anew between two of them.

### LatencyFile and LatencyRun

`LatencyFile` is `record_latency_to_file` step by step, with the flock dropped by
a death, and the reads of `_run_latency_controlled`: backlog, drain or deadline,
the count that is printed, and the unlocked read of the slots for the
percentiles. What the slots hold is told apart by worker and number.

`LatencyRun` is the whole of `_run_latency_controlled` around it, with the queue
of `WorkQueue`. `PublishOne` is a round of the loops at a fixed rate, first for
the warmup, then for the measured messages. `TaskEnds` is the end of the work of
a measured message, which takes a sample; the worker then records it in the
steps of the file, and `TaskCounted` and the acknowledgement come after that, so
that a death between them has the message sampled twice. `TimeOver` is the read
that finds the time over, `Purge` the purge after it, beside the workers. The
runner of this mode never reads the completion counter, so a lost lock of a
`Value` stops its workers only. `taken`
and `inHand` are history: the messages each worker began to record, and those
that workers had in hand when the purge was done.

## The runs

| Run | Instance | What it shows |
|---|---|---|
| `counter` | both kinds, 2 workers, 2 tasks each, 2 deaths | implements `EventCounter`, reads included; unless a dead worker keeps the lock of a `Value`, polls return and survivors count everything |
| `drain` | 3 messages, 2 workers, prefetch 2, 2 deaths | the safety of the report, quiet after the exit; the run ends, by redelivery as long as a worker survives, else by the time limit, unless it waits for a lock a dead worker kept |
| `drain_crash_reported` | 2 messages, 2 workers, 1 death | **violated**: a worker crash does not make the run fail |
| `steady` | 3 messages in chunks 2 and 1, 2 publishers, 1 worker, prefetch 2, 1 death | what is measured, what `exhausted` means, `WorkSpec`, that a failed publisher ends the run, that the run ends, with the same exception, and is quiet afterwards |
| `burst` | 3 messages, 2 workers, 1 death, kept queue | the report covers its milestones, a complete burst was executed but for what dead workers held, the run ends, with the same exception, and is quiet although the purge comes before the stop |
| `latency` | 1 warmup and 2 measured messages, 2 workers, prefetch 1, 1 death | slots, percentiles, the three counts; the latencies are of measured messages, of all of them in an ok run but for redeliveries, and after a purge few are added; the flock is given back; the run ends |
| `publishing` | each way: 7 messages in bursts of 5; 3 coroutines, 2 cancelled sends in a burst; 3 threads, batches of 2; 2 publishers, pipes of 2 lines | implements `Publisher` but for messages of cancelled sends; a bad send costs its own message only, no batch is lost or counted twice, no publisher is left; publishing ends |
| `suite` | 3 runs, 2 with latency rows, 1 warmup, 3 starts | averages match the file, every run has a row, the three files differ by no more than the stops, and it ends |
| `suite_resume` | 2 runs, 3 starts | **violated**: a resumed suite runs a completed run again |
| `run_once` | 2 temporary files, 2 workers, 2 publishers, queue deleted or kept | what counts as a result is one of a clean run, in spite of starts and stops that fail half-way; what the runner holds it stops, unless a subprocess outlives SIGKILL; nothing of the runner's group is left; it always returns |
| `message_counts` | 3 benchmarks (base, steady, one without preset), 2 starts, throughputs 10 and 350 | a counts file is whole or unreadable; what has a preset is run; steady runs are covered |
| `charts` | 10 runs of 2 frameworks, 172 contents of the files, 2 writes | charts have the rows they should and no others; the labels above one another |

An invariant called `Inv` (`CountsInv`, `SuiteInv`) is the type invariant of its module with the smaller
state invariants, each a definition of its own. The type invariants of `DrainRun`,
`SteadyRun` and `LatencyFile` are not among the runs' properties, they are proved.
`WorkSpec` and `EventCounter!Spec` are checked as properties of the detailed
specifications, and proved. Every property of a passing run fails when the
operation it watches is replaced by one of the slips.

Bounds. Two processes are needed for an interleaving, and two suffice for a
pair of conflicting accesses. Three messages with a prefetch of two
let one worker hold several messages while another one, or nobody, has the
rest; with two deaths both workers of a drain run can be lost, and a message
can be counted twice. A measured message that is
sampled twice meets the capacity test of the latency file, with a worker at the
last free slot and one behind it; a larger instance (three measured messages, 11
million states) has been checked once without error.
Two publishers with chunks of
two and one let one be done, the other failed or running. The publishing loops
have messages, bursts and batches that do not divide each other, so that the
last burst and the last batch are short ones and, with three coroutines and a
burst of two left, one coroutine is not used. Three starts of the suite are what a
header needs to be lost, missed and misread. Two starts are what a counts file
needs to be made for one selection and used for another; the two throughputs
give a number below the least count and one that is rounded, and the floor of
the steady benchmark lies above its preset. The charts have two rows at one
point, a framework with two durations, one with runs of every kind, and up to
two rows missing, or all but two; `FirstLines` names these contents and those of
a suite that has only begun. `MaxCrashes`, `MaxCancelled`,
`MaxStarts`, `MaxInvocations`, `MaxWrites`, `PipeSize`, `TasksPerWorker` and `SamplesPerWorker` bound counters in the guards, `Given`, `Throughputs` and
`FirstLines` bound inputs, and all are constants of the modules, so that the proofs hold for all their values.

Deadlock is not checked in runs whose processes stop: a run that is over, or a
`Value` lock that a dead worker holds.

### Fairness

`Fairness` in each module says only what the operating system and the broker
give: a process that can go on goes on (weak fairness of the runner and of the
workers' steps), and somebody who waits for a lock that keeps becoming free
gets it (strong fairness of `Acquire` and `LockValue`; waiters of a flock or a
semaphore are woken, and the runner sleeps between polls). In the drain run no
clock is assumed to go on, so that `EveryRunEnds` shows where it is needed. In
the steady run only the runner, the start and stop of processes, and
the clock are fair: publishers and workers owe nothing, so `SteadyRunEnds`
holds even if no message is ever sent or executed. In the latency run it is the
same, but that its publishing goes on or fails. A read of the counter is fair
where it is enabled, and it is not while a dead worker has the lock of a `Value`:
`ReadBlocked` says that the runner waits in such a read, and is the exception in
`EveryRunEnds`, `SteadyRunEnds` and `BurstRunEnds`, which are false without it. The
workers of a drain run are fair in `RunTask` for the same reason: it is disabled
for good once the lock is lost. In the publishing modules a
send comes back, one way or the other, and publishers of the pool that do not
fail go on. In `RunOnce` only the caller and its clock are fair: the runner may
hang anywhere. Crashes, kills and failures are never fair, except where a step
has nothing but a good and a bad end.

### Where code and documents disagree

The violated runs state sentences of the repository's README; the findings in
`PROJECT.json` quote the lines.

- "Failure propagation: publisher exceptions and worker crashes cause the run to
  fail with `status=error`" (`drain_crash_reported`): nothing looks at the worker
  processes while a run lasts, and it ends as `ok` or `timeout`.
- `--resume` "skip already-completed ok runs" (`suite_resume`): a suite that is
  killed in its first run leaves an empty file, and what is appended to it has no
  header. One row is then taken for the header and its run repeated; two rows
  make the next resume end with a `KeyError`.

The passing runs contain four more places where the code does less than the
README says in general terms; each is an exception written into a property.

- The time limit is void while a poll blocks on the lock of a `Value` that a dead
  worker holds (`LockLost` in `PollReturns`, `ReadBlocked` in `EveryRunEnds`,
  `SteadyRunEnds` and `BurstRunEnds`); the runner is then killed by `run_once` 180 s
  after the limit.
- The steady loop tests its window and its total before it looks at its
  publishers, so a failure in the last pass leaves `ok` or `exhausted`
  (`PublisherFailureEndsRun`).
- `publish_async` looks for `Exception`, and `asyncio.CancelledError` is none
  (`lost` in `ImplementsPublisher`). If all coroutines of a burst are cancelled,
  which the bound excludes, the messages nobody took are lost as well.
- The cleanup of a run is in the runner's `finally`, which a runner that is
  killed by the outer timeout does not reach: its queue, its files, and workers
  and publishers in sessions of their own stay (`GroupIsGone` says what does
  not).

Three more things were met while reading and are in no model.

- With `--worker-log-dir` the keyword `_log_handle` of `subprocess_kwargs`
  (`_processes.py:94`) is passed on to `subprocess.Popen`, which does not know it,
  so that the start of celery, dramatiq and taskiq workers raises.
- `--resume` reads back the throughputs of completed runs and not their latencies
  (`run_all.py:521-533`): the latency tables of a resumed suite average the runs
  of that invocation only, and say FAILED of a benchmark that was complete
  before. The latency file has them all.
- The legend of the base chart compares frameworks at the shortest duration of
  all, but one that has no ok run there is taken at its own longest duration
  (`peak_y` and `terminus`, `plot_benchmarks.py:436-444`), so that the ratio to
  celery can be one of different tasks.

## What is proved

All theorems hold for any finite sets of messages, workers, coroutines, threads
and publishers, any number of crashes, any prefetch from 1, any presets and label sizes, either counter kind, and the named
assumptions of the modules (`CounterAssumption`, `WorkQueueAssumption`,
`DrainAssumption`, `BurstAssumption`, `SteadyAssumption`, `LatencyAssumption`, `LatencyRunAssumption`,
`PublishingAssumption`, `CountsAssumption`, `RunOnceAssumption`, `SuiteAssumption`, `ChartsAssumption`,
`GapAssumption`), which TLC evaluates in the runs.

- `Counting_proofs`, the counter: `CounterTypeCorrect`, `CounterInvariance`,
  `MutualExclusion`, `PollsMonotone`, `CounterRefinement`. The invariant is the property
  itself (whoever is inside holds the lock and its copy is current), with
  `seen <= value`; the refinement follows since a `Store` under it adds one to the
  present value.
- `Counting_proofs`, publishing: `PublishingCorrect` (the whole of `Publishing!Inv`)
  and `PublishingImplements` (`ImplementsPublisher`). The invariant `PublishInv` has
  one part for each way. Coroutines: `AsyncAddsUp`, every message taken is counted,
  with a coroutine, failed or cancelled; from it follows `AsyncBurstIsWhole`, that a
  burst that is over without an error took all of its messages. Threads: `ThreadedAddsUp`, the count, what is in batches
  and what is left make up the burst, and `sent` is ahead of the first two by no
  more than the sends that raised; `ThreadedLocked`, only the holder adds, and what it
  loaded is the count; `ThreadedBatches`, a send that raises is of a message that is
  left, which gives `ThreadedBound`, that `sent` does not pass `Messages`. Pool: `PublisherInv` of each
  publisher and its pipe; `Reads` says that reading the lines in a pipe leads from
  what the reader has counted to what its publisher has printed. That statement
  has a function from the places in the pipe to counts, so that a line printed or
  read only lengthens or shortens it and nothing is added up. Sums are numbers of
  units, pairs of a publisher (or thread) and a number up to its value:
  `UnitsOneChanges` is how a sum changes with one summand, `UnitsAtMost` compares
  two, `EvenlySplit` says that the chunks of `_publish` are all of the messages. Each
  step is then a `PublisherStep`, one of `Publisher` or a stutter.
  `PublishingImplements` assumes `MaxCancelled < Cardinality(Coroutines)`: if every
  coroutine of a burst were cancelled, `publish_async` would return without having
  taken the rest of its messages, and the promise would not hold.
  `PublishingCorrect` does not need it.
- `WorkQueue_proofs`: `CounterAccuracy`,
  `counter <= |executed| + Prefetch * |Ended|`. This is not inductive: what
  allows a second count is a message that has been executed and can be
  executed again. `Again` is the set of these: queued or delivered once more,
  or counted and held by a worker that has ended. The inductive form is
  `CountBound`, `counter + |Again| <= |executed| + Prefetch * |Ended|`: a task
  run a first time moves `executed`, one run again moves from `Again` into the
  counter, and a worker that ends adds at most its `Prefetch` held messages to
  `Again` (`HeldBound`) and one to `Ended`. `CounterAtTotal` is the
  consequence that matters: as long as none was stopped, a counter at the total
  means that every message has been executed but for `Prefetch` of each worker
  that died. `MissedStays` keeps that once it is reported, `WorkGrows` says what never
  shrinks.
- `DrainRun_proofs`: `ImplementsWorkQueue`, hence the invariant of the queue
  in every drain run; then `TypeCorrect`, `ReportAccuracy`, `OkIsDrained`,
  `MilestonesAgree`, `QuietAfterExit`. What the runner adds is `Phases` (who is
  alive where) and `MilestonesBound` (only reached thresholds are recorded),
  and the case split is in `ReportSteps`: a step reports, or leaves the report
  alone.
- `SteadyRun_proofs`: `ImplementsWorkQueue`, `TypeCorrect`, `WarmupIgnored`,
  `ExhaustedMeansDry`, `QuietAfterExit`, `FailureEndsRun`. The invariant is `Phases`
  and `Readings`: the last reading of the clock is behind the clock, and the count
  taken as the warmup's was read after the warmup had ended. `FailureEndsRun`
  says how late a failed publisher may be noticed. It rests on `FailuresStay`, that
  the failures seen when the clock was last read are still there, and on the
  order of the three tests of the loop: only the first two come before the look
  at the publishers.
- `BurstRun_proofs`: `ImplementsWorkQueue`, `ReportCovers`, `CompleteIsExecuted`,
  `QuietAfterExit`. Three reads of the counter have to be told apart: those of the
  milestones, the one that decides the status, and the last one, which is
  printed. `Taken` says that the last one has been made; `MilestonesBound`,
  `InTime` and `TakenComplete` say what holds of the report before and after it.
  `Steps` is the case split: a step polls, or makes the last read, or keeps the
  report while what it is compared with only grows (`WorkGrows`).
- `RunAll_proofs`, message counts: `CountsCorrect`, `CountsPresetsAreRun`,
  `CountsSteadyIsCovered`. What makes the file whole is not about the file:
  `CalibrationIsWhole` says of the counts in memory that every selected pair that
  is not left to calibrate has a number unless it has no preset, and the file is
  only ever a copy of them made when nothing is left. The arithmetic is in
  `RoundingUp` and `FloorCovers`.
- `RunAll_proofs`, one run: `OnceCorrect` and `OnceClean`, that a result which
  enters the averages is one of a runner that exited with zero and left no
  process, no file, and no queue that could be deleted and was not to be kept. `Holding` says which processes there can be at which step:
  as long as nothing has raised, all that live are in a list. `Stopped` follows
  the lists through the two stops (what is not waited for any more is gone) and
  breaks in exactly one case, `Survived`: a subprocess has outlived its SIGKILL,
  and the exception that raises is on its way. `Exited` is what remains of this
  at the end; an exception never ends in exit code zero.
- `RunAll_proofs`, the suite: `SuiteAverages` and `SuiteCorrect`. The properties
  are about moments at which the loop is between two runs, and do not
  carry over a step. `ResultsFollow` adds the run that has been averaged and not yet
  written, `Waived` the latency row that is next, `LinesBound` the metadata line that
  is ahead of its row. `Buffered` is why a stop costs so little: after every
  flush only the header of a new file can be in a buffer, so a kill loses a
  header or nothing. `StopsCounted` and `MissingBound` then charge each
  missing latency row to a stop of its own.
- `Charts_proofs`, labels: `LabelsAreReadable` and `LabelsAreLowest`. Labels are placed one by one, and the facts
  about those already placed stay true when one is appended. `LabelsAreLowest`
  compares the placing with any arrangement that `Fits`: no label of it is lower.
- `Charts_proofs`, charts: `ChartsCorrect`, `ChartsComplete`, and `ChartsReadable`, which
  carries the results on labels over to the charts the program draws. For
  completeness the invariant follows a row from the files into the data of a
  reading (`FilesKeep`: what was there at the start still is, unless the files
  were begun anew) and from there to its charts (`Drawn`: each of `ChartsOf` it
  shows the row, or is still to do and has it). `SavedOnce` is needed because a
  chart that is saved twice would replace the first.
- `LatencyFile_proofs`, the file: `TypeCorrect`, `SlotsCorrect`, `SlotsFinal`,
  `PercentilesCorrect`, `ReportsCorrect`. The invariant adds to the lock
  discipline that an uncounted slot may hold anything of the present holder
  only, and that what the reader has copied is what the counted slots hold.
- `LatencyFile_proofs`, the run: `RunUsesTheFile` and `RunUsesTheQueue` say that every
  step of `LatencyRun` is one of `LatencyFile` or leaves it alone, and the same of
  `WorkQueue`. So what is proved of both holds in the run (`RunReports`), and
  their invariants are the `Base` of what follows. `FlockIsGivenBack` needs that a
  worker dies in the queue and in the file at once, `OnlyMeasured` the numbers of
  the samples tied to the messages they were taken of (`TakenInv`).
- `LatencyFile_proofs`, the two bounds: `LatencyCorrect`, the whole of
  `LatencyRun!Inv`. That only redelivery costs an ok run samples is, like
  `CounterAccuracy`, inductive only with what can still happen counted in:
  `BegunBound`, `|Begun| + |Again| <= |BegunMessages| + Prefetch * |crashed or stopped|`,
  where `Begun` are pairs of a worker and a message it began to sample, and `Again` the
  messages that some other worker may begin once more. `FewTwice` turns this into
  a bound for any set of pairs, since what is left out of both sides of it is
  at least as large on the left; `SlotsOfMessages` into one for any range
  of slots. The bounds are read off when the runner reads the count and when
  it prints, and stay as they were from then on (`Bounds`). `InHandCovers` and
  `LateInHand` say that what is recorded after the purge was in hand when it was done.

Every invariant, action property and refinement that a passing run checks is stated
by one of these theorems. Only model-checked: everything with fairness (`PollReturns`,
`EverySurvivorCounts`, `EveryRunEnds`, `SteadyRunEnds`,
`BurstRunEnds`, `LatencyRunEnds`, `PublishEnds`, `SuiteEnds`,
`RunOnceReturns`), because the prover cannot reason about ENABLED, hence about
weak and strong fairness. It also has no induction over data, so results of
recursive definitions for every input stay with TLC.

## The plan

What there is was written in this order: the counter, the queue, the drain run,
the steady run, the latency file, the burst run, publishing, the suite, the
message counts, the charts, the proofs about the burst run, the stops of
processes, the latency run, the proofs about it, about `RunOnce`, the suite,
the charts and publishing. Left, in this order:

1. `ConsumerWait` with the number of consumers each adapter needs.
2. A suite of several runs in which what one run leaves behind meets the next.

## Not modelled

- Serialisation (`_runtime.py`), URLs and headers of `_rabbitmq.py`: no behaviour
  of their own. Of the presets in `_specs.py` the modes are in `MCCharts`, their
  numbers are the constants of `MessageCounts`.
- In `plot_benchmarks.py` the placing of the labels of the scatter chart, the
  legend of the base chart, scales, colours and
  everything matplotlib does with them; heights are given numbers here. Boxes of
  labels of different columns are never compared by the code, nor here.
- The tables printed at the end of a suite, and the lines the runner prints in
  between.
- The five frameworks themselves. What is used of them is delivery with a
  prefetch limit, execution, and acknowledgement after execution. Faststream
  and dramatiq use their framework's default acknowledgement.
- The processes that celery, dramatiq and taskiq start below the one the runner
  started: they die and are stopped with it here.
- Orphans of a failed start are in the models (`StartFails`, `LaunchFails`);
  the properties about quiet exits are about runs that reported. `RunOnce` says
  that they are never hidden behind a result that counts.
