# A TLA+ model of the web-based jobs worker service

The worker is one Go process that runs shell commands ("jobs") for its HTTP
clients, keeps each job in a map until a cleanup routine deletes it, and lets
clients query, stop, restart and fetch jobs meanwhile. Almost everything that
can go wrong in it is concurrent: every request is a goroutine, every run of a
job is another, and they meet in one map, one queue and the fields of the jobs.

Paths below are relative to the repository (`src/`).

## The system

| Component | State | Operations | Interacts through |
|---|---|---|---|
| Job map (`worker.go`, handlers) | `globalJobsResults`, `mapLock` | register, look up, iterate, delete | every handler and the cleanup routine take `mapLock` |
| Queue and monitor (`controllers.go`) | `globalJobsQueue` (bounded channel) | enqueue, pick up | handlers send, `jobsMonitor` receives and starts executors |
| Executors (`executeJob`) | the process, `Job.stop`, the outcome fields | start, fail, leave on timeout / stop / end, record | `Job.lock`, `Job.stop`, unlocked reads of `Job.iscompleted` by others |
| Control handlers (`handlers.web.go`, `handlers.api.go`) | one goroutine per request | schedule, stop, stop all, restart, restart all, status, fetch | the map, the queue, `Job.stop`, the fields of jobs |
| Cleanup routine (`cleanupMapResults`) | its timer | delete fetched or old jobs | `mapLock` for writing, unlocked reads of job fields |
| Streaming (`streaming.go`) | `Job.isstreaming`, the output pipe | claim, read, release | `Job.lock`, the pipe `cmd.Wait` closes |
| Shutdown (`server.go`, `handleSignals`) | `exit` channel, wait group | signal, close, drain, exit | monitor, cleaner, web server |
| Worker service (`worker.go`) | the pid file | start, stop, restart, status | processes and the file system |
| Diagnostics (`controllers.go`) | `isDumping`, `signalsChan` | request, dump | the signal handler |
| Admission (scheduling handlers) | local variables of one request | limits, timeouts, where the output goes | the jobs it makes |
| Instant executor (`handlers.web.go`) | one process per request | run, stream, cancel | the request's context |
| Configuration, logging, certificate, file limits, routes | read once or write only | – | – |

What is hard: a restart decides on an unlocked read and acts later; a stop is a
send on a one-place channel, made while the map is locked; the executor writes
a job's outcome in four separate critical sections; the cleanup routine checks
and deletes without the job's lock; the queue is bounded and one handler blocks
on it while it owns the map. `PROJECT.json` lists each hazard with its line and
the properties that would catch it.

What makes the parts correct: a job is never lost and never runs twice; the map
is not written while somebody iterates over it; only completed jobs are
deleted by the cleanup routine; the recorded outcome is that of the run; every
job completes and every request returns; a byte of output is sent once; a worker
that is up is in its pid file.

## Modules

| Module | What it is |
|---|---|
| `RWMutex` | Go's writer-preferring reader/writer lock as a record and operators on it (external code) |
| `JobsControl` | the map, queue, monitor, executors, control handlers and cleanup routine; its properties and fairness |
| `JobsControlInv` | the inductive invariants: `IInv`, and who owns a job (`OwnershipInv`, `OneRunInv`) |
| `JobLifecycle` | the abstract specification: the phases of a job |
| `JobsControlLifecycle` | the refinement mapping from `JobsControl` to `JobLifecycle` |
| `Admission` | pure operators: from a parameter to a limit, a timeout, a destination of the output |
| `Scheduling` | one scheduling request: its parameters, its local variables, the jobs it makes |
| `Streaming` | one long job, its output and the websocket sessions that follow it |
| `InstantExecutor` | one request that runs a quick command and streams its output |
| `WorkerLife` | the abstract specification: the life of a worker process, as others see it |
| `WorkerProcess` | a worker process from its start to its end: signals, diagnostics, shutdown |
| `WorkerService` | the commands start, stop, restart and status, the pid file and the workers |
| `MC...` | model values and symmetry for TLC, one per specification that TLC checks |
| `JobsOwners_proofs` | theorems about `JobsControl` that rest on the owners of a job, the refinement of `JobLifecycle` among them |
| `..._proofs` | theorems and their proofs: `JobsControl`, `Scheduling`, `Streaming`, `InstantExecutor`, `WorkerProcess`, `WorkerService` |

How they fit together. `Scheduling` makes the jobs; `JobsControl` keeps, runs,
stops, restarts and deletes them; `Streaming` is the detail of one long job of
`JobsControl` (its executor takes the same branches, with the pipe and the file
that `JobsControl` abstracts, without the restarts it has). `WorkerProcess`
puts the goroutines of `JobsControl` into the process they live and die in,
with the jobs reduced to what can hold the end up or be cut off by it.
`WorkerLife` is the contract between one process and the commands around it:
`WorkerProcess` implements it and `WorkerService` composes any number of
processes that keep it.

### JobsControl: state and steps

A step is a piece of code between two points where another goroutine can be
seen to interfere: a lock, a channel operation, or an unlocked read of
`iscompleted`. The fields of a job (`job[j]`) are those that the handlers read
or write concurrently: `iscompleted`, `issuccess`, `exitcode`, `fetchcount`,
`endtime`. `stop[j]` is the one-place channel, `jobLock[j]` names who is inside
`Job.lock` over more than one step. A short critical section of `Job.lock` is
one step that waits for `JobUnlocked`; the writes of `iscompleted` and
`endtime` in the executor are two steps with the lock held between them,
because the cleanup routine and the handlers read them without it.

A client is the handler its request is in: kind of request, place in the code
(`pc`), ids still to do (`todo`), job in hand. Handlers of one shape share
their actions:

| Actions | Code |
|---|---|
| `ScheduleRequest`, `LockMap`, `Register`, `Enqueue` | `scheduleShortRunningJobs`; the API's and the long jobs' handlers register and enqueue in the same order |
| `StopRequest` / `AllRequest`, `RLockMap`, `CheckUnknown`, `CheckRunning`, `CheckCompleted`, `StopSend`, `EndRequest` | `stopJobsById`, `stopAllJobs`: the read lock is held over the whole loop, sends included |
| `RestartRequest`, `Lookup`, `Check*`, `StopSend`, `LockMap`, `Reset`, `Enqueue` | `restartJobsById`: three critical sections and an unlocked read |
| `AllRequest`, `LockMap`, `LockAll`, `Check*`, `StopSend`, `Reset`, `Enqueue`, `EndRequest` | `restartAllJobs`: everything under the write lock, the send on the queue included |
| `ResetPanic` | the reset of a long job: nil `bytes.Buffer`, the panic that `net/http` recovers, both locks left taken |
| `FetchRequest`, `Lookup`, `Fetch` | `getJobsOutputById`, `apiFetchJobsOutputById` |
| `StatusRequest`, `RLockMap`, `Status` | `apiCheckJobsStatusById`, with `collectStatusInfos` inside the job's lock |
| `Pickup` | `jobsMonitor` |
| `ExecFail` ... `ExecExit` | `executeJob` from its start to its last write |
| `Cleanup*`, `Age` | `cleanupMapResults`; `Age` is the passing of the deadtime |

Deliberate abstractions. Ids are fresh, as 64 random bits are. Exit codes are
-1, 0 and 1 (any other status). `endtime` is zero, recent or old; `fetchcount`
stops just past the limit. The order in which a handler meets its ids is free,
as that of a Go map is. A long job differs from a short one only where these
handlers tell them apart (`restartAllJobs` skips it, its reset panics); its
output is part of Streaming. Logging and answers are left out.

### Admission and Scheduling

`Admission` holds the comparisons of the handlers with the configuration. A
parameter is the number it parses to; one that is missing or does not parse is
0, which every handler treats as missing. `Scheduling` is one request:
`ReadQuery` is the top of a web handler, which reads the parameters once for
all of its jobs; `MakeApiJob` is one turn of the loop of `apiScheduleJobs`,
which reads those of each job into `cpulimit`, `memlimit` and `timeout`,
variables declared outside the loop, where a value could leak from one job to
the next. The time zone is left out: it only changes how times are shown.

### Streaming

`job` holds the fields that `executeJob` and `streamJob` share, `outpipe` and
`outstream` among them as "not nil". The unit of output is a byte, numbered as
the process writes it: nothing between the process and a session keeps a line
together. `Newlines` says which bytes end one. Scheduling, `Enqueue` and
`StopJob` are as in `JobsControl`; the executor opens the pipe and the file
(`ExecOpen`), starts the process, waits in its three-way select and completes.
`waiter` is the goroutine in `cmd.Wait`: it waits for the process, closes the
reading end of the pipe with whatever is left in it, and sends on an unbuffered
channel, for ever if the executor has left. A killed process may still write
before it dies.

A session (`viewer[v]`) is one call of `streamJob`: two reads, each under the
job's lock (`CheckCompleted`, `CheckStreaming`), the claim under the lock again,
the reader on the field that `job.dump` selects (nil while no executor has the
job, which panics: only the deferred release runs), and the loop. A read takes
any part of what is in the pipe, through the tee into the file (`TeeWrite`) and
into the reader's buffer, until there is a newline in it; one line at a time is
sent. A write to the file fails when the executor has closed it, or half-way
when the disk is full (`TeeWriteFails`): what was written is handed on with the
error, `lost` records the rest. `ReportEnd` drops the part of a line that comes
with the error, and picks the message from the error and `iscompleted`, which is
read without the lock.

### InstantExecutor

The handler and the goroutine that reads the output, with the unbuffered `done`
between them. Both write to one response, which is not made for that: the reader
its lines (`ScanLine`, `WriteResponse`), the handler its notice of a timeout
(`TakeContext`, `EndNotice`). The reader starts before the process and is not
waited for when the context ends. If the two writes meet, or the reader writes
after the handler has returned, which `net/http` forbids, the outcome is open:
nothing comes of it by chance, the answer is `damaged`, or the worker crashes
with a panic in a goroutine. A line is the format of the write (line 73), so one
with a percent sign (`percent`) comes out as another (`Formatted`). Its scanner
gives up at a line beyond its buffer (`overlong`). The error of `StdoutPipe` is
dropped (`handlers.web.go:65`): a nil reader panics in a goroutine of its own,
which ends the worker (`PipeFails`). Standard error goes to the null device. A
child of the command that keeps the pipe open after the command's end is left
out.

### WorkerLife, WorkerProcess and WorkerService

`WorkerLife`: a worker is new until it has deferred the removal of its pid file
(`worker.go:130-135`). Before that it may give up with the file as it is
(124-128, after which `main` exits); from then on it is up, and it exits only
after it has begun to leave, with the file removed once or twice. It may crash at
any moment.

`WorkerProcess`: `main` is `runWorkerService` with `startWebServer`, `handler`
is `handleSignals`, and `cleaner`, `monitor`, `server` and `job[j]` are what it
starts. `exit` is the channel that `CloseExit` closes; the context of the
executors is cancelled when the monitor leaves (`cancelled`). `notified` says
whether `signal.Notify` is in force: before it and after `signal.Stop` a signal
ends the process. A signal from outside that finds the channel full is dropped,
as the runtime does; a diagnostics request waits for room. The map appears by
its holder, and `StopStuck` is the stop request of `JobsControl` that never
gives it back. The cleanup interval is counted in hours, so the first wake-up
comes after the server has started. `collectStackTrace` is one step, `dumps`
counts the goroutines in it. `cmd.Start` looks at the context (`ExecStart`) and
makes the process in another step (`ExecFork`), so a job may get a process after
the cancellation; the cancelled context then kills it.

`WorkerService`: each command is a sequence of steps on the pid file, at the
places where another command or a worker can come in between. `SavePidCreate`
truncates before `SavePidWrite` writes; `handle` says whether the open file is
still the one the path names, since `os.Remove` unlinks it under the writer. A
worker removes the file without looking whose pid it holds; `orphaned` records
for the properties which worker's entry that took away. The steps of a worker
are those of `WorkerLife` with the port added, so no property compares the two.
`doomed` is a
worker that was sent SIGKILL and has not died yet: nobody awaits its death, and
a restart goes on. Pids are not reused, the system is unix-like, and
`Process.Signal` reports a dead process with an error of the package `os`,
never the `ESRCH` that `checkWorkerService` compares with, so a pid in the file
counts as an active worker.

## Runs

| Run | Instance | Shows |
|---|---|---|
| `map_requests` | 1 job, 2 clients, 2 executors, cleanup; schedule, stop, stop all, restart all | `AtMostOneRun`, `RunningJobIsListed`, `OwnershipInv`, `NoConcurrentMapWrite`, `DeletesOnlyCompleted`, and `ImplementsLifecycle`: the steps refine `JobLifecycle` |
| `one_client` | 1 client, a short and a long job, 2 executors, all seven requests | `AtMostOneRun`: requests one after the other never start a job twice |
| `progress` | 1 job, 2 clients, 1 executor; schedule, stop, restart, restart all; under fairness | `TypeOK`, `IInv`, `NoLostJob`, `JobsComplete`, `RequestsReturnUnlessStuck` |
| `outcome` | 2 short jobs, 2 clients, 2 executors, every outcome, no restart | `OutcomeOfOneRun`: flag and exit code never contradict each other, are those of the run when its executor leaves, and stay |
| `streaming` | 2 sessions, 3 bytes of which 2 end a line, a pipe of 2, every destination of the output; under fairness | `SessionsSplitTheOutput`, `CompletedMeansAll`, `SentIsDumped`: each byte goes to one session in order, after it is in the file; `NoFalseEnd`, `FlagHasStreamer`, `StreamsEnd`, `JobEnds`, and `BytesInv` |
| `worker_process` | 2 jobs, 1 diagnostics request, a queue of 1, a signal channel of 2; under fairness | `OneDump`, `OrderlyExit`, `ImplementsLife`, `WorkerStops`, `DiagAnswered` |
| `worker_service` | 4 workers, 1 command at a time | `LiveWorkerIsNamed`, `OneWorkerAtATime`, `StatusDeniesOnlyTheDead`, with the one worker whose entry an earlier one has removed as the exception |
| `scheduling` | numbers -1 .. 5 around limits of 2 to 4, up to 2 jobs in a request | `JobsAreBounded`, `AskedIsGranted` |
| `instant` | timeouts 0 and 1, 4 lines, a pipe of 2; under fairness | `UncutIsClean`, `UncutIsComplete`, `HandlerReturns` |
| `restart_twice` | 1 job, 2 clients, 2 executors | violated: `AtMostOneRun` |
| `restart_long` | 1 long job, 1 client | violated: `NoLostLongJob` |
| `early_deletion` | 1 job, 1 client, cleanup | violated: `DeletesOnlyDeadJobs` |

Why the bounds are enough to meet the interesting cases.

- *JobsControl.* Every conflict in this code is between two goroutines over one
  job or over the map: two requests, or a request and the executor, or a
  request and the cleanup routine. With two clients, one job and two executors
  all these pairs occur, and a job goes round schedule, run, restart, fetch and
  delete without bound; each client makes any number of requests. A queue of one
  place is full after one job, so blocked senders occur with one job too (a
  restart that enqueues twice). Two jobs are in the runs where a handler works
  through several. `Executors` bounds the runs in progress, which the code does
  not: with all of them busy the monitor waits for one to end, which only
  delays a pickup. Restarts by id beside the cleanup routine, with more than
  one client, are covered by the proofs of `JobsControl_proofs`, for any
  instance.
- *Streaming.* Two sessions overlap, follow each other and race for the claim; a
  third would only repeat one of the two. Of three bytes the second and the
  third end a line, and the pipe holds two: the process waits for room, a reader
  takes half a line, the rest of it, or the end of one and all of the next, two
  sessions tear the first line, a write of two bytes fails after one, and bytes
  are left when the pipe is closed.
- *InstantExecutor.* Four lines and a pipe of two: a full pipe, a full buffer
  and an overlong line or one with a percent sign at each place; the end of the
  context meets the reader before, in and after a write.
- *WorkerProcess.* Two jobs and a queue of one: one job in the queue and another
  request in front of it when the worker leaves. Two places in the channel of
  signals: an exit behind a dump, two dumps, and a diagnostics request that
  waits in front of a full channel.
- *WorkerService.* Four workers: a first one, the one that replaces it, and two
  more after crashes or failures; each life is short and a worker that is dead
  matters no more. Several commands at once are in the proofs as far as the
  invariant of its types holds then.
- *Scheduling.* The numbers lie below, on and beyond each limit, and the long
  limit is below the short one, as it is in the configuration; a second job is
  all it takes for a value to leak.

Symmetry is used for clients, executors, short jobs and pids, in runs of safety
properties only. Deadlock is not checked: a client need not make a request,
jobs run out, and each of these systems comes to an end (a process that has
exited, a request that is answered, a wedged map).

### Fairness

*JobsControl.* `FairSpec` is strong fairness of each handler's and each
executor's next step, weak fairness of the monitor and of the cleanup routine
once it has woken. A Go mutex hands itself over to a waiter that has starved for
a millisecond and the waiters of a channel are served in order, so a goroutine
that can take either again and again gets it. A job's process need not end and
no stop need come, but its timeout fires: `ExecDone` and `ExecStop` have no
fairness of their own. No client has to make a request, and time need not pass
for the cleanup.

`RequestsReturnUnlessStuck` excepts a stop notification that waits for ever,
because there is one (see the list below); given that, it says that the locks,
the bounded queue and the executors block no handler for ever, `restartAllJobs`
in front of a full queue with the map locked included. It is about short jobs: a
restart of a long one panics and keeps both its locks.

*Streaming.* Every goroutine that can run runs and a killed process dies: weak
fairness, as no session waits for a lock over more than a step. The deadline of
the job's context fires. A process need not write or end, nobody need stop the
job or open a session. A client that is sent a line takes it or is found gone.

*InstantExecutor.* The same: goroutines run, the context kills, a killed process
dies. `HandlerReturns` speaks of a context that is done or a process that has
ended; a command without a timeout may run for as long as its client waits.

*WorkerProcess.* As in `JobsControl` for the map and the channels. The cleanup
routine's wait for `exit` has strong fairness, since its select finds `exit`
closed each time it comes round and `select` chooses at random. Nothing need
fail, no signal and no request need come, no interval need elapse. Executors end
by their deadline. `WorkerStops` and `DiagAnswered` except a map that is wedged
and a worker that is dead.

`WorkerService` and `Scheduling` state no liveness: a command may fail at any
step and a worker may crash.

## Disagreements between the code and its comments

Shown by a run:

1. `restart_twice` (`handlers.web.go:620`). Two restarts by id both read
   `iscompleted` before either resets, both reset and both enqueue: two
   processes for one job. The comment at 571-573 says that a running job is
   only stopped. `one_client` shows that it takes concurrent requests, and
   `map_requests` that `restartAllJobs` cannot do it.
2. `restart_long` (`helpers.go:152`). Long jobs have no result buffer; the
   reset panics with `mapLock` and the job's lock held. The comment at
   `handlers.web.go:670` says that long jobs are restarted this way.
3. `early_deletion` (`controllers.go:38`). The cleanup routine reads
   `iscompleted` and `endtime` without the job's lock; between the executor's
   two assignments (233, 234) `endtime` is the zero time, older than any limit,
   and a job that nobody has fetched is deleted as it completes.

Seen while modelling. The models do what the code does here; no run is about
them alone.

- `handlers.web.go:508`, `677`: a send on a full `Job.stop` whose executor is
  gone waits for ever with the map locked. In `JobsControl` it is the exception
  of `RequestsReturnUnlessStuck`, in `WorkerProcess` `StopStuck`, and there it
  keeps the worker from leaving (`MapStuck`).
- `helpers.go:143`: the reset keeps a stop token that came as the last run
  ended, and the restarted run is killed at once.
- `controllers.go:195`: the branch of the timeout leaves `err` nil, so a job
  that was killed by its deadline is recorded with `issuccess` and exit code 0.
  `OutcomeOf` has it so: the code means that no error was met.
- `controllers.go:38`: the age of a job is compared in minutes, where
  `configuration.go:34` and the comment at 24-25 speak of hours. `Age` is
  nondeterministic in the model, so no property depends on the unit.
- `handlers.api.go:64`: the API compares the timeout of a short job, in seconds,
  with the limit of the long ones, in minutes (`configuration.go:36`).
  `ApiTimeout` does the same, and `JobsAreBounded` and `AskedIsGranted` except
  these jobs.
- `worker.go:166`: the process exits without waiting for executors, requests or
  a dump in progress, where the comment at 143 and `server.go:86` read as if it
  did. `OrderlyExit` says what the exit does wait for.
- `worker.go:331`: two start commands at once both find no pid file, and two
  workers are started; `worker.go:233`: status never sees `ESRCH`, so a worker
  that crashed is called active.
- `handlers.web.go:51`: the timeout of an instant command is in minutes, where
  `README.md:178` and `docs.go:53` say seconds. `handlers.web.go:72`, `78`: the
  scanner stops at an overlong line and the rest of the output is lost.
- `handlers.web.go:64`, `controllers.go:105`: `Stderr` is set to `Stdout`, which
  is nil at that point, so what a command writes to its standard error goes to
  the null device, where the comments at 63 and 104 say that both are combined.
- `streaming.go:175` says "line by line". Two overlapping sessions read one pipe
  in chunks: each may hold a part of one line, and send it joined to the part of
  another or drop it at the end. For the same reason the bytes of a dumped file
  may be out of order while sessions overlap. The last line of an output is
  dropped if no newline ends it (177).
- `controllers.go:144`: when the file of a job that is streamed and dumped cannot
  be written, its session ends with an error while the process runs. It is the
  exception of `NoFalseEnd`, and the message at `streaming.go:186` allows for it.
- `worker.go:124`: a worker that cannot look its user up exits with its pid file
  still there (`GiveUp`).
- `handlers.web.go:73`, `103`: two goroutines write to one response after a
  timeout, the reader may write after the handler has returned, and each line is
  the format of its write. `WriteHeader` (89) and a first line of the reader set
  the same status, so their race changes nothing.

## Theorems

All are theorems of `Spec` for every value of the constants that meets the
assumptions of its module. `tlapm` checks each proof to the last leaf.

| Module | Theorem | Statement |
|---|---|---|
| `JobsControl_proofs` | `Invariant` | `Spec => []IInv` |
| | `TypeCorrect` | `Spec => []TypeOK`, with the queue never longer than its capacity |
| | `DeletionIsSafe` | `Spec => DeletesOnlyCompleted` |
| | `MapIsNeverWrittenUnderIteration` | `Spec => NoConcurrentMapWrite` |
| | `NoJobIsLost` | `Spec => []NoLostJob` |
| `JobsOwners_proofs` | `OnlySubmittedJobs` | `[]SubmittedInv` |
| | `JobsHaveOneOwner`, `AtMostOneProcess` | `[]OwnershipInv`, `[]AtMostOneRun`, under the hypothesis `Undisturbed` |
| | `RunningJobsAreListed` | `[]RunningJobIsListed`, under `NoRestartById` |
| | `LifecycleIsImplemented` | `ImplementsLifecycle`: the steps refine `JobLifecycle`, under `NoRestartById` |
| | `OutcomeIsOfOneRun` | `OutcomeOfOneRun`: `[][OutcomeAgrees' /\ OutcomeIsRecorded]_vars`, under `NoRestarts` |
| `Scheduling_proofs` | `LimitsAreKept`, `RequestsAreGranted` | `[]JobsAreBounded`, `[]AskedIsGranted`, for any numbers and any length of a request |
| `Streaming_proofs` | `StreamInvariant`, `TypeCorrect` | `[]StreamInv`, `[]TypeOK` |
| | `ClaimIsReleased` | `[]FlagHasStreamer` |
| | `NoSessionEndsEarly` | `[]NoFalseEnd` |
| | `BytesInvariant` | `[]BytesInv` |
| | `OutputIsSplit` | `[]SessionsSplitTheOutput` |
| | `CompletedIsComplete` | `[]CompletedMeansAll` |
| | `DumpIsAhead` | `[]SentIsDumped` |
| `InstantExecutor_proofs` | `InstantInvariant`, `TypeCorrect` | `[]InstantInv`, `[]TypeOK` |
| | `UncutAnswerIsClean` | `[]UncutIsClean` |
| | `UncutAnswerIsComplete` | `[]UncutIsComplete` |
| `WorkerProcess_proofs` | `WorkerInvariant`, `TypeCorrect` | `[]WorkerInv`, `[]TypeOK` |
| | `DumpsDoNotOverlap`, `ExitIsOrderly` | `[]OneDump`, `[]OrderlyExit` |
| | `LivesAsPromised` | `ImplementsLife`: the process implements `WorkerLife` |
| `WorkerService_proofs` | `ServiceInvariant`, `TypeCorrect` | `[]ServiceInv`, `[]TypeOK`, for any number of commands at once |
| | `OneCommandInvariant`, `NoWorkerIsForgotten`, `StartsAreExclusive`, `InactiveMeansNoWorker` | `[]OneCommandInv`, `[]LiveWorkerIsNamed`, `[]OneWorkerAtATime`, `[]StatusDeniesOnlyTheDead`, under the hypothesis `OneCommand` |

### The arguments

*JobsControl.* `TypeOK` alone is not inductive: that an action leaves the job it
has in hand in `Jobs` needs that a handler at such a place has one. `FlowInv`
says which places each kind of request passes through and where it has a job.
On top of it `LockInv` says who holds `mapLock`: its readers are exactly the
handlers inside a read loop, its writer is exactly the one handler (or the
cleanup routine) past its `Lock` call, and a writer that works has no reader
beside it. With it a reset, which happens only under the write lock, cannot
fall between the check and the deletion of the cleanup routine, which is
`DeleteInv`. `IInv` is the conjunction of the four, and TLC checks it in
`progress`. `NoLostJob` follows by induction on its own, with `IInv` as context:
a step that takes a job from one owner gives it to the next or completes it, and
a step that makes it pending again is a `Reset` of a handler that is about to
enqueue it.

*The owners of a job.* A job is carried on by a request that schedules or
restarts it, by a place in the queue, or by an executor; `OneOwner` says that it
is by one of them, once. That is not inductive, since a restart makes an owner
out of nothing: it needs that the job has none at that moment. It has none if it
is completed, as an owned job is pending (`WellOwned`), and it is completed if
what the handler read before the reset is still true (`RestartInv`). That is
where the code is open: between the read of `iscompleted` and the reset
(`handlers.web.go:620`, `629`) another restart by id may have reset the job.
`restartAllJobs` checks and resets under one write lock, and a single client has
nobody in between. So the hypothesis is
`Undisturbed == NoRestartById \/ OneClient`, and `restart_twice` is the
counterexample without it. `SubmittedInv` gives that the id of a new job is
with nobody yet. TLC checks `OwnershipInv` under the first half of the hypothesis, in
`map_requests`, and `AtMostOneRun` under the second, in `one_client`.

That running jobs are listed needs `NoRestartById` alone: a restart by id holds
the job outside of the lock, and may hand on one that the cleanup routine has
deleted meanwhile, whatever the number of clients. `RestartInv` also says that
`restartAllJobs` works on jobs that stay listed, as it owns the map. With both
facts each step moves at most one job, from one phase of `JobLifecycle` to the
next (`LifecycleIsImplemented`); the proof has one lemma for steps that leave all
phases alone and one for a move. `OneRunInv` ties the fields of a job to the
place of its executor: an executor that has set `iscompleted` still writes the
outcome after it, without owning the job by then, so a restart in between would
mix two outcomes, hence `NoRestarts` in `OutcomeIsOfOneRun`. Without restarts no
second executor ever has the job, so what the first one has written of its
outcome is still there when it leaves, and nobody writes after it.

*Scheduling.* A job is made from values that `Admission` has bounded, and the
local variables of a web handler are those of its parameters once it has read
them. That is the invariant; the bounds of the configuration
(`ConfigAssumption`) do the rest.

*Streaming.* `FlagHasStreamer` is inductive: whoever clears the flag or leaves
the place where it will clear it does both at once. `NoFalseEnd` needs to know
when a session may fail at all. Before the process has ended (`NotEnded`)
`ExecutorInv` keeps both the pipe and the file open, or not made yet, so no read
fails and a write fails for want of room only; and a session reads only after
the pipe was made (`~NotMade`), so it does not mistake the time before the start
for the end. `SessionInv` says what a session may have met by then.

For the bytes themselves, `Taken` counts those that left the pipe. `PipeInv` says
that the pipe holds the bytes after them, in order. Each byte up to `Taken` is in
what a session has sent, has in its reader's buffer or in the chunk it is about
to write to the file, or has lost (`NoByteLost`), and with one session only
(`NoByteTwice`); within a session these follow each other in order (`InOrder`). A
step either moves no byte or is one of a write, a read, a tee, a failed tee and
an answer to the client, each with a lemma of its own. `KnowsTheEnd` makes
`CompletedIsComplete` follow: a session has seen the end of the pipe only when
the process is dead and the pipe is empty, and both stay so; it has lost nothing
then and has no whole line left. `Dumped` follows a byte through the tee: it is
in the file when its session leaves that place. TLC checks `BytesInv` in
`streaming`.

*InstantExecutor.* The lines are numbered. `LinesInv` says that what has left the
reader, its buffer and the pipe together are the lines 1 to `written`, in that
order and without a gap, so taking from the front of one and adding to the back
of the other keeps it; until the context ends, what has left the reader is the
answer. That nothing is damaged by then rests on two facts of `HandlerInv` and
`ReaderInv`: the handler writes only after the context has ended, and it is past
its select only when the reader has left. `ReaderInv` also says that the reader
of a command that nothing cut off leaves only when the buffer and the pipe are
empty and the process is dead.

*WorkerProcess.* `RemovalInv` counts the two places that remove the pid file,
each passed once; it gives both the bound of `WorkerLife` and that an orderly
exit has removed it, since `main` has deferred one of them before it starts
anything (`StartInv`). `StartInv` and `ExitInv` tie the goroutines and the channel
to where `main` and the handler are, and `WaitInv` is what `wg.Wait` has waited
for. The refinement is the step simulation: each action maps to one of
`WorkerLife` or to a stutter.

*WorkerService.* `ServiceInv` (types, removals, pids in hand) holds for any number
of commands. For the pid file, `FileInv` says what it may be at each place of the
one command and `NamedInv` that a worker which is up is in the file or in the
command's hands, unless it is `orphaned`: another worker has removed the file
when it named this one, or when the command had it open to write this pid. A
removal at any other time takes nothing from a worker that is up.
`OneCommand == \E k : Commands = {k}` is a hypothesis of these theorems, not an
assumption of the module: with two commands at once they are false
(`worker.go:331`).

### Only model-checked

Every safety property and every refinement of the passing runs is a theorem. Liveness
is not: `JobsComplete`, `RequestsReturnUnlessStuck`, `StreamsEnd`, `JobEnds`,
`WorkerStops`, `DiagAnswered` and `HandlerReturns` rest on fairness, and the
prover has no rules for it (ENABLED). The violated properties are refuted by
TLC's counterexamples. No theorem needs induction over data or a RECURSIVE
operator; the modules use neither.

## Not modelled, and the plan

Not modelled, and not planned: `getAllJobsStatus` and the downloads of output
files (loops of the same shape as those that are there, with text as their
result), the health counters (read from the runtime, no state), the unit of the
retention time, the branches for Windows, configuration, logging, the
certificate, the open files limit, the routes and the documentation pages, which
hold no shared state or are read once at start. `PROJECT.json` gives the reason
for each.

The plan, in order:

1. Two commands of the worker service at once, with the exceptions the
   properties need then.
2. The retention time as a clock, so that its unit can be checked against the
   configuration.
3. Proofs: what stays true of the owners of a job when restarts by id do
   disturb each other, such as how many runs of one job there may be at once.
