--------------------------- MODULE WorkerProcess ---------------------------
(***************************************************************************)
(* One worker process from its start to its end: the goroutines that       *)
(* runWorkerService starts, the channel of signals they share with the     *)
(* diagnostics requests, the channel exit, and what is still going on when *)
(* the process ends.  The jobs and the map appear only as far as they can  *)
(* hold the end up or be cut off by it; JobsControl has their detail.      *)
(***************************************************************************)
EXTENDS Integers, Sequences, FiniteSets

CONSTANTS
    Jobs,                 \* the jobs that requests schedule, each at most once
    Diags,                \* the diagnostics requests, each made at most once
    MaxJobsQueueBuffer,   \* capacity of globalJobsQueue
    SignalsBuffer,        \* capacity of signalsChan
    Cleaner, Stuck, NoOne \* who may hold the map, beside the jobs' requests

ASSUME HoldersAssumption == /\ Jobs \cap {Cleaner, Stuck, NoOne} = {}
                            /\ Cleaner # Stuck /\ NoOne \notin {Cleaner, Stuck}
ASSUME BuffersAssumption == /\ MaxJobsQueueBuffer \in Nat \ {0}
                            /\ SignalsBuffer \in Nat \ {0}

VARIABLES
    main,       \* runWorkerService and startWebServer
    removals,   \* how many times the process has removed the pid file
    notified,   \* signal.Notify is in force; otherwise a signal kills
    signalsChan,
    exit,       \* TRUE: the channel exit is closed
    handler,    \* handleSignals
    isDumping,  \* the flag
    dumps,      \* goroutines that collect stack traces
    diag,       \* the diagnostics requests
    cleaner,    \* cleanupMapResults
    monitor,    \* jobsMonitor; it cancels the executors' context as it leaves
    server,     \* the listener, and the goroutine that shuts it down
    mapLock,    \* who holds the lock of the map
    queue,      \* globalJobsQueue
    job         \* the request that schedules a job, then its executor

vars == <<main, removals, notified, signalsChan, exit, handler, isDumping,
          dumps, diag, cleaner, monitor, server, mapLock, queue, job>>
signalVars == <<notified, signalsChan, handler, isDumping, dumps, diag>>
jobVars == <<mapLock, queue, job>>
loopVars == <<cleaner, monitor, server>>

-----------------------------------------------------------------------------
(* Types *)

Signals == {"quit", "exit"}    \* SIGQUIT and the others the handler listens to

TypeOK ==
    /\ main \in {"new", "init", "start", "serve", "wait", "remove", "exit",
                 "exited", "gaveup", "crashed"}
    /\ removals \in 0 .. 2
    /\ notified \in BOOLEAN
    /\ signalsChan \in Seq(Signals) /\ Len(signalsChan) <= SignalsBuffer
    /\ exit \in BOOLEAN
    /\ handler \in {"none", "notify", "receive", "remove", "close", "gone"}
    /\ isDumping \in 0 .. 1
    /\ dumps \in Nat
    /\ diag \in [Diags -> {"idle", "check", "send", "answered"}]
    /\ cleaner \in {"none", "select", "lock", "locked", "gone"}
    /\ monitor \in {"none", "select", "gone"}
    /\ server \in {"none", "open", "closed"}
    /\ mapLock \in Jobs \cup {Cleaner, Stuck, NoOne}
    /\ queue \in Seq(Jobs) /\ Len(queue) <= MaxJobsQueueBuffer
    /\ job \in [Jobs -> {"none", "lock", "locked", "enqueue", "queued", "start",
                         "fork", "running", "done"}]

\* Nothing runs in a process that is dead.
Dead == main \in {"exited", "gaveup", "crashed"}
cancelled == monitor = "gone"

-----------------------------------------------------------------------------
(* runWorkerService and startWebServer *)

\* The process ends before anything is deferred, with the pid file as it is: the
\* settings can be neither loaded nor dumped, or the user cannot be looked up.
GiveUp ==
    /\ main = "new"
    /\ main' = "gaveup"
    /\ UNCHANGED <<removals, exit, signalVars, loopVars, jobVars>>

\* From here on the end of runWorkerService removes the pid file.
DeferRemoval ==
    /\ main = "new"
    /\ main' = "init"
    /\ UNCHANGED <<removals, exit, signalVars, loopVars, jobVars>>

\* initializeWorkerSettings fails: only the deferred function is left to run.
InitFails ==
    /\ main = "init"
    /\ main' = "remove"
    /\ UNCHANGED <<removals, exit, signalVars, loopVars, jobVars>>

StartGoroutines ==
    /\ main = "init"
    /\ main' = "start"
    /\ handler' = "notify"
    /\ cleaner' = "select"
    /\ monitor' = "select"
    /\ UNCHANGED <<removals, notified, signalsChan, exit, isDumping, dumps,
                   diag, server, jobVars>>

\* The log files cannot be made, or the certificate can neither be loaded nor
\* made: the process removes the pid file and exits at once.
CertificateFails ==
    /\ main = "start" /\ server = "none"
    /\ removals' = removals + 1
    /\ main' = "exit"
    /\ UNCHANGED <<exit, signalVars, loopVars, jobVars>>

\* ListenAndServeTLS, which does not listen once Shutdown was called.
Listen ==
    /\ main = "start"
    /\ main' = "serve"
    /\ server' = IF server = "none" THEN "open" ELSE server
    /\ UNCHANGED <<removals, exit, signalVars, cleaner, monitor, jobVars>>

\* log.Fatalf: the port is taken.  No deferred function runs.
ListenFails ==
    /\ main = "start" /\ server = "none"
    /\ main' = "crashed"
    /\ UNCHANGED <<removals, exit, signalVars, loopVars, jobVars>>

\* The goroutine in charge of the shutdown: Shutdown closes the listener, which
\* makes ListenAndServeTLS return, and only then begins to wait for requests.
Shutdown ==
    /\ exit
    /\ main \in {"start", "serve"} /\ server # "closed"
    /\ server' = "closed"
    /\ UNCHANGED <<main, removals, exit, signalVars, cleaner, monitor, jobVars>>

ServeReturns ==
    /\ main = "serve" /\ server = "closed"
    /\ main' = "wait"
    /\ UNCHANGED <<removals, exit, signalVars, loopVars, jobVars>>

\* Mutant: the cleanup routine is not counted by the wait group.
WaitGroupWithoutCleaner ==
    /\ main = "wait"
    /\ handler = "gone" /\ monitor = "gone"
    /\ main' = "remove"
    /\ UNCHANGED <<removals, exit, signalVars, loopVars, jobVars>>

\* wg.Wait()
WaitGroup ==
    /\ main = "wait"
    /\ handler = "gone" /\ cleaner = "gone" /\ monitor = "gone"
    /\ main' = "remove"
    /\ UNCHANGED <<removals, exit, signalVars, loopVars, jobVars>>

\* Mutant: the deferred function only exits.
DeferredNoRemove ==
    /\ main = "remove"
    /\ main' = "exit"
    /\ UNCHANGED <<removals, exit, signalVars, loopVars, jobVars>>

\* The deferred function: os.Remove, os.Exit.
DeferredRemove ==
    /\ main = "remove"
    /\ removals' = removals + 1
    /\ main' = "exit"
    /\ UNCHANGED <<exit, signalVars, loopVars, jobVars>>

ExitProcess ==
    /\ main = "exit"
    /\ main' = "exited"
    /\ UNCHANGED <<removals, exit, signalVars, loopVars, jobVars>>

MainNext == \/ GiveUp \/ DeferRemoval
            \/ InitFails \/ StartGoroutines \/ CertificateFails \/ Listen
            \/ ListenFails \/ Shutdown \/ ServeReturns \/ WaitGroup
            \/ DeferredRemove \/ ExitProcess

-----------------------------------------------------------------------------
(* Signals and diagnostics *)

\* A signal from outside.  The runtime does not wait for room in the channel;
\* while it is not told to notify, the default action ends the process.
OsSignal(s) ==
    /\ ~Dead
    /\ IF notified
       THEN /\ Len(signalsChan) < SignalsBuffer
            /\ signalsChan' = Append(signalsChan, s)
            /\ UNCHANGED main
       ELSE main' = "crashed" /\ UNCHANGED signalsChan
    /\ UNCHANGED <<removals, exit, notified, handler, isDumping, dumps, diag,
                   loopVars, jobVars>>

\* SIGKILL cannot be caught: the worker's own stop command sends it.
Killed ==
    /\ ~Dead
    /\ main' = "crashed"
    /\ UNCHANGED <<removals, exit, signalVars, loopVars, jobVars>>

Notify ==
    /\ ~Dead
    /\ handler = "notify"
    /\ handler' = "receive"
    /\ notified' = TRUE
    /\ UNCHANGED <<main, removals, exit, signalsChan, isDumping, dumps, diag,
                   loopVars, jobVars>>

Receive(s) == /\ ~Dead /\ handler = "receive"
              /\ signalsChan # <<>> /\ Head(signalsChan) = s
              /\ signalsChan' = Tail(signalsChan)

\* Mutant: the flag is set by the goroutine and not looked at before.
TakeQuitUnchecked ==
    /\ Receive("quit")
    /\ isDumping' = 1 /\ dumps' = dumps + 1
    /\ UNCHANGED <<main, removals, exit, notified, handler, diag,
                   loopVars, jobVars>>

\* Mutant: the handler returns where it should continue.
TakeQuitReturns ==
    /\ Receive("quit")
    /\ IF isDumping = 1
       THEN handler' = "gone" /\ UNCHANGED <<isDumping, dumps>>
       ELSE isDumping' = 1 /\ dumps' = dumps + 1 /\ UNCHANGED handler
    /\ UNCHANGED <<main, removals, exit, notified, diag, loopVars, jobVars>>

\* SIGQUIT: ignored while a dump is in progress.  Only this goroutine sets the
\* flag, so the load and the store are one step.
TakeQuit ==
    /\ Receive("quit")
    /\ IF isDumping = 1 THEN UNCHANGED <<isDumping, dumps>>
                        ELSE isDumping' = 1 /\ dumps' = dumps + 1
    /\ UNCHANGED <<main, removals, exit, notified, handler, diag,
                   loopVars, jobVars>>

\* collectStackTrace has tried each profile and returns; the flag is cleared
\* whether all of them could be saved or not.
CollectStackTrace ==
    /\ ~Dead
    /\ dumps > 0
    /\ dumps' = dumps - 1
    /\ isDumping' = 0
    /\ UNCHANGED <<main, removals, exit, notified, handler, signalsChan, diag,
                   loopVars, jobVars>>

\* Any other signal: signal.Stop, then remove the pid file, then close exit.
TakeExit ==
    /\ Receive("exit")
    /\ notified' = FALSE
    /\ handler' = "remove"
    /\ UNCHANGED <<main, removals, exit, isDumping, dumps, diag,
                   loopVars, jobVars>>

RemovePidFile ==
    /\ ~Dead
    /\ handler = "remove"
    /\ removals' = removals + 1
    /\ handler' = "close"
    /\ UNCHANGED <<main, exit, notified, signalsChan, isDumping, dumps, diag,
                   loopVars, jobVars>>

CloseExit ==
    /\ ~Dead
    /\ handler = "close"
    /\ exit' = TRUE
    /\ handler' = "gone"
    /\ UNCHANGED <<main, removals, notified, signalsChan, isDumping, dumps,
                   diag, loopVars, jobVars>>

Diag(d, from, to) ==
    /\ ~Dead
    /\ diag[d] = from
    /\ diag' = [diag EXCEPT ![d] = to]
    /\ UNCHANGED <<main, removals, exit, notified, handler, isDumping, dumps,
                   loopVars, jobVars>>

DiagRequest(d) ==
    /\ server = "open"
    /\ Diag(d, "idle", "check")
    /\ UNCHANGED signalsChan

DiagCheck(d) ==
    /\ Diag(d, "check", IF isDumping = 1 THEN "answered" ELSE "send")
    /\ UNCHANGED signalsChan

\* Mutant: the channel of signals takes any number of them.
DiagSendUnbounded(d) ==
    /\ Diag(d, "send", "answered")
    /\ signalsChan' = Append(signalsChan, "quit")

\* sendSignalForTraceDump waits for room in the channel.
DiagSend(d) ==
    /\ Diag(d, "send", "answered")
    /\ Len(signalsChan) < SignalsBuffer
    /\ signalsChan' = Append(signalsChan, "quit")

SignalNext == \/ \E s \in Signals : OsSignal(s)
              \/ Killed \/ Notify \/ TakeQuit \/ CollectStackTrace
              \/ TakeExit \/ RemovePidFile \/ CloseExit
              \/ \E d \in Diags : DiagRequest(d) \/ DiagCheck(d) \/ DiagSend(d)

-----------------------------------------------------------------------------
(* The cleanup routine, the monitor, the requests and the executors *)

Cleanup(from, to) ==
    /\ ~Dead
    /\ cleaner = from
    /\ cleaner' = to
    /\ UNCHANGED <<main, removals, exit, signalVars, monitor, server, queue,
                   job>>

\* The interval is counted in hours: the server has been started by then.
CleanupWake == /\ server # "none"
               /\ Cleanup("select", "lock")
               /\ UNCHANGED mapLock

CleanupLock == /\ Cleanup("lock", "locked")
               /\ mapLock = NoOne
               /\ mapLock' = Cleaner

CleanupUnlock == Cleanup("locked", "select") /\ mapLock' = NoOne

CleanupExit == exit /\ Cleanup("select", "gone") /\ UNCHANGED mapLock

\* A select with two ready cases takes either: after exit is closed the monitor
\* may go on picking jobs up.
Pickup ==
    /\ ~Dead
    /\ monitor = "select"
    /\ queue # <<>>
    /\ job' = [job EXCEPT ![Head(queue)] = "start"]
    /\ queue' = Tail(queue)
    /\ UNCHANGED <<main, removals, exit, signalVars, loopVars, mapLock>>

\* Mutant: the monitor does not listen to exit.
MonitorIgnoresExit ==
    /\ ~Dead
    /\ exit /\ monitor = "select"
    /\ UNCHANGED vars

MonitorExit ==
    /\ ~Dead
    /\ exit /\ monitor = "select"
    /\ monitor' = "gone"
    /\ UNCHANGED <<main, removals, exit, signalVars, cleaner, server, jobVars>>

Step(j, from, to) ==
    /\ ~Dead
    /\ job[j] = from
    /\ job' = [job EXCEPT ![j] = to]
    /\ UNCHANGED <<main, removals, exit, signalVars, loopVars>>

\* A request that schedules job j comes in, lists it and puts it in the queue.
Request(j) == /\ server = "open"
              /\ Step(j, "none", "lock")
              /\ UNCHANGED <<mapLock, queue>>

RequestLock(j) == /\ Step(j, "lock", "locked")
                  /\ mapLock = NoOne
                  /\ mapLock' = j
                  /\ UNCHANGED queue

RequestUnlock(j) == /\ Step(j, "locked", "enqueue")
                    /\ mapLock' = NoOne
                    /\ UNCHANGED queue

Enqueue(j) == /\ Step(j, "enqueue", "queued")
              /\ Len(queue) < MaxJobsQueueBuffer
              /\ queue' = Append(queue, j)
              /\ UNCHANGED mapLock

\* A stop request that waits for ever with the map locked: JobsControl shows
\* that there is one.
StopStuck ==
    /\ ~Dead
    /\ server = "open" /\ mapLock = NoOne
    /\ mapLock' = Stuck
    /\ UNCHANGED <<main, removals, exit, signalVars, loopVars, queue, job>>

\* cmd.Start looks at the context, and fails once it is cancelled,
ExecStart(j) == /\ Step(j, "start", IF cancelled THEN "done" ELSE "fork")
                /\ UNCHANGED <<mapLock, queue>>

\* and only then makes the process: the context may be cancelled in between.
ExecFork(j) == /\ Step(j, "fork", "running")
               /\ UNCHANGED <<mapLock, queue>>

\* The process could not be made, or it ends: by itself, by a stop or by its
\* timeout, or killed since the context is cancelled.
ExecEnd(j) == /\ Step(j, job[j], "done")
              /\ job[j] \in {"start", "fork", "running"}
              /\ UNCHANGED <<mapLock, queue>>

WorkNext == \/ CleanupWake \/ CleanupLock \/ CleanupUnlock \/ CleanupExit
            \/ Pickup \/ MonitorExit \/ StopStuck
            \/ \E j \in Jobs : \/ Request(j) \/ RequestLock(j) \/ RequestUnlock(j)
                               \/ Enqueue(j) \/ ExecStart(j) \/ ExecFork(j)
                               \/ ExecEnd(j)

-----------------------------------------------------------------------------
Init ==
    /\ main = "new"
    /\ removals = 0
    /\ notified = FALSE
    /\ signalsChan = <<>>
    /\ exit = FALSE
    /\ handler = "none"
    /\ isDumping = 0
    /\ dumps = 0
    /\ diag = [d \in Diags |-> "idle"]
    /\ cleaner = "none"
    /\ monitor = "none"
    /\ server = "none"
    /\ mapLock = NoOne
    /\ queue = <<>>
    /\ job = [j \in Jobs |-> "none"]

Next == MainNext \/ SignalNext \/ WorkNext

Spec == Init /\ [][Next]_vars

(***************************************************************************)
(* Fairness.  Every goroutine that can run runs.  A goroutine that waits   *)
(* for the map or for room in a channel, or a select that finds exit       *)
(* closed each time it comes round, gets its turn: strong fairness, as the *)
(* waiters are served in order and select chooses at random.  Nothing need *)
(* fail, no signal need come, no request need be made, and the cleanup     *)
(* interval need not elapse.                                               *)
(***************************************************************************)
Fairness ==
    /\ WF_vars(\/ DeferRemoval \/ StartGoroutines \/ Listen \/ ServeReturns \/ WaitGroup
               \/ DeferredRemove \/ ExitProcess)
    /\ WF_vars(Shutdown)
    /\ WF_vars(Notify \/ TakeQuit \/ TakeExit \/ RemovePidFile \/ CloseExit)
    /\ WF_vars(CollectStackTrace)
    /\ \A d \in Diags : SF_vars(DiagCheck(d) \/ DiagSend(d))
    /\ SF_vars(CleanupLock) /\ WF_vars(CleanupUnlock) /\ SF_vars(CleanupExit)
    /\ WF_vars(Pickup) /\ WF_vars(MonitorExit)
    /\ \A j \in Jobs :
          /\ SF_vars(RequestLock(j) \/ RequestUnlock(j) \/ Enqueue(j))
          /\ WF_vars(ExecStart(j) \/ ExecFork(j) \/ ExecEnd(j))

FairSpec == Spec /\ Fairness

-----------------------------------------------------------------------------
(* The abstract life *)

life == IF Dead \/ main = "new"
        THEN main
        ELSE IF removals > 0 THEN "leaving" ELSE "up"

WL == INSTANCE WorkerLife

\* ImplementsLife: the process implements WorkerLife.  Once the removal of the
\* pid file is deferred, whatever fails and whichever signals come, it exits in
\* order only after it has removed the file, at most twice, and does not return
\* to work in between; before that it ends with the file as it was.
ImplementsLife == WL!LifeSpec

-----------------------------------------------------------------------------
(* Properties *)

\* OneDump: two collections of stack traces never overlap, whatever mix of
\* signals and requests asks for them, and the flag is set exactly while one is
\* in progress: a dump that fails does not switch diagnostics off for good.
OneDump == dumps <= 1 /\ (isDumping = 1 <=> dumps = 1)

\* OrderlyExit: a worker that has served exits in order only when its signal
\* handler, its monitor and its cleanup routine have left: never in the middle
\* of a cleanup, and never with executors that were not told to stop.
OrderlyExit ==
    main = "exited" /\ server # "none"
       => exit /\ handler = "gone" /\ cancelled /\ cleaner = "gone"

\* The invariant that the proofs of these properties rest on.  Each of the two
\* places that remove the pid file does so once, exit is closed by the last step
\* of the signal handler, and the end of main waits for the three goroutines.
Count(condition) == IF condition THEN 1 ELSE 0

RemovalInv ==
    main # "crashed"
       => removals = Count(handler \in {"close", "gone"})
                        + Count(main \in {"exit", "exited"})

StartInv ==
    main \in {"new", "init", "gaveup"} => server = "none" /\ handler = "none"

ExitInv == exit <=> handler = "gone"

WaitInv ==
    main \in {"remove", "exit", "exited"} /\ server # "none"
       => handler = "gone" /\ cancelled /\ cleaner = "gone"

WorkerInv ==
    TypeOK /\ OneDump /\ RemovalInv /\ StartInv /\ ExitInv /\ WaitInv

\* The cleanup routine waits for a map that is never given back.
MapStuck == mapLock = Stuck /\ cleaner = "lock"

\* WorkerStops: an exit signal that reached the channel ends the process,
\* whatever dumps, requests, jobs and cleanups are in progress, unless the
\* cleanup routine waits for the map behind a request that is stuck.
ExitRequested == \E i \in 1 .. Len(signalsChan) : signalsChan[i] = "exit"

WorkerStops == ExitRequested ~> (Dead \/ MapStuck)

\* DiagAnswered: a diagnostics request is answered, also when the channel of
\* signals is full and the handler is about to leave, unless the worker ends.
DiagAnswered ==
    \A d \in Diags :
       diag[d] = "check" ~> (diag[d] = "answered" \/ Dead \/ MapStuck)
=============================================================================
