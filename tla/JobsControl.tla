---------------------------- MODULE JobsControl ----------------------------
(***************************************************************************)
(* The core of the jobs worker: the map of submitted jobs with its         *)
(* reader/writer lock, the bounded queue the monitor drains, one executor  *)
(* per run of a job, the HTTP handlers that schedule, stop, restart, query *)
(* and fetch jobs, and the routine that deletes old jobs.                  *)
(*                                                                         *)
(* A step is a piece of code between two points where another goroutine    *)
(* can be seen to interfere: a lock, a channel operation, or an unlocked   *)
(* read of Job.iscompleted, which every handler and the cleanup routine    *)
(* make.                                                                   *)
(***************************************************************************)
EXTENDS Integers, Sequences, FiniteSets, RWMutex

CONSTANTS
    Jobs,                  \* every job that may be created, named by its id
    Short,                 \* the short jobs; the others are long (Job.islong)
    Clients,               \* HTTP requests in progress at the same time
    Executors,             \* bound: runs in progress at the same time
    Cleaner,               \* the goroutine of cleanupMapResults
    Requests,              \* the kinds of request the clients make
    Outcomes,              \* how the processes of the jobs may end
    MaxJobsQueueBuffer,    \* capacity of globalJobsQueue
    JobsCleanupMaxFetch,   \* fetches after which a job may be deleted
    CleanupActive,         \* whether the cleanup interval elapses at all
    NoJob                  \* "no job": the job field of a process at rest

RequestKinds == {"schedule", "stop", "stopall", "restart", "restartall",
                 "fetch", "status"}

\* What cmd.Wait returns: no error, a non-zero exit status, death by a signal,
\* or an error that is not about the process (copying its output, the context).
Errors == {"none", "exit", "signal", "other"}

ASSUME JobsAssumption == Short \subseteq Jobs /\ NoJob \notin Jobs
ASSUME ProcessesAssumption ==
          /\ Clients \cap Executors = {}
          /\ Cleaner \notin Clients
          /\ NoOne \notin Clients \cup Executors \cup {Cleaner}
ASSUME RequestsAssumption == Requests \subseteq RequestKinds
ASSUME OutcomesAssumption == Outcomes \subseteq Errors
ASSUME QueueAssumption == MaxJobsQueueBuffer \in Nat \ {0}
ASSUME FetchAssumption == JobsCleanupMaxFetch \in Nat
ASSUME CleanupAssumption == CleanupActive \in BOOLEAN

VARIABLES
    globalJobsResults,  \* ids of the jobs the map lists
    globalJobsQueue,    \* channel of jobs that wait for an executor
    mapLock,            \* lock of the map
    job,                \* the fields of each job that the handlers share
    stop,               \* TRUE: the one-place channel Job.stop holds a token
    jobLock,            \* who is inside Job.lock for more than a step
    submitted,          \* ids handed out so far
    client,             \* the handler each client's request is in
    executor,           \* the run each executor is in
    cleaner             \* the cleanup routine

vars == <<globalJobsResults, globalJobsQueue, mapLock, job, stop, jobLock,
          submitted, client, executor, cleaner>>

-----------------------------------------------------------------------------
(* Types *)

Job == [iscompleted : BOOLEAN, issuccess : BOOLEAN, exitcode : -1 .. 1,
        fetchcount : 0 .. JobsCleanupMaxFetch + 1,
        endtime : {"zero", "recent", "old"}]

ClientPC == {"idle", "next", "rlock", "lock", "lockall", "register", "reset",
             "enqueue", "lookup", "check", "send", "count", "report",
             "panicked"}

Client == [req : RequestKinds \cup {"none"}, pc : ClientPC,
           todo : SUBSET Jobs, job : Jobs \cup {NoJob}]

Causes == {"none", "timeout", "stop", "done"}

Executor == [pc : {"idle", "start", "select", "complete", "end", "record",
                   "exit"},
             job : Jobs \cup {NoJob}, err : Errors, cause : Causes]

CleanerState == [pc : {"idle", "lock", "locked", "scan", "delete"},
                 todo : SUBSET Jobs, job : Jobs \cup {NoJob}]

TypeOK ==
    /\ globalJobsResults \in SUBSET Jobs
    /\ globalJobsQueue \in Seq(Jobs)
    /\ Len(globalJobsQueue) <= MaxJobsQueueBuffer
    /\ mapLock \in RWMutexType(Clients \cup {Cleaner})
    /\ job \in [Jobs -> Job]
    /\ stop \in [Jobs -> BOOLEAN]
    /\ jobLock \in [Jobs -> Clients \cup Executors \cup {NoOne}]
    /\ submitted \in SUBSET Jobs
    /\ client \in [Clients -> Client]
    /\ executor \in [Executors -> Executor]
    /\ cleaner \in CleanerState

-----------------------------------------------------------------------------
(* What the code does to the fields of one job *)

NewJob == [iscompleted |-> FALSE, issuccess |-> FALSE, exitcode |-> -1,
           fetchcount |-> 0, endtime |-> "zero"]

\* Mutant: the reset forgets iscompleted.
ResetKeepsCompleted(f) ==
    [f EXCEPT !.issuccess = FALSE, !.fetchcount = 0, !.exitcode = -1,
              !.endtime = "zero"]

\* resetCompletedJobInfos gives the fields their values at creation.  It does
\* not look at the channel Job.stop.
ResetInfos(f) == [f EXCEPT !.iscompleted = FALSE, !.issuccess = FALSE,
                           !.fetchcount = 0, !.exitcode = -1,
                           !.endtime = "zero"]

\* Mutant: a job that could not be started is left pending.
FailedKeepsPending(f) == [f EXCEPT !.endtime = "recent", !.issuccess = FALSE]

FailedInfos(f) == [f EXCEPT !.endtime = "recent", !.iscompleted = TRUE,
                            !.issuccess = FALSE]

\* The counter of a fetched job; past the limit its value no longer matters.
CountFetch(f) ==
    [f EXCEPT !.fetchcount = IF @ > JobsCleanupMaxFetch THEN @ ELSE @ + 1]

\* Mutant: the cleanup condition only looks at counter and age.
DeletableWhileRunning(f) == \/ f.fetchcount > JobsCleanupMaxFetch
                            \/ f.endtime \in {"zero", "old"}

\* The cleanup condition.  The age of a zero endtime exceeds every limit.
Deletable(f) == /\ f.iscompleted
                /\ \/ f.fetchcount > JobsCleanupMaxFetch
                   \/ f.endtime \in {"zero", "old"}

\* Mutant: the exit code ignores the error of the run.
ExitCodeIgnoresError(f, err, cause) == IF cause = "stop" THEN f.exitcode ELSE 0

\* The exit code after a run that ended with err for that cause: a killed
\* process has status -1, a stopped run and an unknown error write nothing.
ExitCode(f, err, cause) ==
    CASE err = "none" /\ cause # "stop" -> 0
      [] err = "exit"                   -> 1
      [] err = "signal"                 -> -1
      [] OTHER                          -> f.exitcode

-----------------------------------------------------------------------------
(* Requests.  A handler works through a set of ids in any order: that of    *)
(* the query string, or that of the map's iteration.                        *)

Idle == [req |-> "none", pc |-> "idle", todo |-> {}, job |-> NoJob]

\* Handlers that keep the map read-locked, or write-locked, over their loop.
ReadLoops  == {"stop", "stopall", "status"}
WriteLoops == {"restartall"}

\* Where the body of each handler's loop begins.
LoopBody == [schedule   |-> "lock",   stop |-> "check",   stopall |-> "check",
             restartall |-> "check",  restart |-> "lookup", fetch |-> "lookup",
             status     |-> "report"]

At(c, pc) == client[c].pc = pc
\* Back at the head of its loop a handler has done with the job.
Goto(c, pc) ==
    client' = [client EXCEPT ![c].pc = pc,
                             ![c].job = IF pc = "next" THEN NoJob ELSE @]
Begin(c, req, pc, ids) ==
    /\ At(c, "idle")
    /\ req \in Requests
    /\ client' = [client EXCEPT ![c] =
                     [req |-> req, pc |-> pc, todo |-> ids, job |-> NoJob]]

\* No one is inside the lock of job j.
JobUnlocked(j) == jobLock[j] = NoOne

\* A request to run new commands.  The ids are fresh: generateID draws them.
ScheduleRequest(c) ==
    /\ \E S \in (SUBSET (Jobs \ submitted)) \ {{}} :
          /\ Begin(c, "schedule", "next", S)
          /\ submitted' = submitted \cup S
    /\ UNCHANGED <<globalJobsResults, globalJobsQueue, mapLock, job, stop,
                   jobLock, executor, cleaner>>

\* A request that names jobs by their ids, deleted and unlisted ones included.
StopRequest(c, S)    == Begin(c, "stop", "rlock", S)
StatusRequest(c, S)  == Begin(c, "status", "rlock", S)
RestartRequest(c, S) == Begin(c, "restart", "next", S)
FetchRequest(c, S)   == Cardinality(S) = 1 /\ Begin(c, "fetch", "next", S)

IdsRequest(c) ==
    /\ \E S \in (SUBSET submitted) \ {{}} :
          \/ StopRequest(c, S)
          \/ StatusRequest(c, S)
          \/ RestartRequest(c, S)
          \/ FetchRequest(c, S)
    /\ UNCHANGED <<globalJobsResults, globalJobsQueue, mapLock, job, stop,
                   jobLock, submitted, executor, cleaner>>

\* A request on every job of the map.
AllRequest(c) ==
    /\ \/ Begin(c, "stopall", "rlock", {})
       \/ Begin(c, "restartall", "lock", {})
    /\ UNCHANGED <<globalJobsResults, globalJobsQueue, mapLock, job, stop,
                   jobLock, submitted, executor, cleaner>>

RLockMap(c) ==
    /\ At(c, "rlock")
    /\ NoWriter(mapLock)
    /\ mapLock' = RLock(mapLock, c)
    /\ client' = [client EXCEPT ![c].pc = "next",
                    ![c].todo = IF client[c].req = "stopall"
                                THEN globalJobsResults ELSE @]
    /\ UNCHANGED <<globalJobsResults, globalJobsQueue, job, stop, jobLock,
                   submitted, executor, cleaner>>

\* mapLock.Lock() is called: from here on no reader enters the map.
LockMap(c) ==
    /\ At(c, "lock")
    /\ NoWriter(mapLock)
    /\ mapLock' = Announce(mapLock, c)
    /\ Goto(c, CASE client[c].req = "schedule" -> "register"
                 [] client[c].req = "restart"  -> "reset"
                 [] OTHER                      -> "lockall")
    /\ UNCHANGED <<globalJobsResults, globalJobsQueue, job, stop, jobLock,
                   submitted, executor, cleaner>>

\* restartAllJobs owns the map; it skips the long jobs.
LockAll(c) ==
    /\ At(c, "lockall")
    /\ HasWrite(mapLock, c)
    /\ client' = [client EXCEPT ![c].pc = "next",
                                ![c].todo = globalJobsResults \cap Short]
    /\ UNCHANGED <<globalJobsResults, globalJobsQueue, mapLock, job, stop,
                   jobLock, submitted, executor, cleaner>>

NextJob(c) ==
    /\ At(c, "next")
    /\ \E j \in client[c].todo :
          client' = [client EXCEPT ![c].pc = LoopBody[client[c].req],
                                   ![c].todo = @ \ {j}, ![c].job = j]
    /\ UNCHANGED <<globalJobsResults, globalJobsQueue, mapLock, job, stop,
                   jobLock, submitted, executor, cleaner>>

\* Mutant: a handler that found no job to deal with forgets to unlock the map.
EndRequestKeepsLock(c) ==
    /\ At(c, "next")
    /\ client[c].todo = {}
    /\ client' = [client EXCEPT ![c] = Idle]
    /\ UNCHANGED <<globalJobsResults, globalJobsQueue, mapLock, job, stop,
                   jobLock, submitted, executor, cleaner>>

\* The handler leaves its loop, gives the map back and answers.
EndRequest(c) ==
    /\ At(c, "next")
    /\ client[c].todo = {}
    /\ client' = [client EXCEPT ![c] = Idle]
    /\ mapLock' = CASE client[c].req \in ReadLoops  -> RUnlock(mapLock, c)
                    [] client[c].req \in WriteLoops -> Unlock(mapLock)
                    [] OTHER                        -> mapLock
    /\ UNCHANGED <<globalJobsResults, globalJobsQueue, job, stop, jobLock,
                   submitted, executor, cleaner>>

-----------------------------------------------------------------------------
(* The bodies of the handlers' loops *)

\* Mutant: the job is listed although readers are still inside the map.
RegisterWithoutWaiting(c) ==
    /\ At(c, "register")
    /\ globalJobsResults' = globalJobsResults \cup {client[c].job}
    /\ mapLock' = Unlock(mapLock)
    /\ Goto(c, "enqueue")
    /\ UNCHANGED <<globalJobsQueue, job, stop, jobLock, submitted, executor,
                   cleaner>>

\* Schedule: list the job, then hand it to the monitor.
Register(c) ==
    /\ At(c, "register")
    /\ HasWrite(mapLock, c)
    /\ globalJobsResults' = globalJobsResults \cup {client[c].job}
    /\ mapLock' = Unlock(mapLock)
    /\ Goto(c, "enqueue")
    /\ UNCHANGED <<globalJobsQueue, job, stop, jobLock, submitted, executor,
                   cleaner>>

\* Mutant: the channel grows without bound.
EnqueueUnbounded(c) ==
    /\ At(c, "enqueue")
    /\ globalJobsQueue' = Append(globalJobsQueue, client[c].job)
    /\ Goto(c, "next")
    /\ UNCHANGED <<globalJobsResults, mapLock, job, stop, jobLock, submitted,
                   executor, cleaner>>

\* globalJobsQueue <- job blocks while the buffer is full.
Enqueue(c) ==
    /\ At(c, "enqueue")
    /\ Len(globalJobsQueue) < MaxJobsQueueBuffer
    /\ globalJobsQueue' = Append(globalJobsQueue, client[c].job)
    /\ Goto(c, "next")
    /\ UNCHANGED <<globalJobsResults, mapLock, job, stop, jobLock, submitted,
                   executor, cleaner>>

\* Restart and fetch: RLock, read the map, RUnlock.
Lookup(c) ==
    /\ At(c, "lookup")
    /\ NoWriter(mapLock)
    /\ Goto(c, IF client[c].job \notin globalJobsResults THEN "next"
               ELSE IF client[c].req = "fetch" THEN "count" ELSE "check")
    /\ UNCHANGED <<globalJobsResults, globalJobsQueue, mapLock, job, stop,
                   jobLock, submitted, executor, cleaner>>

\* Stop by ids: the id is not in the map.
CheckUnknown(c) ==
    /\ At(c, "check")
    /\ client[c].req = "stop"
    /\ client[c].job \notin globalJobsResults
    /\ Goto(c, "next")
    /\ UNCHANGED <<globalJobsResults, globalJobsQueue, mapLock, job, stop,
                   jobLock, submitted, executor, cleaner>>

\* Stop and restart read iscompleted without the job's lock.
CheckRunning(c) ==
    /\ At(c, "check")
    /\ client[c].req = "stop" => client[c].job \in globalJobsResults
    /\ ~job[client[c].job].iscompleted
    /\ Goto(c, "send")
    /\ UNCHANGED <<globalJobsResults, globalJobsQueue, mapLock, job, stop,
                   jobLock, submitted, executor, cleaner>>

CheckCompleted(c) ==
    /\ At(c, "check")
    /\ client[c].req = "stop" => client[c].job \in globalJobsResults
    /\ job[client[c].job].iscompleted
    /\ Goto(c, CASE client[c].req = "restart"    -> "lock"
                 [] client[c].req = "restartall" -> "reset"
                 [] OTHER                        -> "next")
    /\ UNCHANGED <<globalJobsResults, globalJobsQueue, mapLock, job, stop,
                   jobLock, submitted, executor, cleaner>>

\* job.stop <- struct{}{} blocks while the channel holds a token.
StopSend(c) ==
    /\ At(c, "send")
    /\ ~stop[client[c].job]
    /\ stop' = [stop EXCEPT ![client[c].job] = TRUE]
    /\ Goto(c, "next")
    /\ UNCHANGED <<globalJobsResults, globalJobsQueue, mapLock, job, jobLock,
                   submitted, executor, cleaner>>

\* Restart of a short job that was found completed.
Reset(c) ==
    /\ At(c, "reset")
    /\ HasWrite(mapLock, c)
    /\ client[c].job \in Short
    /\ JobUnlocked(client[c].job)
    /\ job' = [job EXCEPT ![client[c].job] = ResetInfos(@)]
    /\ mapLock' = IF client[c].req = "restart" THEN Unlock(mapLock)
                                               ELSE mapLock
    /\ Goto(c, "enqueue")
    /\ UNCHANGED <<globalJobsResults, globalJobsQueue, stop, jobLock,
                   submitted, executor, cleaner>>

\* Restart of a long job: its result buffer is nil, so the last statement of
\* the reset panics.  net/http recovers and the two locks stay taken.
ResetPanic(c) ==
    /\ At(c, "reset")
    /\ HasWrite(mapLock, c)
    /\ client[c].job \notin Short
    /\ JobUnlocked(client[c].job)
    /\ job' = [job EXCEPT ![client[c].job] = ResetInfos(@)]
    /\ jobLock' = [jobLock EXCEPT ![client[c].job] = c]
    /\ Goto(c, "panicked")
    /\ UNCHANGED <<globalJobsResults, globalJobsQueue, mapLock, stop,
                   submitted, executor, cleaner>>

Fetch(c) ==
    /\ At(c, "count")
    /\ JobUnlocked(client[c].job)
    /\ job' = [job EXCEPT ![client[c].job] = CountFetch(@)]
    /\ Goto(c, "next")
    /\ UNCHANGED <<globalJobsResults, globalJobsQueue, mapLock, stop, jobLock,
                   submitted, executor, cleaner>>

\* A listed job's status is collected inside the job's lock.
Status(c) ==
    /\ At(c, "report")
    /\ client[c].job \in globalJobsResults => JobUnlocked(client[c].job)
    /\ Goto(c, "next")
    /\ UNCHANGED <<globalJobsResults, globalJobsQueue, mapLock, job, stop,
                   jobLock, submitted, executor, cleaner>>

ClientNext(c) ==
    \/ ScheduleRequest(c) \/ IdsRequest(c) \/ AllRequest(c)
    \/ RLockMap(c) \/ LockMap(c) \/ LockAll(c) \/ NextJob(c) \/ EndRequest(c)
    \/ Register(c) \/ Enqueue(c) \/ Lookup(c)
    \/ CheckUnknown(c) \/ CheckRunning(c) \/ CheckCompleted(c) \/ StopSend(c)
    \/ Reset(c) \/ ResetPanic(c) \/ Fetch(c) \/ Status(c)

-----------------------------------------------------------------------------
(* The monitor and the executors *)

NoRun == [pc |-> "idle", job |-> NoJob, err |-> "none", cause |-> "none"]

InRun(e, pc) == executor[e].pc = pc

\* jobsMonitor takes a job off the queue and starts an executor for it.
Pickup(e) ==
    /\ InRun(e, "idle")
    /\ globalJobsQueue # <<>>
    /\ executor' = [executor EXCEPT ![e] =
                       [NoRun EXCEPT !.pc = "start",
                                     !.job = Head(globalJobsQueue)]]
    /\ globalJobsQueue' = Tail(globalJobsQueue)
    /\ UNCHANGED <<globalJobsResults, mapLock, job, stop, jobLock, submitted,
                   client, cleaner>>

\* The output file, the pipe or the process cannot be made.
ExecFail(e) ==
    /\ InRun(e, "start")
    /\ JobUnlocked(executor[e].job)
    /\ job' = [job EXCEPT ![executor[e].job] = FailedInfos(@)]
    /\ executor' = [executor EXCEPT ![e] = NoRun]
    /\ UNCHANGED <<globalJobsResults, globalJobsQueue, mapLock, stop, jobLock,
                   submitted, client, cleaner>>

\* The process runs; its pid is set inside the job's lock.
ExecStart(e) ==
    /\ InRun(e, "start")
    /\ JobUnlocked(executor[e].job)
    /\ executor' = [executor EXCEPT ![e].pc = "select"]
    /\ UNCHANGED <<globalJobsResults, globalJobsQueue, mapLock, job, stop,
                   jobLock, submitted, client, cleaner>>

Leave(e, err, cause) ==
    /\ InRun(e, "select")
    /\ executor' = [executor EXCEPT ![e].pc = "complete", ![e].err = err,
                                    ![e].cause = cause]
    /\ UNCHANGED <<globalJobsResults, globalJobsQueue, mapLock, job, jobLock,
                   submitted, client, cleaner>>

\* Mutant: the context of a job has no deadline.
NeverTimeout(e) == Leave(e, "none", "timeout") /\ FALSE

\* case <-jobctx.Done()
ExecTimeout(e) ==
    /\ Leave(e, "none", "timeout")
    /\ UNCHANGED stop

\* case <-job.stop
ExecStop(e) ==
    /\ Leave(e, "none", "stop")
    /\ stop[executor[e].job]
    /\ stop' = [stop EXCEPT ![executor[e].job] = FALSE]

\* case err = <-done
ExecDone(e) ==
    /\ \E err \in Outcomes : Leave(e, err, "done")
    /\ UNCHANGED stop

\* job.lock.Lock(); job.iscompleted = true
ExecComplete(e) ==
    /\ InRun(e, "complete")
    /\ JobUnlocked(executor[e].job)
    /\ jobLock' = [jobLock EXCEPT ![executor[e].job] = e]
    /\ job' = [job EXCEPT ![executor[e].job].iscompleted = TRUE]
    /\ executor' = [executor EXCEPT ![e].pc = "end"]
    /\ UNCHANGED <<globalJobsResults, globalJobsQueue, mapLock, stop,
                   submitted, client, cleaner>>

\* job.endtime = time.Now(); job.lock.Unlock()
ExecEnd(e) ==
    /\ InRun(e, "end")
    /\ jobLock' = [jobLock EXCEPT ![executor[e].job] = NoOne]
    /\ job' = [job EXCEPT ![executor[e].job].endtime = "recent"]
    /\ executor' = [executor EXCEPT ![e].pc = "record"]
    /\ UNCHANGED <<globalJobsResults, globalJobsQueue, mapLock, stop,
                   submitted, client, cleaner>>

\* The two branches on err: issuccess, inside the job's lock.
ExecRecord(e) ==
    /\ InRun(e, "record")
    /\ JobUnlocked(executor[e].job)
    /\ job' = [job EXCEPT ![executor[e].job].issuccess =
                  (executor[e].err = "none")]
    /\ executor' = [executor EXCEPT ![e].pc = "exit"]
    /\ UNCHANGED <<globalJobsResults, globalJobsQueue, mapLock, stop, jobLock,
                   submitted, client, cleaner>>

\* The two branches on err: the exit code.  Only the code 0 of a run that
\* ended without error is written inside the job's lock.
ExecExit(e) ==
    /\ InRun(e, "exit")
    /\ executor[e].err = "none" /\ executor[e].cause # "stop"
          => JobUnlocked(executor[e].job)
    /\ job' = [job EXCEPT ![executor[e].job].exitcode =
                  ExitCode(job[executor[e].job], executor[e].err,
                           executor[e].cause)]
    /\ executor' = [executor EXCEPT ![e] = NoRun]
    /\ UNCHANGED <<globalJobsResults, globalJobsQueue, mapLock, stop, jobLock,
                   submitted, client, cleaner>>

ExecutorNext(e) ==
    \/ Pickup(e) \/ ExecFail(e) \/ ExecStart(e)
    \/ ExecTimeout(e) \/ ExecStop(e) \/ ExecDone(e)
    \/ ExecComplete(e) \/ ExecEnd(e) \/ ExecRecord(e) \/ ExecExit(e)

-----------------------------------------------------------------------------
(* The cleanup routine *)

CleanerGoto(pc) == cleaner' = [cleaner EXCEPT !.pc = pc]

CleanupWake ==
    /\ CleanupActive
    /\ cleaner.pc = "idle"
    /\ CleanerGoto("lock")
    /\ UNCHANGED <<globalJobsResults, globalJobsQueue, mapLock, job, stop,
                   jobLock, submitted, client, executor>>

CleanupLock ==
    /\ cleaner.pc = "lock"
    /\ NoWriter(mapLock)
    /\ mapLock' = Announce(mapLock, Cleaner)
    /\ CleanerGoto("locked")
    /\ UNCHANGED <<globalJobsResults, globalJobsQueue, job, stop, jobLock,
                   submitted, client, executor>>

\* Mutant: the routine holds the lock only to copy the map.
CleanupSnapshot ==
    /\ cleaner.pc = "locked"
    /\ HasWrite(mapLock, Cleaner)
    /\ mapLock' = Unlock(mapLock)
    /\ cleaner' = [cleaner EXCEPT !.pc = "scan", !.todo = globalJobsResults]
    /\ UNCHANGED <<globalJobsResults, globalJobsQueue, job, stop, jobLock,
                   submitted, client, executor>>

CleanupLocked ==
    /\ cleaner.pc = "locked"
    /\ HasWrite(mapLock, Cleaner)
    /\ cleaner' = [cleaner EXCEPT !.pc = "scan", !.todo = globalJobsResults]
    /\ UNCHANGED <<globalJobsResults, globalJobsQueue, mapLock, job, stop,
                   jobLock, submitted, client, executor>>

\* The condition is read without the job's lock.
CleanupCheck ==
    /\ cleaner.pc = "scan"
    /\ \E j \in cleaner.todo :
          cleaner' = IF Deletable(job[j])
                     THEN [pc |-> "delete", todo |-> cleaner.todo \ {j},
                           job |-> j]
                     ELSE [cleaner EXCEPT !.todo = @ \ {j}]
    /\ UNCHANGED <<globalJobsResults, globalJobsQueue, mapLock, job, stop,
                   jobLock, submitted, client, executor>>

\* The output has been saved, or the attempt has failed and is logged.
CleanupDelete ==
    /\ cleaner.pc = "delete"
    /\ globalJobsResults' = globalJobsResults \ {cleaner.job}
    /\ cleaner' = [cleaner EXCEPT !.pc = "scan", !.job = NoJob]
    /\ UNCHANGED <<globalJobsQueue, mapLock, job, stop, jobLock, submitted,
                   client, executor>>

CleanupUnlock ==
    /\ cleaner.pc = "scan"
    /\ cleaner.todo = {}
    /\ mapLock' = Unlock(mapLock)
    /\ CleanerGoto("idle")
    /\ UNCHANGED <<globalJobsResults, globalJobsQueue, job, stop, jobLock,
                   submitted, client, executor>>

CleanerNext == \/ CleanupWake \/ CleanupLock \/ CleanupLocked
               \/ CleanupCheck \/ CleanupDelete \/ CleanupUnlock

\* Time passes: a job ended long ago.
Age(j) ==
    /\ CleanupActive
    /\ job[j].endtime = "recent"
    /\ job' = [job EXCEPT ![j].endtime = "old"]
    /\ UNCHANGED <<globalJobsResults, globalJobsQueue, mapLock, stop, jobLock,
                   submitted, client, executor, cleaner>>

-----------------------------------------------------------------------------
Init ==
    /\ globalJobsResults = {}
    /\ globalJobsQueue = <<>>
    /\ mapLock = Unlocked
    /\ job = [j \in Jobs |-> NewJob]
    /\ stop = [j \in Jobs |-> FALSE]
    /\ jobLock = [j \in Jobs |-> NoOne]
    /\ submitted = {}
    /\ client = [c \in Clients |-> Idle]
    /\ executor = [e \in Executors |-> NoRun]
    /\ cleaner = [pc |-> "idle", todo |-> {}, job |-> NoJob]

Next ==
    \/ \E c \in Clients : ClientNext(c)
    \/ \E e \in Executors : ExecutorNext(e)
    \/ CleanerNext
    \/ \E j \in Jobs : Age(j)

Spec == Init /\ [][Next]_vars

(***************************************************************************)
(* Fairness.  The Go scheduler runs every goroutine that can run: weak      *)
(* fairness.  A mutex hands itself to a goroutine that has waited too long, *)
(* and the waiters of a channel are served in order: a goroutine that can   *)
(* take the lock or the channel again and again gets it, which is strong    *)
(* fairness.  A process run by a job need not end by itself, but its        *)
(* timeout fires.  No client has to make a request and time need not pass   *)
(* for the cleanup routine.                                                 *)
(***************************************************************************)
HandlerSteps(c) ==
    \/ RLockMap(c) \/ LockMap(c) \/ LockAll(c) \/ NextJob(c) \/ EndRequest(c)
    \/ Register(c) \/ Enqueue(c) \/ Lookup(c)
    \/ CheckUnknown(c) \/ CheckRunning(c) \/ CheckCompleted(c) \/ StopSend(c)
    \/ Reset(c) \/ ResetPanic(c) \/ Fetch(c) \/ Status(c)

RunSteps(e) ==
    \/ ExecFail(e) \/ ExecStart(e) \/ ExecTimeout(e)
    \/ ExecComplete(e) \/ ExecEnd(e) \/ ExecRecord(e) \/ ExecExit(e)

Fairness ==
    /\ \A c \in Clients : SF_vars(HandlerSteps(c))
    /\ \A e \in Executors : SF_vars(RunSteps(e))
    /\ WF_vars(\E e \in Executors : Pickup(e))
    /\ SF_vars(CleanupLock) /\ SF_vars(CleanupLocked)
    /\ WF_vars(CleanupCheck \/ CleanupDelete \/ CleanupUnlock)

FairSpec == Spec /\ Fairness

-----------------------------------------------------------------------------
(* Properties *)

Pending(j) == ~job[j].iscompleted

\* The request of c creates job j and has not listed it yet.
Scheduling(c, j) ==
    /\ client[c].req = "schedule"
    /\ \/ j \in client[c].todo
       \/ client[c].job = j /\ client[c].pc \in {"lock", "register"}

\* The request of c is about to hand job j to the monitor.
Enqueueing(c, j) == client[c].job = j /\ client[c].pc = "enqueue"

Queued(j) == \E i \in 1 .. Len(globalJobsQueue) : globalJobsQueue[i] = j

\* Executor e has job j and has not completed it yet.
Executing(e, j) == /\ executor[e].job = j
                   /\ executor[e].pc \in {"start", "select", "complete"}

\* Someone will still carry job j on.
Owned(j) == \/ \E c \in Clients : Scheduling(c, j) \/ Enqueueing(c, j)
            \/ Queued(j)
            \/ \E e \in Executors : Executing(e, j)

\* NoLostJob: a short job that is not completed is always in the hands of a
\* request, of the queue or of an executor: no interleaving of schedules,
\* stops, restarts and cleanups leaves it pending with nobody to run it.
NoLostJob == \A j \in submitted \cap Short : Pending(j) => Owned(j)

\* NoLostLongJob: the same for the long jobs, which the comment in
\* restartAllJobs says can be restarted by their id.
NoLostLongJob == \A j \in submitted \ Short : Pending(j) => Owned(j)

\* Executors whose process for job j may be alive.
Running(j) == {e \in Executors : executor[e].job = j
                                 /\ executor[e].pc = "select"}

\* AtMostOneRun: a job never has two processes at once, so a restart never
\* starts a second copy of a job that runs.
AtMostOneRun == \A j \in Jobs : Cardinality(Running(j)) <= 1

\* RunningJobIsListed: the map lists every job that has a process, so that a
\* user can query and stop it.
RunningJobIsListed ==
    \A j \in Jobs : Running(j) # {} => j \in globalJobsResults

\* What a status request may see of job j: nothing before it is completed, and
\* never an exit code that contradicts the success flag.
OutcomeAgrees ==
    \A j \in Jobs :
       /\ Pending(j) => ~job[j].issuccess /\ job[j].exitcode = -1
       /\ job[j].exitcode = 0 => job[j].issuccess
       /\ job[j].exitcode = 1 => ~job[j].issuccess

Outcome(j) == <<job[j].issuccess, job[j].exitcode>>

\* What the run of executor e should leave behind: success if it met no error;
\* the code of its process if that exited, 0 if its deadline killed it, and the
\* -1 of creation if it was stopped, killed by a signal or never started.
OutcomeOf(e) ==
    IF executor[e].pc = "start" THEN <<FALSE, -1>>
    ELSE <<executor[e].err = "none",
           CASE executor[e].err = "exit" -> 1
             [] executor[e].err = "none" /\ executor[e].cause # "stop" -> 0
             [] OTHER -> -1>>

\* An executor leaves its job with the outcome of its run, and nothing else
\* than the recording of a run changes it.
OutcomeIsRecorded ==
    /\ \A e \in Executors, j \in Jobs :
          executor[e].job = j /\ executor'[e].job # j
             => Outcome(j)' = OutcomeOf(e)
    /\ \A j \in Jobs :
          Outcome(j)' # Outcome(j)
             => \E e \in Executors : /\ executor[e].job = j
                                     /\ executor[e].pc \in {"record", "exit"}

\* OutcomeOfOneRun: without restarts flag and exit code of a job are those of
\* its one run: none before it, consistent while separate locked sections write
\* them, what the error and the cause of its end say when its executor leaves,
\* and unchanged ever after.
OutcomeOfOneRun == [][OutcomeAgrees' /\ OutcomeIsRecorded]_vars

\* The requests that iterate over the map, as readers or as its writer.
MapReaders == {c \in Clients : /\ client[c].req \in ReadLoops
                               /\ client[c].pc # "rlock"}
MapWriters == {c \in Clients : /\ client[c].req \in WriteLoops
                               /\ client[c].pc \notin {"lock", "lockall"}}
                 \cup (IF cleaner.pc \in {"scan", "delete"} THEN {Cleaner}
                                                            ELSE {})

\* NoConcurrentMapWrite: the map changes only while nobody iterates over it but
\* the goroutine that changes it, the cleanup routine that deletes the job its
\* loop has come to (Go aborts the program on any other such write).
NoConcurrentMapWrite ==
    [][globalJobsResults' # globalJobsResults =>
          /\ MapReaders = {}
          /\ \/ MapWriters = {}
             \/ MapWriters = {Cleaner} /\ cleaner' # cleaner]_vars

\* DeletesOnlyCompleted: the job that the cleanup routine deletes is completed
\* at that moment, although a restart of it may have been decided before.
DeletesOnlyCompleted ==
    [][\A j \in globalJobsResults \ globalJobsResults' :
          job[j].iscompleted]_vars

\* DeletesOnlyDeadJobs: what the comment of cleanupMapResults says, a job is
\* deleted when it "reached <maxcount> times fetching or completed for more than
\* <deadtime> hours".
DeletesOnlyDeadJobs ==
    [][\A j \in globalJobsResults \ globalJobsResults' :
          \/ job[j].fetchcount > JobsCleanupMaxFetch
          \/ job[j].endtime = "old"]_vars

\* JobsComplete: every listed short job that is not completed completes at last:
\* its process ends, is stopped or reaches its timeout.
JobsComplete ==
    \A j \in Short : (j \in globalJobsResults /\ Pending(j))
                         ~> ~Pending(j)

\* RequestsReturnUnlessStuck: if no stop notification waits for ever in front of
\* a full Job.stop channel, every request on short jobs is answered: nothing else
\* in the locks, the queue and the executors can block a handler for ever.  (A
\* restart of a long job by its id panics and keeps both its locks.)
RequestsReturnUnlessStuck ==
    (\A c \in Clients : []<>~At(c, "send"))
        => \A c \in Clients : ~At(c, "idle") ~> At(c, "idle")
=============================================================================
