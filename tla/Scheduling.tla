----------------------------- MODULE Scheduling ----------------------------
(***************************************************************************)
(* One request that schedules jobs, as its handler turns the parameters    *)
(* into the limits of each job.  The web handlers read the parameters      *)
(* once, for all jobs; the API reads those of each job into variables that *)
(* it declares outside its loop.  Where the jobs go then is the subject of *)
(* JobsControl.                                                            *)
(***************************************************************************)
EXTENDS Admission, Sequences

CONSTANTS
    Numbers,     \* the numbers that parameters may be, 0 among them
    MaxCommands  \* bound: jobs in one request

ASSUME NumbersAssumption == Numbers \subseteq Int /\ MaxCommands \in Nat

VARIABLES
    request,    \* the kind of the request
    params,     \* the parameters read last
    cpulimit, memlimit, timeout,    \* variables of the handler
    jobs        \* the jobs made so far, with the parameters they were made from

vars == <<request, params, cpulimit, memlimit, timeout, jobs>>
locals == <<params, cpulimit, memlimit, timeout>>

Params == [islong : BOOLEAN, cpu : Numbers, mem : Numbers, timeout : Numbers]
Requests == {"none", "short", "stream", "dump", "api"}

-----------------------------------------------------------------------------
(* What a handler does with the parameters *)

\* The web handlers.  The kind of the request tells short from long.
ReadQuery(kind) ==
    /\ request = "none"
    /\ request' = kind
    /\ \E p \in Params :
          /\ p.islong <=> kind # "short"
          /\ params' = p
          /\ cpulimit' = CpuLimit(p.cpu)
          /\ memlimit' = MemLimit(p.mem)
          /\ timeout' = IF p.islong THEN WebLongTimeout(p.timeout)
                                    ELSE WebShortTimeout(p.timeout)
    /\ UNCHANGED jobs

ScheduleShortRunningJobs == ReadQuery("short")
ScheduleLongJobsWithStreaming == ReadQuery("stream")
ScheduleLongJobsWithDumping == ReadQuery("dump")

\* The API decodes the body of the request into a list of jobs.
ApiScheduleJobs ==
    /\ request = "none"
    /\ request' = "api"
    /\ UNCHANGED <<locals, jobs>>

NewJob(p, cpu, mem, time) ==
    [islong |-> p.islong, asked |-> p, cpulimit |-> cpu, memlimit |-> mem,
     timeout |-> time]

\* One turn of the loop of a web handler.
MakeWebJob ==
    /\ request \in {"short", "stream", "dump"}
    /\ Len(jobs) < MaxCommands
    /\ jobs' = Append(jobs, NewJob(params, cpulimit, memlimit, timeout))
    /\ UNCHANGED <<request, locals>>

\* Mutant: a job whose CPU limit is not allowed keeps that of the job before.
MakeApiJobWithoutElse ==
    /\ request = "api"
    /\ Len(jobs) < MaxCommands
    /\ \E p \in Params :
          /\ params' = p
          /\ cpulimit' = IF p.cpu \in 1 .. CpuLimitMaxPercentage
                         THEN p.cpu ELSE cpulimit
          /\ memlimit' = MemLimit(p.mem)
          /\ timeout' = ApiTimeout(p.islong, p.timeout)
          /\ jobs' = Append(jobs, NewJob(p, cpulimit', memlimit', timeout'))
    /\ UNCHANGED request

\* Mutant: the default memory limit is set once, before the loop.
MakeApiJobDefaultOnce ==
    /\ request = "api"
    /\ Len(jobs) < MaxCommands
    /\ \E p \in Params :
          /\ params' = p
          /\ cpulimit' = CpuLimit(p.cpu)
          /\ memlimit' = IF p.mem \in 1 .. MemoryLimitMaxMegaBytes THEN p.mem
                         ELSE IF jobs = <<>> THEN MemoryLimitDefaultMegaBytes
                         ELSE memlimit
          /\ timeout' = ApiTimeout(p.islong, p.timeout)
          /\ jobs' = Append(jobs, NewJob(p, cpulimit', memlimit', timeout'))
    /\ UNCHANGED request

\* One turn of the loop of the API.
MakeApiJob ==
    /\ request = "api"
    /\ Len(jobs) < MaxCommands
    /\ \E p \in Params :
          /\ params' = p
          /\ cpulimit' = CpuLimit(p.cpu)
          /\ memlimit' = MemLimit(p.mem)
          /\ timeout' = ApiTimeout(p.islong, p.timeout)
          /\ jobs' = Append(jobs, NewJob(p, cpulimit', memlimit', timeout'))
    /\ UNCHANGED request

-----------------------------------------------------------------------------
Init ==
    /\ request = "none"
    /\ params = [islong |-> FALSE, cpu |-> 0, mem |-> 0, timeout |-> 0]
    /\ cpulimit = 0 /\ memlimit = 0 /\ timeout = 0
    /\ jobs = <<>>

Next == \/ ScheduleShortRunningJobs \/ ScheduleLongJobsWithStreaming
        \/ ScheduleLongJobsWithDumping \/ ApiScheduleJobs
        \/ MakeWebJob \/ MakeApiJob

Spec == Init /\ [][Next]_vars

-----------------------------------------------------------------------------
(* Properties *)

\* A job may run, and only within what the configuration allows.  The timeout
\* of a short job is the exception: the API lets it exceed ShortJobTimeout.
Bounded(job) ==
    /\ job.cpulimit \in 1 .. CpuLimitMaxPercentage
    /\ job.memlimit \in 1 .. MemoryLimitMaxMegaBytes
    /\ job.timeout >= 1
    /\ job.islong => job.timeout <= LongJobTimeout
    /\ job.timeout <= ShortJobTimeout \/ job.timeout <= LongJobTimeout

\* JobsAreBounded: no request, whatever it asks for and whatever the jobs
\* before it in the same request asked for, gets a job without a limit or one
\* beyond the limits: a timeout of 0 would kill it at once.
JobsAreBounded == \A i \in 1 .. Len(jobs) : Bounded(jobs[i])

\* What a job of such a request gets of what it asked for: that, or the default.
\* Whatever is allowed is granted, except that short jobs of the API have their
\* timeouts compared with the limit of the long ones.
Granted(kind, job) ==
    /\ job.cpulimit \in {job.asked.cpu, CpuLimitDefaultPercentage}
    /\ job.memlimit \in {job.asked.mem, MemoryLimitDefaultMegaBytes}
    /\ job.timeout \in {job.asked.timeout, IF job.islong THEN LongJobTimeout
                                           ELSE ShortJobTimeout}
    /\ job.asked.cpu \in 1 .. CpuLimitMaxPercentage
          => job.cpulimit = job.asked.cpu
    /\ job.asked.mem \in 1 .. MemoryLimitMaxMegaBytes
          => job.memlimit = job.asked.mem
    /\ job.islong /\ job.asked.timeout \in 1 .. LongJobTimeout
          => job.timeout = job.asked.timeout
    /\ ~job.islong /\ kind # "api" /\ job.asked.timeout \in 1 .. ShortJobTimeout
          => job.timeout = job.asked.timeout

\* AskedIsGranted: limits and timeouts within the allowed range are granted as
\* asked, also the largest; otherwise a job gets the default, never what another
\* job of its request asked for, although the API reads all of them into the
\* same three variables.
AskedIsGranted == \A i \in 1 .. Len(jobs) : Granted(request, jobs[i])
=============================================================================
