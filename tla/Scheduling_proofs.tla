------------------------- MODULE Scheduling_proofs -------------------------
(***************************************************************************)
(* Proofs about Scheduling and the operators of Admission it is made of,   *)
(* for every configuration, every set of numbers and any number of jobs.   *)
(***************************************************************************)
EXTENDS Scheduling, TLAPS

-----------------------------------------------------------------------------
(* What the operators of Admission return *)

\* A choice with a default within the range stays within the range, and grants
\* every value of the range.
LEMMA WithinRange ==
    ASSUME NEW n \in Int, NEW max \in Nat, NEW default \in 1 .. max
    PROVE  /\ WithinOr(n, max, default) \in 1 .. max
           /\ n \in 1 .. max => WithinOr(n, max, default) = n
           /\ WithinOr(n, max, default) \in {n, default}
  BY DEF WithinOr

\* The limits of a job are positive and not above those of the configuration.
LEMMA LimitsInRange ==
    ASSUME NEW n \in Int
    PROVE  /\ CpuLimit(n) \in 1 .. CpuLimitMaxPercentage
           /\ MemLimit(n) \in 1 .. MemoryLimitMaxMegaBytes
  BY WithinRange, ConfigAssumption DEF CpuLimit, MemLimit

\* So are the timeouts that the web handlers set.
LEMMA WebTimeoutsInRange ==
    ASSUME NEW n \in Int
    PROVE  /\ WebShortTimeout(n) \in 1 .. ShortJobTimeout
           /\ WebLongTimeout(n) \in 1 .. LongJobTimeout
<1>1. ShortJobTimeout \in 1 .. ShortJobTimeout /\ ShortJobTimeout \in Nat
  BY ConfigAssumption
<1>2. LongJobTimeout \in 1 .. LongJobTimeout /\ LongJobTimeout \in Nat
  BY ConfigAssumption
<1>3. QED  BY <1>1, <1>2, WithinRange DEF WebShortTimeout, WebLongTimeout

\* The API keeps a long job within its limit, a short one within the larger of
\* the two.
LEMMA ApiTimeoutInRange ==
    ASSUME NEW n \in Int, NEW islong \in BOOLEAN
    PROVE  /\ ApiTimeout(islong, n) \in Nat \ {0}
           /\ islong => ApiTimeout(islong, n) <= LongJobTimeout
           /\ \/ ApiTimeout(islong, n) <= ShortJobTimeout
              \/ ApiTimeout(islong, n) <= LongJobTimeout
  BY ConfigAssumption DEF ApiTimeout

-----------------------------------------------------------------------------
(* The invariant: every job made so far is bounded and has what it asked for, *)
(* and so has the next one, which the variables of a web handler stand for    *)

JobRecord == [islong : BOOLEAN, asked : Params, cpulimit : Int,
              memlimit : Int, timeout : Int]

WebRequests == {"short", "stream", "dump"}

Good(kind, r) == Bounded(r) /\ Granted(kind, r)

SchedulingInv ==
    /\ request \in Requests
    /\ jobs \in Seq(JobRecord)
    /\ \A i \in 1 .. Len(jobs) : Good(request, jobs[i])
    /\ request = "none" => jobs = <<>>
    /\ request \in WebRequests
          => LET r == NewJob(params, cpulimit, memlimit, timeout)
             IN  r \in JobRecord /\ Good(request, r)

\* A good job may be added to good jobs.
LEMMA AppendGood ==
    ASSUME NEW kind, NEW s \in Seq(JobRecord), NEW r \in JobRecord,
           \A i \in 1 .. Len(s) : Good(kind, s[i]), Good(kind, r)
    PROVE  /\ Append(s, r) \in Seq(JobRecord)
           /\ \A i \in 1 .. Len(Append(s, r)) : Good(kind, Append(s, r)[i])
<1>1. Append(s, r) \in Seq(JobRecord) /\ Len(Append(s, r)) = Len(s) + 1
  OBVIOUS
<1>2. ASSUME NEW i \in 1 .. Len(Append(s, r))
      PROVE  Good(kind, Append(s, r)[i])
  <2>1. CASE i = Len(s) + 1
    <3>1. Append(s, r)[i] = r
      BY <2>1
    <3>2. QED  BY <3>1
  <2>2. CASE i # Len(s) + 1
    <3>1. i \in 1 .. Len(s) /\ Append(s, r)[i] = s[i]
      BY <1>1, <2>2
    <3>2. QED  BY <3>1
  <2>3. QED  BY <2>1, <2>2
<1>3. QED  BY <1>1, <1>2

\* The job that a web handler is about to make is good.
LEMMA QueryGood ==
    ASSUME NEW kind \in WebRequests, NEW p \in Params,
           p.islong <=> kind # "short",
           NEW t, t = IF p.islong THEN WebLongTimeout(p.timeout)
                                  ELSE WebShortTimeout(p.timeout)
    PROVE  LET r == NewJob(p, CpuLimit(p.cpu), MemLimit(p.mem), t)
           IN  r \in JobRecord /\ Good(kind, r)
<1> DEFINE r == NewJob(p, CpuLimit(p.cpu), MemLimit(p.mem), t)
<1>1. p.islong \in BOOLEAN /\ p.cpu \in Int /\ p.mem \in Int /\ p.timeout \in Int
  BY NumbersAssumption DEF Params
<1>2. /\ CpuLimit(p.cpu) \in 1 .. CpuLimitMaxPercentage
      /\ MemLimit(p.mem) \in 1 .. MemoryLimitMaxMegaBytes
      /\ WebShortTimeout(p.timeout) \in 1 .. ShortJobTimeout
      /\ WebLongTimeout(p.timeout) \in 1 .. LongJobTimeout
  BY <1>1, LimitsInRange, WebTimeoutsInRange
<1>3. /\ t \in Int /\ t >= 1
      /\ p.islong => t <= LongJobTimeout
      /\ t <= ShortJobTimeout \/ t <= LongJobTimeout
  BY <1>2, ConfigAssumption
<1>4. r \in JobRecord
  BY <1>1, <1>2, <1>3, ConfigAssumption DEF NewJob, JobRecord
<1>5. Bounded(r)
  BY <1>1, <1>2, <1>3 DEF NewJob, Bounded
<1>6. Granted(kind, r)
  BY <1>1, ConfigAssumption
     DEF NewJob, Granted, CpuLimit, MemLimit, WebShortTimeout, WebLongTimeout,
         WithinOr
<1>7. QED  BY <1>4, <1>5, <1>6 DEF Good

\* The job that the API makes is good, whatever was in its variables before.
LEMMA ApiGood ==
    ASSUME NEW p \in Params
    PROVE  LET r == NewJob(p, CpuLimit(p.cpu), MemLimit(p.mem),
                           ApiTimeout(p.islong, p.timeout))
           IN  r \in JobRecord /\ Good("api", r)
<1> DEFINE t == ApiTimeout(p.islong, p.timeout)
           r == NewJob(p, CpuLimit(p.cpu), MemLimit(p.mem), t)
<1>1. p.islong \in BOOLEAN /\ p.cpu \in Int /\ p.mem \in Int /\ p.timeout \in Int
  BY NumbersAssumption DEF Params
<1>2. /\ CpuLimit(p.cpu) \in 1 .. CpuLimitMaxPercentage
      /\ MemLimit(p.mem) \in 1 .. MemoryLimitMaxMegaBytes
  BY <1>1, LimitsInRange
<1>3. /\ t \in Nat \ {0}
      /\ p.islong => t <= LongJobTimeout
      /\ t <= ShortJobTimeout \/ t <= LongJobTimeout
  BY <1>1, ApiTimeoutInRange
<1>4. /\ p.islong /\ p.timeout \in 1 .. LongJobTimeout => t = p.timeout
      /\ t \in {p.timeout, IF p.islong THEN LongJobTimeout
                           ELSE ShortJobTimeout}
  BY <1>1, ConfigAssumption DEF ApiTimeout
<1> HIDE DEF t
<1>5. r \in JobRecord
  BY <1>1, <1>2, <1>3, ConfigAssumption DEF NewJob, JobRecord
<1>6. Bounded(r)
  BY <1>1, <1>2, <1>3 DEF NewJob, Bounded
<1>7. Granted("api", r)
  BY <1>1, <1>4, ConfigAssumption
     DEF NewJob, Granted, CpuLimit, MemLimit, WithinOr
<1>8. QED  BY <1>5, <1>6, <1>7 DEF Good, t

-----------------------------------------------------------------------------
(* The steps *)

\* Every handler makes good jobs only.
LEMMA SchedulingStep == SchedulingInv /\ [Next]_vars => SchedulingInv'
<1> SUFFICES ASSUME SchedulingInv, [Next]_vars  PROVE SchedulingInv'
  OBVIOUS
<1>1. ASSUME NEW kind \in WebRequests, ReadQuery(kind)
      PROVE  SchedulingInv'
  <2>1. PICK p \in Params :
           /\ p.islong <=> kind # "short"
           /\ params' = p
           /\ cpulimit' = CpuLimit(p.cpu)
           /\ memlimit' = MemLimit(p.mem)
           /\ timeout' = IF p.islong THEN WebLongTimeout(p.timeout)
                                     ELSE WebShortTimeout(p.timeout)
    BY <1>1 DEF ReadQuery
  <2>2. request' = kind /\ jobs' = <<>> /\ kind \in Requests /\ kind # "none"
    BY <1>1 DEF ReadQuery, SchedulingInv, WebRequests, Requests
  <2>3. LET r == NewJob(params', cpulimit', memlimit', timeout')
        IN  r \in JobRecord /\ Good(request', r)
    BY <2>1, <2>2, QueryGood
  <2>4. jobs' \in Seq(JobRecord) /\ Len(jobs') = 0
    BY <2>2
  <2>5. QED  BY <2>2, <2>3, <2>4 DEF SchedulingInv
<1>2. CASE ApiScheduleJobs
  <2>1. request' = "api" /\ jobs' = <<>>
    BY <1>2 DEF ApiScheduleJobs, SchedulingInv
  <2>2. jobs' \in Seq(JobRecord) /\ Len(jobs') = 0
    BY <2>1
  <2>3. QED  BY <2>1, <2>2 DEF SchedulingInv, WebRequests, Requests
<1>3. CASE MakeWebJob
  <2> DEFINE r == NewJob(params, cpulimit, memlimit, timeout)
  <2>1. r \in JobRecord /\ Good(request, r)
    BY <1>3 DEF MakeWebJob, SchedulingInv, WebRequests
  <2>2. /\ jobs' = Append(jobs, r) /\ request' = request /\ request # "none"
        /\ params' = params /\ cpulimit' = cpulimit
        /\ memlimit' = memlimit /\ timeout' = timeout
    BY <1>3 DEF MakeWebJob, locals
  <2> HIDE DEF r
  <2>3. /\ jobs' \in Seq(JobRecord)
        /\ \A i \in 1 .. Len(jobs') : Good(request, jobs'[i])
    BY <2>1, <2>2, AppendGood DEF SchedulingInv
  <2>4. QED  BY <2>1, <2>2, <2>3 DEF SchedulingInv, r
<1>4. CASE MakeApiJob
  <2>1. PICK p \in Params :
           jobs' = Append(jobs, NewJob(p, CpuLimit(p.cpu), MemLimit(p.mem),
                                       ApiTimeout(p.islong, p.timeout)))
    BY <1>4 DEF MakeApiJob
  <2>2. request = "api" /\ request' = "api"
    BY <1>4 DEF MakeApiJob
  <2>3. /\ jobs' \in Seq(JobRecord)
        /\ \A i \in 1 .. Len(jobs') : Good("api", jobs'[i])
    BY <2>1, <2>2, ApiGood, AppendGood DEF SchedulingInv
  <2>4. QED  BY <2>2, <2>3 DEF SchedulingInv, WebRequests, Requests
<1>5. CASE UNCHANGED vars
  BY <1>5 DEF vars, SchedulingInv
<1>6. QED
  BY <1>1, <1>2, <1>3, <1>4, <1>5
     DEF Next, ScheduleShortRunningJobs, ScheduleLongJobsWithStreaming,
         ScheduleLongJobsWithDumping, WebRequests

\* The invariant holds throughout.
LEMMA SchedulingInvariant == Spec => []SchedulingInv
<1>1. Init => SchedulingInv
  <2> SUFFICES ASSUME Init  PROVE SchedulingInv
    OBVIOUS
  <2>1. jobs \in Seq(JobRecord) /\ Len(jobs) = 0
    BY DEF Init
  <2>2. QED  BY <2>1 DEF Init, SchedulingInv, WebRequests, Requests
<1>2. QED  BY <1>1, SchedulingStep, PTL DEF Spec

\* LimitsAreKept: no request gets a job without a limit or beyond the limits.
THEOREM LimitsAreKept == Spec => []JobsAreBounded
<1>1. SchedulingInv => JobsAreBounded
  BY DEF SchedulingInv, Good, JobsAreBounded
<1>2. QED  BY <1>1, SchedulingInvariant, PTL

\* RequestsAreGranted: what is allowed is granted, and no job gets the limits
\* that another job of the same request asked for.
THEOREM RequestsAreGranted == Spec => []AskedIsGranted
<1>1. SchedulingInv => AskedIsGranted
  BY DEF SchedulingInv, Good, AskedIsGranted
<1>2. QED  BY <1>1, SchedulingInvariant, PTL
=============================================================================
