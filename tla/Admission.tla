----------------------------- MODULE Admission -----------------------------
(***************************************************************************)
(* What the handlers that schedule jobs make of the parameters of a        *)
(* request: the limits, the timeout and where the output goes.  A          *)
(* parameter that is missing or is no number is 0, which every one of      *)
(* them treats as missing.                                                 *)
(***************************************************************************)
EXTENDS Integers

CONSTANTS
    ShortJobTimeout,             \* seconds
    LongJobTimeout,              \* minutes
    CpuLimitDefaultPercentage,
    CpuLimitMaxPercentage,
    MemoryLimitDefaultMegaBytes,
    MemoryLimitMaxMegaBytes

\* The values of the configuration are positive, and the defaults are not
\* above the limits.
ASSUME ConfigAssumption ==
    /\ ShortJobTimeout \in Nat \ {0}
    /\ LongJobTimeout \in Nat \ {0}
    /\ CpuLimitMaxPercentage \in Nat
    /\ CpuLimitDefaultPercentage \in 1 .. CpuLimitMaxPercentage
    /\ MemoryLimitMaxMegaBytes \in Nat
    /\ MemoryLimitDefaultMegaBytes \in 1 .. MemoryLimitMaxMegaBytes

-----------------------------------------------------------------------------
(* Limits and timeouts *)

\* n when it lies within 1 .. max, the default otherwise.
WithinOr(n, max, default) == IF n \in 1 .. max THEN n ELSE default

CpuLimit(n) == WithinOr(n, CpuLimitMaxPercentage, CpuLimitDefaultPercentage)

MemLimit(n) ==
    WithinOr(n, MemoryLimitMaxMegaBytes, MemoryLimitDefaultMegaBytes)

WebShortTimeout(n) == WithinOr(n, ShortJobTimeout, ShortJobTimeout)

WebLongTimeout(n) == WithinOr(n, LongJobTimeout, LongJobTimeout)

\* The API compares the timeout of a short job with the limit of the long ones,
\* although the first is in seconds and the second in minutes.
ApiTimeout(islong, n) ==
    IF n \in 1 .. LongJobTimeout - 1 THEN n
    ELSE IF islong THEN LongJobTimeout ELSE ShortJobTimeout

-----------------------------------------------------------------------------
(* Where the output of a long job goes *)

Output == [stream : BOOLEAN, dump : BOOLEAN]

\* scheduleLongJobsWithStreaming: only the job of a request with one command
\* may be dumped as well.
StreamingOutput(single, dump) == [stream |-> TRUE, dump |-> single /\ dump]

\* scheduleLongJobsWithDumping
DumpingOutput == [stream |-> FALSE, dump |-> TRUE]

\* apiScheduleJobs: a long job may ask for any combination, a short one for
\* none.
ApiOutput(islong, stream, dump) ==
    [stream |-> islong /\ stream, dump |-> islong /\ dump]
=============================================================================
