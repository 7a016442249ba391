------------------------- MODULE JobsOwners_proofs --------------------------
(***************************************************************************)
(* Proofs about JobsControl that rest on who carries a job on: at most one  *)
(* run at a time, running jobs are listed, the outcome of a run and the     *)
(* refinement of JobLifecycle, for any sets of jobs and executors.  Each    *)
(* theorem names the requests it allows: two restarts by id at once may run *)
(* a job twice (handlers.web.go:620), so that a job has one owner takes     *)
(* that no request restarts by id or that there is one client.              *)
(***************************************************************************)
EXTENDS JobsControlLifecycle, JobsControl_proofs, FiniteSetTheorems

-----------------------------------------------------------------------------
(* Only ids that were handed out are dealt with *)

\* Initially no id is.
LEMMA SubmittedInit == Init => SubmittedInv
  BY DEF Init, SubmittedInv, Idle, NoRun

\* A step of a client to another place changes neither the ids it deals with
\* nor, except for the one in hand, the fields of a job.
LEMMA SubmittedGoto ==
    ASSUME TypeOK, SubmittedInv, NEW c \in Clients, NEW pc \in ClientPC,
           Goto(c, pc), UNCHANGED <<submitted, executor>>,
           pc \in {"rlock", "lock", "lockall"}
              => \/ client[c].job = NoJob
                 \/ pc = "lock" /\ client[c].req # "restartall",
           globalJobsResults' \subseteq submitted,
           \A i \in 1 .. Len(globalJobsQueue') :
              globalJobsQueue'[i] \in submitted,
           \A j \in Jobs \ submitted : job'[j] = job[j]
    PROVE  SubmittedInv'
<1>1. /\ \A d \in Clients \ {c} : client'[d] = client[d]
      /\ client'[c].req = client[c].req
      /\ client'[c].todo = client[c].todo
      /\ client'[c].job = IF pc = "next" THEN NoJob ELSE client[c].job
      /\ client'[c].pc = pc
  BY GotoEffect DEF TypeOK
<1>2. NoJob \notin client[c].todo
  BY JobsAssumption DEF TypeOK, Client
<1>3. \A d \in Clients : /\ client'[d].req \in Requests \cup {"none"}
                         /\ client'[d].todo \subseteq submitted
                         /\ client'[d].job \in submitted \cup {NoJob}
                         /\ client'[d].job \notin client'[d].todo
  BY <1>1, <1>2 DEF SubmittedInv
<1>4. \A d \in Clients : BetweenJobs(d)' => client'[d].job = NoJob
  BY <1>1 DEF SubmittedInv, BetweenJobs
<1>5. QED  BY <1>3, <1>4 DEF SubmittedInv

\* Every step of a client keeps SubmittedInv.
LEMMA SubmittedClient ==
    ASSUME TypeOK, FlowInv, SubmittedInv, NEW c \in Clients, ClientNext(c)
    PROVE  SubmittedInv'
<1>1. CASE ScheduleRequest(c) \/ IdsRequest(c) \/ AllRequest(c)
  <2>1. PICK req \in Requests, pc \in ClientPC, ids \in SUBSET submitted' :
           client' = [client EXCEPT ![c] = [req |-> req, pc |-> pc,
                                            todo |-> ids, job |-> NoJob]]
    BY <1>1 DEF ScheduleRequest, IdsRequest, AllRequest, StopRequest,
                StatusRequest, RestartRequest, FetchRequest, Begin, ClientPC
  <2>2. submitted \subseteq submitted' /\ submitted' \subseteq Jobs
    BY <1>1 DEF ScheduleRequest, IdsRequest, AllRequest, TypeOK
  <2>3. NoJob \notin ids
    BY <2>2, JobsAssumption
  <2>4. /\ \A d \in Clients \ {c} : client'[d] = client[d]
        /\ client'[c] = [req |-> req, pc |-> pc, todo |-> ids, job |-> NoJob]
    BY <2>1 DEF TypeOK
  <2>5. \A d \in Clients : /\ client'[d].req \in Requests \cup {"none"}
                           /\ client'[d].todo \subseteq submitted'
                           /\ client'[d].job \in submitted' \cup {NoJob}
                           /\ client'[d].job \notin client'[d].todo
                           /\ BetweenJobs(d)' => client'[d].job = NoJob
    BY <2>2, <2>3, <2>4 DEF SubmittedInv, BetweenJobs
  <2>6. UNCHANGED <<globalJobsResults, globalJobsQueue, job, executor>>
    BY <1>1 DEF ScheduleRequest, IdsRequest, AllRequest
  <2>7. QED  BY <2>2, <2>5, <2>6 DEF SubmittedInv
<1>2. CASE RLockMap(c) \/ LockAll(c) \/ NextJob(c) \/ EndRequest(c)
  <2>1. /\ \A d \in Clients \ {c} : client'[d] = client[d]
        /\ client'[c].req \in {client[c].req, "none"}
        /\ client'[c].todo \subseteq submitted
        /\ client'[c].job \in submitted \cup {NoJob}
        /\ client'[c].job \notin client'[c].todo
        /\ BetweenJobs(c)' => client'[c].job = NoJob
    <3>1. CASE RLockMap(c) \/ LockAll(c)
      <4>1. client[c].job = NoJob
        BY <3>1 DEF RLockMap, LockAll, At, SubmittedInv, BetweenJobs
      <4>2. PICK ids \in SUBSET submitted :
               client' = [client EXCEPT ![c].pc = "next", ![c].todo = ids]
        BY <3>1 DEF RLockMap, LockAll, SubmittedInv
      <4>3. NoJob \notin ids
        BY JobsAssumption DEF TypeOK
      <4>4. QED
        BY <4>1, <4>2, <4>3 DEF TypeOK, Client, SubmittedInv
    <3>2. CASE NextJob(c)
      <4>1. PICK j \in client[c].todo :
               client' = [client EXCEPT ![c].pc = LoopBody[client[c].req],
                                        ![c].todo = @ \ {j}, ![c].job = j]
        BY <3>2 DEF NextJob
      <4>2. client[c].req \in RequestKinds
        BY <3>2 DEF NextJob, At, FlowInv, ClientFlow, Places, TypeOK, Client
      <4>3. /\ LoopBody[client[c].req] \notin {"rlock", "lockall", "next"}
            /\ LoopBody[client[c].req] = "lock" => client[c].req # "restartall"
        BY <4>2 DEF LoopBody, RequestKinds
      <4>4. /\ \A d \in Clients \ {c} : client'[d] = client[d]
            /\ client'[c].pc = LoopBody[client[c].req]
            /\ client'[c].req = client[c].req
            /\ client'[c].todo = client[c].todo \ {j}
            /\ client'[c].job = j
        BY <4>1 DEF TypeOK, Client
      <4>5. QED  BY <4>3, <4>4 DEF SubmittedInv, BetweenJobs
    <3>3. CASE EndRequest(c)
      BY <3>3 DEF EndRequest, Idle, TypeOK
    <3>4. QED  BY <1>2, <3>1, <3>2, <3>3
  <2>2. UNCHANGED <<globalJobsResults, globalJobsQueue, job, executor, submitted>>
    BY <1>2 DEF RLockMap, LockAll, NextJob, EndRequest
  <2>3. QED  BY <2>1, <2>2 DEF SubmittedInv, BetweenJobs
<1>3. ASSUME NEW pc \in ClientPC, Goto(c, pc), UNCHANGED <<submitted, executor>>,
             pc \in {"rlock", "lock", "lockall"}
                => \/ client[c].job = NoJob
                   \/ pc = "lock" /\ client[c].req # "restartall",
             UNCHANGED <<globalJobsResults, globalJobsQueue>>,
             \A j \in Jobs \ submitted : job'[j] = job[j]
      PROVE  SubmittedInv'
  BY <1>3, SubmittedGoto DEF SubmittedInv
<1>4. ASSUME client[c].job \in Jobs
      PROVE  client[c].job \in submitted
  BY <1>4, JobsAssumption DEF SubmittedInv
<1>5. CASE LockMap(c)
  <2>1. PICK pc \in {"lockall", "register", "reset"} :
           Goto(c, pc) /\ (pc = "lockall" => client[c].req \notin {"schedule", "restart"})
    BY <1>5 DEF LockMap
  <2>2. client[c].pc = "lock"
    BY <1>5 DEF LockMap, At
  <2>3. pc \in {"rlock", "lock", "lockall"} => client[c].job = NoJob
    BY <2>1, <2>2 DEF FlowInv, ClientFlow, Places, SubmittedInv, BetweenJobs,
                      TypeOK, Client, RequestKinds
  <2>4. pc \in ClientPC
    BY DEF ClientPC
  <2>5. UNCHANGED <<submitted, executor, globalJobsResults, globalJobsQueue, job>>
    BY <1>5 DEF LockMap
  <2>6. QED  BY <1>3, <2>1, <2>3, <2>4, <2>5
<1>6. CASE Lookup(c) \/ CheckUnknown(c) \/ CheckRunning(c) \/ StopSend(c)
           \/ Status(c)
  <2>1. PICK pc \in {"next", "count", "check", "send"} : Goto(c, pc)
    BY <1>6 DEF Lookup, CheckUnknown, CheckRunning, StopSend, Status
  <2>2. pc \in ClientPC
    BY DEF ClientPC
  <2>3. QED
    BY <1>3, <1>6, <2>1, <2>2
       DEF Lookup, CheckUnknown, CheckRunning, StopSend, Status
<1>7. CASE CheckCompleted(c)
  <2>1. PICK pc \in {"lock", "reset", "next"} :
           Goto(c, pc) /\ (pc = "lock" => client[c].req = "restart")
    BY <1>7 DEF CheckCompleted
  <2>2. pc \in ClientPC
    BY DEF ClientPC
  <2>3. QED  BY <1>3, <1>7, <2>1, <2>2 DEF CheckCompleted
<1>8. CASE Register(c)
  <2>1. client[c].job \in submitted
    BY <1>4, <1>8, JobInHand DEF Register, At
  <2>2. globalJobsResults' \subseteq submitted
    BY <1>8, <2>1 DEF Register, SubmittedInv
  <2>3. "enqueue" \in ClientPC
    BY DEF ClientPC
  <2>4. QED  BY <1>8, <2>2, <2>3, SubmittedGoto DEF Register, SubmittedInv
<1>9. CASE Enqueue(c)
  <2>1. client[c].job \in submitted
    BY <1>4, <1>9, JobInHand DEF Enqueue, At
  <2>2. \A i \in 1 .. Len(globalJobsQueue') : globalJobsQueue'[i] \in submitted
    BY <1>9, <2>1 DEF Enqueue, SubmittedInv, TypeOK
  <2>3. "next" \in ClientPC
    BY DEF ClientPC
  <2>4. QED  BY <1>9, <2>2, <2>3, SubmittedGoto DEF Enqueue, SubmittedInv
<1>10. CASE Reset(c) \/ ResetPanic(c) \/ Fetch(c)
  <2>1. PICK pc \in {"enqueue", "panicked", "next"} : Goto(c, pc)
    BY <1>10 DEF Reset, ResetPanic, Fetch
  <2>2. pc \in ClientPC
    BY DEF ClientPC
  <2>3. client[c].job \in submitted
    BY <1>4, <1>10, JobInHand DEF Reset, ResetPanic, Fetch, At
  <2>4. \A j \in Jobs \ submitted : job'[j] = job[j]
    BY <1>10, <2>3 DEF Reset, ResetPanic, Fetch, TypeOK
  <2>5. QED  BY <1>3, <1>10, <2>1, <2>2, <2>4 DEF Reset, ResetPanic, Fetch
<1>11. QED
  BY <1>1, <1>2, <1>5, <1>6, <1>7, <1>8, <1>9, <1>10 DEF ClientNext

\* Every step of an executor keeps it.
LEMMA SubmittedExecutor ==
    ASSUME TypeOK, FlowInv, SubmittedInv, NEW e \in Executors, ExecutorNext(e)
    PROVE  SubmittedInv'
<1>1. UNCHANGED <<client, submitted, globalJobsResults>>
  BY DEF ExecutorNext, Pickup, ExecFail, ExecStart, ExecTimeout, ExecStop,
         ExecDone, Leave, ExecComplete, ExecEnd, ExecRecord, ExecExit
<1>2. ASSUME \A i \in 1 .. Len(globalJobsQueue') :
                globalJobsQueue'[i] \in submitted,
             \A d \in Executors : executor'[d].job \in submitted \cup {NoJob},
             \A j \in Jobs \ submitted : job'[j] = job[j]
      PROVE  SubmittedInv'
  BY <1>1, <1>2 DEF SubmittedInv, BetweenJobs
<1>3. CASE Pickup(e)
  <2>1. /\ globalJobsQueue \in Seq(Jobs) /\ globalJobsQueue # <<>>
        /\ globalJobsQueue' = Tail(globalJobsQueue)
    BY <1>3 DEF Pickup, TypeOK
  <2>2. /\ Head(globalJobsQueue) \in submitted
        /\ \A i \in 1 .. Len(globalJobsQueue') :
              globalJobsQueue'[i] \in submitted
    <3>1. /\ 1 \in 1 .. Len(globalJobsQueue)
          /\ Head(globalJobsQueue) = globalJobsQueue[1]
      BY <2>1
    <3>2. ASSUME NEW i \in 1 .. Len(globalJobsQueue')
          PROVE  globalJobsQueue'[i] = globalJobsQueue[i + 1]
                 /\ i + 1 \in 1 .. Len(globalJobsQueue)
      BY <2>1, <3>2
    <3>3. QED  BY <3>1, <3>2 DEF SubmittedInv
  <2>3. \A d \in Executors : executor'[d].job \in submitted \cup {NoJob}
    BY <1>3, <2>2 DEF Pickup, NoRun, TypeOK, SubmittedInv
  <2>4. QED  BY <1>2, <1>3, <2>2, <2>3 DEF Pickup
<1>4. CASE ExecStart(e) \/ ExecTimeout(e) \/ ExecStop(e) \/ ExecDone(e)
  <2>1. UNCHANGED <<job, globalJobsQueue>>
    BY <1>4 DEF ExecStart, ExecTimeout, ExecStop, ExecDone, Leave
  <2>2. \A d \in Executors : executor'[d].job = executor[d].job
    <3>1. CASE ExecStart(e)
      BY <3>1 DEF ExecStart, TypeOK, Executor
    <3>2. CASE \E err, cause : Leave(e, err, cause)
      BY <3>2 DEF Leave, TypeOK, Executor
    <3>3. QED  BY <1>4, <3>1, <3>2 DEF ExecTimeout, ExecStop, ExecDone
  <2>3. QED  BY <1>2, <2>1, <2>2 DEF SubmittedInv
<1>5. CASE \/ ExecFail(e) \/ ExecComplete(e) \/ ExecEnd(e) \/ ExecRecord(e)
           \/ ExecExit(e)
  <2>1. executor[e].job \in submitted
    BY <1>5, JobInRun, JobsAssumption
       DEF ExecFail, ExecComplete, ExecEnd, ExecRecord, ExecExit, InRun,
           SubmittedInv
  <2>2. \A j \in Jobs \ submitted : job'[j] = job[j]
    BY <1>5, <2>1
       DEF ExecFail, ExecComplete, ExecEnd, ExecRecord, ExecExit, TypeOK
  <2>3. \A d \in Executors : executor'[d].job \in {executor[d].job, NoJob}
    BY <1>5 DEF ExecFail, ExecComplete, ExecEnd, ExecRecord, ExecExit, NoRun,
                TypeOK, Executor
  <2>4. UNCHANGED globalJobsQueue
    BY <1>5 DEF ExecFail, ExecComplete, ExecEnd, ExecRecord, ExecExit
  <2>5. QED  BY <1>2, <2>2, <2>3, <2>4 DEF SubmittedInv
<1>6. QED  BY <1>3, <1>4, <1>5 DEF ExecutorNext

\* So does every step of the cleanup routine, and the passing of time.
LEMMA SubmittedCleaner ==
    ASSUME TypeOK, SubmittedInv, CleanerNext \/ \E j \in Jobs : Age(j)
    PROVE  SubmittedInv'
<1>1. UNCHANGED <<client, executor, submitted, globalJobsQueue>>
  BY DEF CleanerNext, CleanupWake, CleanupLock, CleanupLocked, CleanupCheck,
         CleanupDelete, CleanupUnlock, Age
<1>2. globalJobsResults' \subseteq globalJobsResults
  BY DEF CleanerNext, CleanupWake, CleanupLock, CleanupLocked, CleanupCheck,
         CleanupDelete, CleanupUnlock, Age
<1>3. \A j \in Jobs \ submitted : job'[j] = job[j]
  <2>1. CASE CleanerNext
    BY <2>1 DEF CleanerNext, CleanupWake, CleanupLock, CleanupLocked,
                CleanupCheck, CleanupDelete, CleanupUnlock
  <2>2. ASSUME NEW k \in Jobs, Age(k)
        PROVE  \A j \in Jobs \ submitted : job'[j] = job[j]
    <3>1. k \in submitted
      BY <2>2 DEF Age, SubmittedInv, NewJob
    <3>2. QED  BY <2>2, <3>1 DEF Age, TypeOK
  <2>3. QED  BY <2>1, <2>2
<1>4. QED  BY <1>1, <1>2, <1>3 DEF SubmittedInv, BetweenJobs

\* Every step keeps SubmittedInv.
LEMMA SubmittedStep == IInv /\ SubmittedInv /\ [Next]_vars => SubmittedInv'
<1>1. CASE UNCHANGED vars
  BY <1>1 DEF vars, SubmittedInv, BetweenJobs
<1>2. QED
  BY <1>1, SubmittedClient, SubmittedExecutor, SubmittedCleaner DEF Next, IInv

\* OnlySubmittedJobs: requests, queue, executors and map deal only with ids
\* that a schedule request has drawn, and until then nobody touches a job.
THEOREM OnlySubmittedJobs == Spec => []SubmittedInv
  BY SubmittedInit, SubmittedStep, Invariant, PTL DEF Spec

-----------------------------------------------------------------------------
(* A handler resets only completed jobs, unless restarts disturb each other *)

\* Without restarts by id the client at the reset is in restartAllJobs.
LEMMA OnlyRestartAllResets ==
    ASSUME NoRestartById, TypeOK, FlowInv, SubmittedInv, NEW c \in Clients,
           At(c, "reset")
    PROVE  client[c].req = "restartall" /\ client[c].job \in Jobs
<1>1. client[c].req # "restart"
  BY DEF NoRestartById, SubmittedInv
<1>2. client[c].req = "restartall"
  BY <1>1 DEF At, FlowInv, ClientFlow, Places, TypeOK, Client, RequestKinds
<1>3. QED  BY <1>2, JobInHand DEF At

\* A client that makes a step of its own stays safe.
LEMMA RestartOwnStep ==
    ASSUME TypeOK, FlowInv, SubmittedInv, NEW c \in Clients,
           RestartSafe(c), ClientNext(c)
    PROVE  RestartSafe(c)'
<1>1. CASE ScheduleRequest(c) \/ IdsRequest(c) \/ AllRequest(c)
  <2>1. PICK req, pc, ids :
           /\ client' = [client EXCEPT ![c] = [req |-> req, pc |-> pc,
                                               todo |-> ids, job |-> NoJob]]
           /\ pc # "reset"
           /\ req = "restartall" => pc = "lock"
           /\ req = "restart" => pc = "next"
    BY <1>1 DEF ScheduleRequest, IdsRequest, AllRequest, StopRequest,
                StatusRequest, RestartRequest, FetchRequest, Begin
  <2>2. client'[c] = [req |-> req, pc |-> pc, todo |-> ids, job |-> NoJob]
    BY <2>1 DEF TypeOK
  <2>3. QED  BY <2>1, <2>2 DEF RestartSafe, At
<1>2. CASE RLockMap(c)
  <2>1. client[c].pc = "rlock" /\ client[c].req # "restartall"
    BY <1>2 DEF RLockMap, At, FlowInv, ClientFlow, Places
  <2>2. client'[c].pc = "next" /\ client'[c].req = client[c].req
    BY <1>2 DEF RLockMap, TypeOK, Client
  <2>3. QED  BY <2>1, <2>2 DEF RestartSafe, At
<1>3. CASE LockAll(c)
  <2>1. /\ client'[c].pc = "next"
        /\ client'[c].todo = globalJobsResults \cap Short
        /\ client'[c].job = client[c].job
    BY <1>3 DEF LockAll, TypeOK, Client
  <2>2. client[c].job = NoJob
    BY <1>3 DEF LockAll, At, SubmittedInv, BetweenJobs
  <2>3. QED  BY <1>3, <2>1, <2>2 DEF LockAll, RestartSafe, At
<1>4. CASE NextJob(c)
  <2>1. PICK j \in client[c].todo :
           client' = [client EXCEPT ![c].pc = LoopBody[client[c].req],
                                    ![c].todo = @ \ {j}, ![c].job = j]
    BY <1>4 DEF NextJob
  <2>2. client[c].pc = "next" /\ client[c].req \in RequestKinds
    BY <1>4 DEF NextJob, At, FlowInv, ClientFlow, Places, TypeOK, Client
  <2>3. /\ LoopBody[client[c].req] # "reset"
        /\ client[c].req = "restart" => LoopBody[client[c].req] # "lock"
    BY <2>2 DEF LoopBody, RequestKinds
  <2>4. /\ client'[c].pc = LoopBody[client[c].req]
        /\ client'[c].req = client[c].req
        /\ client'[c].todo = client[c].todo \ {j}
        /\ client'[c].job = j
    BY <2>1 DEF TypeOK, Client
  <2>5. QED  BY <1>4, <2>2, <2>3, <2>4 DEF NextJob, RestartSafe, At
<1>5. CASE EndRequest(c)
  BY <1>5 DEF EndRequest, Idle, TypeOK, RestartSafe, At
<1>6. ASSUME NEW pc \in ClientPC, Goto(c, pc),
             client[c].req = "restartall" /\ client[c].pc = "lock"
                => pc \in {"lock", "lockall"},
             globalJobsResults \subseteq globalJobsResults',
             pc \in {"lock", "reset"} => job'[client[c].job].iscompleted,
             client[c].pc # "lockall"
      PROVE  RestartSafe(c)'
  <2>1. /\ client'[c].pc = pc
        /\ client'[c].req = client[c].req
        /\ client'[c].todo = client[c].todo
        /\ client'[c].job = IF pc = "next" THEN NoJob ELSE client[c].job
    BY <1>6, GotoEffect DEF TypeOK
  <2>2. QED  BY <1>6, <2>1 DEF RestartSafe, At
<1>7. CASE LockMap(c)
  <2>1. PICK pc \in {"lockall", "register", "reset"} :
           /\ Goto(c, pc)
           /\ client[c].req = "restartall" => pc = "lockall"
           /\ pc = "reset" => client[c].req = "restart"
    BY <1>7 DEF LockMap
  <2>2. /\ pc \in ClientPC /\ client[c].pc = "lock"
        /\ pc = "reset" => job'[client[c].job].iscompleted
    BY <1>7, <2>1 DEF ClientPC, LockMap, At, RestartSafe
  <2>3. QED  BY <1>6, <1>7, <2>1, <2>2 DEF LockMap
<1>8. CASE CheckCompleted(c)
  <2>1. PICK pc \in {"lock", "reset", "next"} : Goto(c, pc)
    BY <1>8 DEF CheckCompleted
  <2>2. pc \in ClientPC /\ client[c].pc = "check"
    BY <1>8 DEF ClientPC, CheckCompleted, At
  <2>3. QED  BY <1>6, <1>8, <2>1, <2>2 DEF CheckCompleted
<1>9. CASE \/ Register(c) \/ Enqueue(c) \/ Lookup(c) \/ CheckUnknown(c)
           \/ CheckRunning(c) \/ StopSend(c) \/ Reset(c) \/ ResetPanic(c)
           \/ Fetch(c) \/ Status(c)
  <2>1. PICK pc \in {"enqueue", "next", "count", "check", "send", "panicked"} :
           Goto(c, pc)
    BY <1>9 DEF Register, Enqueue, Lookup, CheckUnknown, CheckRunning,
                StopSend, Reset, ResetPanic, Fetch, Status
  <2>2. /\ pc \in ClientPC
        /\ client[c].pc \notin {"lock", "lockall"}
        /\ globalJobsResults \subseteq globalJobsResults'
    BY <1>9 DEF ClientPC, At, Register, Enqueue, Lookup, CheckUnknown,
                CheckRunning, StopSend, Reset, ResetPanic, Fetch, Status
  <2>3. QED  BY <1>6, <2>1, <2>2
<1>10. QED
  BY <1>1, <1>2, <1>3, <1>4, <1>5, <1>7, <1>8, <1>9 DEF ClientNext

\* A step of the client c leaves the others where they are.
LEMMA OtherClients ==
    ASSUME TypeOK, NEW c \in Clients, ClientNext(c)
    PROVE  \A d \in Clients \ {c} : client'[d] = client[d]
  BY DEF ClientNext, ScheduleRequest, IdsRequest, AllRequest, StopRequest,
         StatusRequest, RestartRequest, FetchRequest, Begin, RLockMap, LockMap,
         LockAll, NextJob, EndRequest, Register, Enqueue, Lookup, CheckUnknown,
         CheckRunning, CheckCompleted, StopSend, Reset, ResetPanic, Fetch,
         Status, Goto, TypeOK

\* Of the goroutines only the cleanup routine removes a job from the map.
LEMMA MapShrinks ==
    ASSUME Next, ~CleanupDelete
    PROVE  globalJobsResults \subseteq globalJobsResults'
  BY DEF Next, ClientNext, ScheduleRequest, IdsRequest, AllRequest,
         RLockMap, LockMap, LockAll, NextJob, EndRequest, Register, Enqueue,
         Lookup, CheckUnknown, CheckRunning, CheckCompleted, StopSend, Reset,
         ResetPanic, Fetch, Status, ExecutorNext, Pickup, ExecFail, ExecStart,
         ExecTimeout, ExecStop, ExecDone, Leave, ExecComplete, ExecEnd,
         ExecRecord, ExecExit, Age, CleanerNext, CleanupWake, CleanupLock,
         CleanupLocked, CleanupCheck, CleanupUnlock

\* A client that waits stays safe: while it owns the map nobody deletes a job
\* or resets one, and while it does not there is no other client.
LEMMA RestartOtherStep ==
    ASSUME Undisturbed, IInv, SubmittedInv, NEW d \in Clients,
           RestartSafe(d), Next, ~ClientNext(d), client'[d] = client[d]
    PROVE  RestartSafe(d)'
<1> USE DEF IInv
<1>1. ASSUME client[d].req = "restartall",
             client[d].pc \notin {"lock", "lockall"}
      PROVE  /\ mapLock.writer = d
             /\ globalJobsResults \subseteq globalJobsResults'
  <2>1. mapLock.writer = d
    BY <1>1 DEF LockInv, Announced
  <2>2. ~CleanupDelete
    BY <2>1, ProcessesAssumption DEF CleanupDelete, LockInv
  <2>3. QED  BY <2>1, <2>2, MapShrinks
<1>2. ASSUME At(d, "reset") \/ (client[d].req = "restart" /\ At(d, "lock"))
      PROVE  job'[client[d].job].iscompleted
  <2>1. job[client[d].job].iscompleted /\ client[d].job \in Jobs
    BY <1>2, JobInHand DEF RestartSafe, At
  <2>2. SUFFICES ASSUME ~job'[client[d].job].iscompleted
                 PROVE  FALSE
    OBVIOUS
  <2>3. PICK c \in Clients : (Reset(c) \/ ResetPanic(c)) /\ HasWrite(mapLock, c)
    BY <2>1, <2>2, ResetsAreLocked
  <2>4. c # d
    BY <2>3 DEF ClientNext
  <2>5. CASE NoRestartById
    <3>1. client[d].req = "restartall"
      BY <1>2, <2>5, OnlyRestartAllResets DEF NoRestartById, SubmittedInv
    <3>2. mapLock.writer = d
      BY <1>1, <1>2, <3>1 DEF At
    <3>3. QED  BY <2>3, <2>4, <3>2 DEF HasWrite
  <2>6. CASE OneClient
    BY <2>4, <2>6 DEF OneClient
  <2>7. QED  BY <2>5, <2>6 DEF Undisturbed
<1>3. QED  BY <1>1, <1>2 DEF RestartSafe, At

\* Every step keeps RestartInv.
LEMMA RestartStep ==
    ASSUME Undisturbed, IInv, SubmittedInv, RestartInv, [Next]_vars
    PROVE  RestartInv'
<1>1. CASE UNCHANGED vars
  BY <1>1 DEF vars, RestartInv, RestartSafe, At
<1>2. ASSUME Next, NEW d \in Clients
      PROVE  RestartSafe(d)'
  <2>1. CASE ClientNext(d)
    BY <2>1, RestartOwnStep DEF IInv, RestartInv
  <2>2. CASE ~ClientNext(d)
    <3>1. client'[d] = client[d]
      <4>1. ASSUME NEW c \in Clients, ClientNext(c)
            PROVE  client'[d] = client[d]
        BY <2>2, <4>1, OtherClients DEF IInv
      <4>2. ASSUME \/ \E e \in Executors : ExecutorNext(e)
                   \/ CleanerNext
                   \/ \E j \in Jobs : Age(j)
            PROVE  client' = client
        BY <4>2 DEF ExecutorNext, Pickup, ExecFail, ExecStart, ExecTimeout,
             ExecStop, ExecDone, Leave, ExecComplete, ExecEnd, ExecRecord,
             ExecExit, CleanerNext, CleanupWake, CleanupLock, CleanupLocked,
             CleanupCheck, CleanupDelete, CleanupUnlock, Age
      <4>3. QED  BY <1>2, <4>1, <4>2 DEF Next
    <3>2. QED  BY <1>2, <2>2, <3>1, RestartOtherStep DEF RestartInv
  <2>3. QED  BY <2>1, <2>2
<1>3. QED  BY <1>1, <1>2 DEF RestartInv

-----------------------------------------------------------------------------
(* A job has one owner *)

\* No job has an owner at first.
LEMMA OwnerInit == Init => OwnerInv /\ RestartInv
<1>1. Init => OwnerInv
  BY JobsAssumption
     DEF Init, OwnerInv, WellOwned, WellListed, OneOwner, Owned, InRunPath,
         ClientOwns, Scheduling, Enqueueing, Queued, Executing, Idle, NoRun
<1>2. Init => RestartInv
  BY DEF Init, RestartInv, RestartSafe, At, Idle
<1>3. QED  BY <1>1, <1>2

\* A step that gives a job no new owner, and leaves it pending and listed as
\* its owners rely on, keeps it well owned.
LEMMA OwnersShrink ==
    ASSUME NEW j, WellOwned(j),
           \A c \in Clients : ClientOwns(c, j)' => ClientOwns(c, j),
           \A i, k \in 1 .. Len(globalJobsQueue') :
              globalJobsQueue'[i] = j /\ globalJobsQueue'[k] = j => i = k,
           Queued(j)' => Queued(j),
           \A e \in Executors : Executing(e, j)' => Executing(e, j),
           Owned(j)' => ~job'[j].iscompleted,
           NoRestartById => WellListed(j)'
    PROVE  WellOwned(j)'
<1>1. OneOwner(j)'
  BY DEF WellOwned, OneOwner
<1>2. QED  BY <1>1 DEF WellOwned, Pending

\* The same of a step that leaves the queue and the map alone.
LEMMA OwnersKept ==
    ASSUME NEW j, WellOwned(j),
           \A c \in Clients : /\ Scheduling(c, j)' => Scheduling(c, j)
                              /\ Enqueueing(c, j)' => Enqueueing(c, j),
           UNCHANGED <<globalJobsQueue, globalJobsResults>>,
           \A e \in Executors : Executing(e, j)' => Executing(e, j),
           Owned(j)' /\ Pending(j) => ~job'[j].iscompleted
    PROVE  WellOwned(j)'
<1>1. \A c \in Clients : ClientOwns(c, j)' => ClientOwns(c, j)
  BY DEF ClientOwns
<1>2. Queued(j)' = Queued(j)
  BY DEF Queued
<1>3. Owned(j)' => Owned(j)
  BY <1>2 DEF Owned
<1>4. InRunPath(j)' => InRunPath(j)
  BY <1>2 DEF InRunPath
<1>5. WellListed(j) => WellListed(j)'
  BY <1>4 DEF WellListed
<1>6. QED  BY <1>1, <1>2, <1>3, <1>5, OwnersShrink DEF WellOwned, OneOwner

\* Every step of a client keeps OwnerInv: the jobs it schedules are new, and
\* those it resets are completed, so nobody has them.
LEMMA OwnerClient ==
    ASSUME TypeOK, FlowInv, OwnershipInv, NEW c \in Clients, ClientNext(c)
    PROVE  OwnerInv'
<1> SUFFICES ASSUME NEW j \in Jobs
             PROVE  WellOwned(j)'
  BY DEF OwnerInv
<1> USE DEF OwnershipInv
<1>a. WellOwned(j)
  BY DEF OwnerInv
<1>b. \A d \in Clients \ {c} : client'[d] = client[d]
  BY OtherClients
<1>1. ASSUME UNCHANGED <<globalJobsQueue, globalJobsResults, executor>>,
             Scheduling(c, j)' => Scheduling(c, j),
             Enqueueing(c, j)' => Enqueueing(c, j),
             Pending(j) => ~job'[j].iscompleted
      PROVE  WellOwned(j)'
  <2>1. \A d \in Clients : /\ Scheduling(d, j)' => Scheduling(d, j)
                           /\ Enqueueing(d, j)' => Enqueueing(d, j)
    BY <1>1, <1>b DEF Scheduling, Enqueueing
  <2>2. QED  BY <1>1, <1>a, <2>1, OwnersKept DEF Executing
<1>2. CASE ScheduleRequest(c)
  <2>1. PICK S \in SUBSET (Jobs \ submitted) :
           client' = [client EXCEPT ![c] = [req |-> "schedule", pc |-> "next",
                                            todo |-> S, job |-> NoJob]]
    BY <1>2 DEF ScheduleRequest, Begin
  <2>2. client'[c] = [req |-> "schedule", pc |-> "next", todo |-> S,
                      job |-> NoJob]
    BY <2>1 DEF TypeOK
  <2>3. UNCHANGED <<globalJobsQueue, globalJobsResults, executor, job>>
    BY <1>2 DEF ScheduleRequest
  <2>4. CASE j \notin S
    <3>1. ~Scheduling(c, j)' /\ ~Enqueueing(c, j)'
      BY <2>2, <2>4 DEF Scheduling, Enqueueing
    <3>2. QED  BY <1>1, <2>3, <3>1 DEF Pending
  <2>5. CASE j \in S
    <3>1. j \notin submitted /\ j # NoJob
      BY <2>5, JobsAssumption
    <3>2. /\ \A d \in Clients \ {c} : ~ClientOwns(d, j)'
          /\ \A d \in Clients : ~Enqueueing(d, j)'
      BY <1>b, <2>2, <3>1
         DEF SubmittedInv, ClientOwns, Scheduling, Enqueueing
    <3>3. \A i \in 1 .. Len(globalJobsQueue') : globalJobsQueue'[i] # j
      BY <2>3, <3>1 DEF SubmittedInv
    <3>4. \A e \in Executors : ~Executing(e, j)'
      BY <2>3, <3>1 DEF SubmittedInv, Executing
    <3>5. Pending(j)' /\ j \notin globalJobsResults'
      BY <2>3, <3>1 DEF SubmittedInv, Pending, NewJob
    <3>6. OneOwner(j)'
      BY <3>2, <3>3, <3>4 DEF OneOwner, Queued
    <3>7. ~InRunPath(j)'
      BY <3>2, <3>3, <3>4 DEF InRunPath, Queued
    <3>8. QED  BY <3>5, <3>6, <3>7 DEF WellOwned, WellListed
  <2>6. QED  BY <2>4, <2>5
<1>3. CASE IdsRequest(c) \/ AllRequest(c)
  <2>1. PICK req, pc, ids :
           /\ client' = [client EXCEPT ![c] = [req |-> req, pc |-> pc,
                                               todo |-> ids, job |-> NoJob]]
           /\ req # "schedule"
    BY <1>3 DEF IdsRequest, AllRequest, StopRequest, StatusRequest,
                RestartRequest, FetchRequest, Begin
  <2>2. client'[c] = [req |-> req, pc |-> pc, todo |-> ids, job |-> NoJob]
    BY <2>1 DEF TypeOK
  <2>3. ~Scheduling(c, j)' /\ ~Enqueueing(c, j)'
    BY <2>1, <2>2, JobsAssumption DEF Scheduling, Enqueueing
  <2>4. QED  BY <1>1, <1>3, <2>3 DEF IdsRequest, AllRequest, Pending
<1>4. CASE RLockMap(c) \/ LockAll(c)
  <2>1. client[c].pc \in {"rlock", "lockall"}
    BY <1>4 DEF RLockMap, LockAll, At
  <2>2. client[c].req # "schedule"
    BY <2>1 DEF FlowInv, ClientFlow, Places
  <2>3. client'[c].req = client[c].req /\ client'[c].pc = "next"
    BY <1>4 DEF RLockMap, LockAll, TypeOK, Client
  <2>4. ~Scheduling(c, j)' /\ ~Enqueueing(c, j)'
    BY <2>2, <2>3 DEF Scheduling, Enqueueing
  <2>5. QED  BY <1>1, <1>4, <2>4 DEF RLockMap, LockAll, Pending
<1>5. CASE NextJob(c)
  <2>1. PICK k \in client[c].todo :
           client' = [client EXCEPT ![c].pc = LoopBody[client[c].req],
                                    ![c].todo = @ \ {k}, ![c].job = k]
    BY <1>5 DEF NextJob
  <2>2. client[c].req \in RequestKinds
    BY <1>5 DEF NextJob, At, FlowInv, ClientFlow, Places, TypeOK, Client
  <2>3. LoopBody[client[c].req] # "enqueue"
    BY <2>2 DEF LoopBody, RequestKinds
  <2>4. /\ client'[c].pc = LoopBody[client[c].req]
        /\ client'[c].req = client[c].req
        /\ client'[c].todo = client[c].todo \ {k}
        /\ client'[c].job = k
    BY <2>1 DEF TypeOK, Client
  <2>5. /\ Scheduling(c, j)' => Scheduling(c, j)
        /\ ~Enqueueing(c, j)'
    BY <2>3, <2>4 DEF Scheduling, Enqueueing
  <2>6. QED  BY <1>1, <1>5, <2>5 DEF NextJob, Pending
<1>6. CASE EndRequest(c)
  <2>1. client'[c] = Idle
    BY <1>6 DEF EndRequest, TypeOK
  <2>2. ~Scheduling(c, j)' /\ ~Enqueueing(c, j)'
    BY <2>1 DEF Idle, Scheduling, Enqueueing
  <2>3. QED  BY <1>1, <1>6, <2>2 DEF EndRequest, Pending
<1>7. CASE Register(c)
  <2>1. /\ client[c].pc = "register" /\ client[c].req = "schedule"
        /\ client'[c].pc = "enqueue"
        /\ client'[c].req = client[c].req
        /\ client'[c].todo = client[c].todo
        /\ client'[c].job = client[c].job
        /\ globalJobsResults' = globalJobsResults \cup {client[c].job}
        /\ UNCHANGED <<globalJobsQueue, executor, job>>
    BY <1>7, GotoEffect
       DEF Register, At, TypeOK, ClientPC, FlowInv, ClientFlow, Places, Client,
           RequestKinds
  <2>2. client[c].job \notin client[c].todo
    BY DEF SubmittedInv
  <2>3. /\ Scheduling(c, j)' => Scheduling(c, j) /\ j # client[c].job
        /\ Enqueueing(c, j)' => Scheduling(c, j) /\ j = client[c].job
    BY <2>1, <2>2 DEF Scheduling, Enqueueing
  <2>4. ASSUME NEW d \in Clients \ {c}
        PROVE  /\ Scheduling(d, j)' = Scheduling(d, j)
               /\ Enqueueing(d, j)' = Enqueueing(d, j)
    BY <1>b DEF Scheduling, Enqueueing
  <2>5. \A d \in Clients : ClientOwns(d, j)' => ClientOwns(d, j)
    BY <2>3, <2>4 DEF ClientOwns
  <2>6. Queued(j)' = Queued(j) /\ \A e \in Executors : Executing(e, j)' = Executing(e, j)
    BY <2>1 DEF Queued, Executing
  <2>7. j = client[c].job => Scheduling(c, j)
    BY <2>1 DEF Scheduling
  <2>8. \A d \in Clients :
           WellListed(j) /\ Scheduling(d, j)' => j \notin globalJobsResults'
    BY <1>a, <2>1, <2>3, <2>4, <2>7
       DEF WellOwned, WellListed, OneOwner, ClientOwns
  <2>9. WellListed(j) => WellListed(j)'
    <3>1. ASSUME WellListed(j), InRunPath(j)'
          PROVE  j \in globalJobsResults'
      BY <3>1, <2>1, <2>3, <2>4, <2>6 DEF WellListed, InRunPath
    <3>2. QED  BY <2>8, <3>1 DEF WellListed
  <2>10. Owned(j)' => ~job'[j].iscompleted
    BY <1>a, <2>1, <2>5, <2>6 DEF WellOwned, Owned, ClientOwns, Pending
  <2>11. \A i, k \in 1 .. Len(globalJobsQueue') :
           globalJobsQueue'[i] = j /\ globalJobsQueue'[k] = j => i = k
    BY <1>a, <2>1 DEF WellOwned, OneOwner
  <2>12. QED
    BY <1>a, <2>5, <2>6, <2>9, <2>10, <2>11, OwnersShrink DEF WellOwned
<1>8. CASE Enqueue(c)
  <2>1. /\ client[c].pc = "enqueue"
        /\ client'[c].pc = "next"
        /\ client'[c].req = client[c].req
        /\ client'[c].todo = client[c].todo
        /\ client'[c].job = NoJob
        /\ UNCHANGED <<globalJobsResults, executor, job>>
    BY <1>8, GotoEffect DEF Enqueue, At, TypeOK, ClientPC
  <2>2. /\ globalJobsQueue \in Seq(Jobs)
        /\ globalJobsQueue' = Append(globalJobsQueue, client[c].job)
        /\ client[c].job \in Jobs
        /\ client[c].job \notin client[c].todo
    BY <1>8, <2>1, JobInHand DEF Enqueue, TypeOK, SubmittedInv
  <2>3. /\ Scheduling(c, j)' => Scheduling(c, j) /\ j # client[c].job
        /\ ~Enqueueing(c, j)'
    BY <2>1, <2>2 DEF Scheduling, Enqueueing
  <2>4. ASSUME NEW d \in Clients \ {c}
        PROVE  /\ Scheduling(d, j)' = Scheduling(d, j)
               /\ Enqueueing(d, j)' = Enqueueing(d, j)
    BY <1>b DEF Scheduling, Enqueueing
  <2>5. \A e \in Executors : Executing(e, j)' = Executing(e, j)
    BY <2>1 DEF Executing
  <2>6. CASE j # client[c].job
    <3>1. \A i \in 1 .. Len(globalJobsQueue') : globalJobsQueue'[i] = j =>
             i \in 1 .. Len(globalJobsQueue) /\ globalJobsQueue[i] = j
      BY <2>2, <2>6
    <3>2. Queued(j)' => Queued(j)
      BY <3>1 DEF Queued
    <3>3. \A i, k \in 1 .. Len(globalJobsQueue') :
             globalJobsQueue'[i] = j /\ globalJobsQueue'[k] = j => i = k
      BY <1>a, <3>1 DEF WellOwned, OneOwner
    <3>4. \A d \in Clients : ClientOwns(d, j)' => ClientOwns(d, j)
      BY <2>3, <2>4 DEF ClientOwns
    <3>5. Owned(j)' => ~job'[j].iscompleted
      BY <1>a, <2>1, <2>5, <3>2, <3>4 DEF WellOwned, Owned, ClientOwns, Pending
    <3>6. WellListed(j) => WellListed(j)'
      BY <2>1, <2>3, <2>4, <2>5, <3>2 DEF WellListed, InRunPath
    <3>7. QED
      BY <1>a, <2>5, <3>2, <3>3, <3>4, <3>5, <3>6, OwnersShrink DEF WellOwned
  <2>7. CASE j = client[c].job
    <3>1. Enqueueing(c, j) /\ ClientOwns(c, j)
      BY <2>1, <2>7 DEF Enqueueing, ClientOwns
    <3>2. /\ Pending(j)
          /\ WellListed(j) => j \in globalJobsResults
          /\ ~Queued(j)
          /\ \A e \in Executors : ~Executing(e, j)
          /\ \A d \in Clients \ {c} : ~ClientOwns(d, j)
      BY <1>a, <3>1 DEF WellOwned, WellListed, OneOwner, Owned, InRunPath
    <3>3. \A d \in Clients : ~ClientOwns(d, j)'
      BY <2>3, <2>4, <2>7, <3>2 DEF ClientOwns
    <3>4. \A i \in 1 .. Len(globalJobsQueue') :
             globalJobsQueue'[i] = j => i = Len(globalJobsQueue) + 1
      BY <2>2, <3>2 DEF Queued
    <3>5. /\ Pending(j)'
          /\ WellListed(j) => WellListed(j)'
      BY <2>1, <3>2, <3>3 DEF Pending, WellListed, ClientOwns
    <3>6. OneOwner(j)'
      BY <2>5, <3>2, <3>3, <3>4 DEF OneOwner
    <3>7. QED
      BY <1>a, <3>5, <3>6 DEF WellOwned
  <2>8. QED  BY <2>6, <2>7
<1>9. ASSUME NEW pc \in ClientPC, Goto(c, pc), pc # "enqueue",
             pc \in {"lock", "register"} =>
                client[c].pc = "lock" \/ client[c].req # "schedule"
      PROVE  /\ Scheduling(c, j)' => Scheduling(c, j)
             /\ ~Enqueueing(c, j)'
  <2>1. /\ client'[c].pc = pc
        /\ client'[c].req = client[c].req
        /\ client'[c].todo = client[c].todo
        /\ client'[c].job \in {client[c].job, NoJob}
    BY <1>9, GotoEffect DEF TypeOK
  <2>2. j # NoJob
    BY JobsAssumption
  <2>3. QED  BY <1>9, <2>1, <2>2 DEF Scheduling, Enqueueing
<1>10. CASE LockMap(c)
  <2>1. PICK pc \in {"lockall", "register", "reset"} : Goto(c, pc)
    BY <1>10 DEF LockMap
  <2>2. pc \in ClientPC /\ client[c].pc = "lock"
    BY <1>10 DEF ClientPC, LockMap, At
  <2>3. QED  BY <1>1, <1>9, <1>10, <2>1, <2>2 DEF LockMap, Pending
<1>11. CASE \/ Lookup(c) \/ CheckUnknown(c) \/ CheckRunning(c)
            \/ CheckCompleted(c) \/ StopSend(c) \/ Status(c)
  <2>1. PICK pc \in {"next", "count", "check", "send", "lock", "reset"} :
           Goto(c, pc)
    BY <1>11 DEF Lookup, CheckUnknown, CheckRunning, CheckCompleted, StopSend,
                 Status
  <2>2. /\ pc \in ClientPC
        /\ client[c].pc \in {"lookup", "check", "send", "report"}
    BY <1>11 DEF ClientPC, Lookup, CheckUnknown, CheckRunning, CheckCompleted,
                 StopSend, Status, At
  <2>3. client[c].req # "schedule"
    BY <2>2 DEF FlowInv, ClientFlow, Places
  <2>4. UNCHANGED <<globalJobsQueue, globalJobsResults, executor, job>>
    BY <1>11 DEF Lookup, CheckUnknown, CheckRunning, CheckCompleted, StopSend,
                 Status
  <2>5. QED  BY <1>1, <1>9, <2>1, <2>2, <2>3, <2>4 DEF Pending
<1>12. CASE Fetch(c)
  <2>1. /\ Goto(c, "next") /\ client[c].pc = "count"
        /\ client[c].job \in Jobs
    BY <1>12, JobInHand DEF Fetch, At
  <2>2. job'[j].iscompleted = job[j].iscompleted
    BY <1>12, <2>1 DEF Fetch, CountFetch, TypeOK, Job
  <2>3. "next" \in ClientPC
    BY DEF ClientPC
  <2>4. QED  BY <1>1, <1>9, <1>12, <2>1, <2>2, <2>3 DEF Fetch, Pending
<1>13. CASE Reset(c) \/ ResetPanic(c)
  <2>1. /\ At(c, "reset") /\ client[c].job \in Jobs
        /\ job[client[c].job].iscompleted
    BY <1>13, JobInHand DEF Reset, ResetPanic, RestartInv, RestartSafe, At
  <2>2. /\ client'[c].pc \in {"enqueue", "panicked"}
        /\ client'[c].req = client[c].req
        /\ client'[c].todo = client[c].todo
        /\ client'[c].job = client[c].job
        /\ UNCHANGED <<globalJobsQueue, globalJobsResults, executor>>
    BY <1>13, GotoEffect DEF Reset, ResetPanic, TypeOK, ClientPC
  <2>3. client[c].req # "schedule"
    BY <2>1 DEF At, FlowInv, ClientFlow, Places
  <2>4. CASE j # client[c].job
    <3>1. ~Scheduling(c, j)' /\ ~Enqueueing(c, j)'
      BY <2>2, <2>3, <2>4 DEF Scheduling, Enqueueing
    <3>2. job'[j] = job[j]
      BY <1>13, <2>4 DEF Reset, ResetPanic, TypeOK
    <3>3. QED  BY <1>1, <2>2, <3>1, <3>2 DEF Pending
  <2>5. CASE j = client[c].job
    <3>1. ~Owned(j)
      BY <1>a, <2>1, <2>5 DEF WellOwned, Pending
    <3>2. /\ \A d \in Clients \ {c} : ~ClientOwns(d, j)'
          /\ ~Queued(j)'
          /\ \A e \in Executors : ~Executing(e, j)'
      BY <1>b, <2>2, <3>1
         DEF Owned, ClientOwns, Scheduling, Enqueueing, Queued, Executing
    <3>3. ~Scheduling(c, j)'
      BY <2>2, <2>3 DEF Scheduling
    <3>4. Pending(j)'
      <4>1. job' = [job EXCEPT ![j] = ResetInfos(job[j])]
        BY <1>13, <2>5 DEF Reset, ResetPanic
      <4>2. job'[j] = ResetInfos(job[j])
        BY <4>1 DEF TypeOK
      <4>3. job[j] \in Job
        BY DEF TypeOK
      <4>4. ResetInfos(job[j]).iscompleted = FALSE
        BY <4>3 DEF ResetInfos, Job
      <4>5. QED  BY <4>2, <4>4 DEF Pending
    <3>5. OneOwner(j)'
      BY <3>2 DEF OneOwner, Queued
    <3>6. ASSUME NoRestartById
          PROVE  WellListed(j)'
      <4>1. client[c].req = "restartall"
        BY <2>1, <3>6, OnlyRestartAllResets
      <4>2. j \in globalJobsResults'
        BY <2>1, <2>2, <2>5, <4>1, JobsAssumption
           DEF RestartInv, RestartSafe, At
      <4>3. QED  BY <3>2, <3>3, <4>2 DEF WellListed, ClientOwns
    <3>7. QED  BY <3>4, <3>5, <3>6 DEF WellOwned
  <2>6. QED  BY <2>4, <2>5
<1>14. QED
  BY <1>2, <1>3, <1>4, <1>5, <1>6, <1>7, <1>8, <1>10, <1>11, <1>12, <1>13
     DEF ClientNext

\* Every step of an executor keeps it: it takes the only entry of a job off the
\* queue, and has the job to itself until the job is completed.
LEMMA OwnerExecutor ==
    ASSUME TypeOK, FlowInv, OwnerInv, NEW e \in Executors, ExecutorNext(e)
    PROVE  OwnerInv'
<1> SUFFICES ASSUME NEW j \in Jobs
             PROVE  WellOwned(j)'
  BY DEF OwnerInv
<1>a. WellOwned(j)
  BY DEF OwnerInv
<1>b. /\ UNCHANGED <<client, globalJobsResults>>
      /\ \A d \in Executors \ {e} : executor'[d] = executor[d]
  BY DEF ExecutorNext, Pickup, ExecFail, ExecStart, ExecTimeout, ExecStop,
         ExecDone, Leave, ExecComplete, ExecEnd, ExecRecord, ExecExit, TypeOK
<1>c. \A c \in Clients : /\ Scheduling(c, j)' = Scheduling(c, j)
                         /\ Enqueueing(c, j)' = Enqueueing(c, j)
                         /\ ClientOwns(c, j)' = ClientOwns(c, j)
  BY <1>b DEF Scheduling, Enqueueing, ClientOwns
<1>d. \A d \in Executors \ {e} : Executing(d, j)' = Executing(d, j)
  BY <1>b DEF Executing
<1>1. ASSUME UNCHANGED globalJobsQueue,
             Executing(e, j)' => Executing(e, j),
             \/ Executing(e, j) /\ ~Executing(e, j)'
             \/ job'[j].iscompleted = job[j].iscompleted
      PROVE  WellOwned(j)'
  <2>1. \A d \in Executors : Executing(d, j)' => Executing(d, j)
    BY <1>1, <1>d
  <2>2. Queued(j)' = Queued(j)
    BY <1>1 DEF Queued
  <2>3. Executing(e, j) /\ ~Executing(e, j)' => ~Owned(j)'
    BY <1>a, <1>c, <1>d, <2>2
       DEF WellOwned, OneOwner, Owned, ClientOwns
  <2>4. Owned(j)' /\ Pending(j) => ~job'[j].iscompleted
    BY <1>1, <2>3 DEF Pending
  <2>5. QED  BY <1>1, <1>a, <1>b, <1>c, <2>1, <2>4, OwnersKept
<1>2. CASE Pickup(e)
  <2>1. /\ globalJobsQueue \in Seq(Jobs) /\ globalJobsQueue # <<>>
        /\ globalJobsQueue' = Tail(globalJobsQueue)
        /\ executor'[e].job = Head(globalJobsQueue)
        /\ executor'[e].pc = "start"
        /\ executor[e].pc = "idle"
        /\ UNCHANGED job
    BY <1>2 DEF Pickup, InRun, TypeOK, NoRun
  <2>2. /\ 1 \in 1 .. Len(globalJobsQueue)
        /\ globalJobsQueue[1] = Head(globalJobsQueue)
        /\ \A i \in 1 .. Len(globalJobsQueue') :
              /\ i + 1 \in 1 .. Len(globalJobsQueue)
              /\ i + 1 # 1
              /\ globalJobsQueue'[i] = globalJobsQueue[i + 1]
    BY <2>1
  <2>3. \A i, k \in 1 .. Len(globalJobsQueue') :
           globalJobsQueue'[i] = j /\ globalJobsQueue'[k] = j => i = k
    <3>1. ASSUME NEW i \in 1 .. Len(globalJobsQueue'),
                 NEW k \in 1 .. Len(globalJobsQueue'),
                 globalJobsQueue'[i] = j, globalJobsQueue'[k] = j
          PROVE  i = k
      <4>1. i + 1 = k + 1
        BY <1>a, <2>2, <3>1 DEF WellOwned, OneOwner
      <4>2. QED  BY <4>1
    <3>2. QED  BY <3>1
  <2>4. CASE j # Head(globalJobsQueue)
    <3>1. Queued(j)' => Queued(j)
      BY <2>2 DEF Queued
    <3>2. ~Executing(e, j)'
      BY <2>1, <2>4 DEF Executing
    <3>3. /\ Owned(j)' => Owned(j)
          /\ InRunPath(j)' => InRunPath(j)
      BY <1>c, <1>d, <3>1, <3>2 DEF Owned, InRunPath
    <3>4. /\ Owned(j)' => ~job'[j].iscompleted
          /\ WellListed(j) => WellListed(j)'
      BY <1>a, <1>b, <1>c, <2>1, <3>3 DEF WellOwned, WellListed, Pending
    <3>5. /\ \A c \in Clients : ClientOwns(c, j)' => ClientOwns(c, j)
          /\ \A d \in Executors : Executing(d, j)' => Executing(d, j)
      BY <1>c, <1>d, <3>2
    <3>6. QED  BY <1>a, <2>3, <3>1, <3>4, <3>5, OwnersShrink DEF WellOwned
  <2>5. CASE j = Head(globalJobsQueue)
    <3>1. Queued(j)
      BY <2>2, <2>5 DEF Queued
    <3>2. /\ Pending(j)
          /\ WellListed(j) => j \in globalJobsResults
          /\ \A c \in Clients : ~ClientOwns(c, j)
          /\ \A d \in Executors : ~Executing(d, j)
      BY <1>a, <3>1 DEF WellOwned, WellListed, OneOwner, Owned, InRunPath
    <3>3. ~Queued(j)'
      <4>1. ASSUME NEW i \in 1 .. Len(globalJobsQueue'),
                   globalJobsQueue'[i] = j
            PROVE  FALSE
        BY <1>a, <2>2, <2>5, <4>1 DEF WellOwned, OneOwner
      <4>2. QED  BY <4>1 DEF Queued
    <3>4. \A d \in Executors : Executing(d, j)' => d = e
      BY <1>d, <3>2
    <3>5. \A c \in Clients : ~ClientOwns(c, j)'
      BY <1>c, <3>2
    <3>6. OneOwner(j)'
      BY <2>3, <3>3, <3>4, <3>5 DEF OneOwner
    <3>7. /\ Pending(j)'
          /\ WellListed(j) => WellListed(j)'
      BY <1>b, <2>1, <3>2, <3>5 DEF Pending, WellListed, ClientOwns
    <3>8. QED  BY <1>a, <3>6, <3>7 DEF WellOwned
  <2>6. QED  BY <2>4, <2>5
<1>3. CASE ExecStart(e) \/ ExecTimeout(e) \/ ExecStop(e) \/ ExecDone(e)
  <2>1. UNCHANGED <<job, globalJobsQueue>>
    BY <1>3 DEF ExecStart, ExecTimeout, ExecStop, ExecDone, Leave
  <2>2. executor'[e].job = executor[e].job /\ executor[e].pc \in {"start", "select"}
    <3>1. CASE ExecStart(e)
      BY <3>1 DEF ExecStart, InRun, TypeOK, Executor
    <3>2. CASE \E err, cause : Leave(e, err, cause)
      BY <3>2 DEF Leave, InRun, TypeOK, Executor
    <3>3. QED  BY <1>3, <3>1, <3>2 DEF ExecTimeout, ExecStop, ExecDone
  <2>3. Executing(e, j)' => Executing(e, j)
    BY <2>2 DEF Executing
  <2>4. QED  BY <1>1, <2>1, <2>3
<1>4. CASE ExecFail(e) \/ ExecComplete(e)
  <2>1. executor[e].pc \in {"start", "complete"}
    BY <1>4 DEF ExecFail, ExecComplete, InRun
  <2>2. executor'[e].pc \in {"idle", "end"}
    BY <1>4 DEF ExecFail, ExecComplete, NoRun, TypeOK, Executor
  <2>3. ~Executing(e, j)'
    BY <2>2 DEF Executing
  <2>4. Executing(e, j) \/ job'[j] = job[j]
    BY <1>4, <2>1 DEF ExecFail, ExecComplete, Executing, TypeOK
  <2>5. globalJobsQueue' = globalJobsQueue
    BY <1>4 DEF ExecFail, ExecComplete
  <2>6. QED  BY <1>1, <2>3, <2>4, <2>5
<1>5. CASE ExecEnd(e) \/ ExecRecord(e) \/ ExecExit(e)
  <2>1. executor'[e].pc \in {"record", "exit", "idle"}
    BY <1>5 DEF ExecEnd, ExecRecord, ExecExit, NoRun, TypeOK, Executor
  <2>2. ~Executing(e, j)'
    BY <2>1 DEF Executing
  <2>3. job'[j].iscompleted = job[j].iscompleted
    <3>1. CASE ExecEnd(e)
      BY <3>1 DEF ExecEnd, TypeOK, Job
    <3>2. CASE ExecRecord(e)
      BY <3>2 DEF ExecRecord, TypeOK, Job
    <3>3. CASE ExecExit(e)
      BY <3>3 DEF ExecExit, TypeOK, Job
    <3>4. QED  BY <1>5, <3>1, <3>2, <3>3
  <2>4. globalJobsQueue' = globalJobsQueue
    BY <1>5 DEF ExecEnd, ExecRecord, ExecExit
  <2>5. QED  BY <1>1, <2>2, <2>3, <2>4
<1>6. QED  BY <1>2, <1>3, <1>4, <1>5 DEF ExecutorNext

\* The cleanup routine keeps it, since the job it deletes is completed and so
\* has no owner.
LEMMA OwnerCleaner ==
    ASSUME TypeOK, FlowInv, DeleteInv, OwnerInv,
           CleanerNext \/ \E k \in Jobs : Age(k)
    PROVE  OwnerInv'
<1> SUFFICES ASSUME NEW j \in Jobs
             PROVE  WellOwned(j)'
  BY DEF OwnerInv
<1>a. WellOwned(j)
  BY DEF OwnerInv
<1>b. UNCHANGED <<client, executor, globalJobsQueue>>
  BY DEF CleanerNext, CleanupWake, CleanupLock, CleanupLocked, CleanupCheck,
         CleanupDelete, CleanupUnlock, Age
<1>c. job'[j].iscompleted = job[j].iscompleted
  BY DEF CleanerNext, CleanupWake, CleanupLock, CleanupLocked, CleanupCheck,
         CleanupDelete, CleanupUnlock, Age, TypeOK, Job
<1>1. /\ OneOwner(j)' = OneOwner(j)
      /\ Owned(j)' = Owned(j)
      /\ InRunPath(j)' = InRunPath(j)
      /\ Pending(j)' = Pending(j)
      /\ \A c \in Clients : Scheduling(c, j)' = Scheduling(c, j)
  BY <1>b, <1>c DEF OneOwner, Owned, InRunPath, ClientOwns, Scheduling,
       Enqueueing, Queued, Executing, Pending
<1>2. globalJobsResults' \subseteq globalJobsResults
  BY DEF CleanerNext, CleanupWake, CleanupLock, CleanupLocked, CleanupCheck,
         CleanupDelete, CleanupUnlock, Age
<1>3. ASSUME j \in globalJobsResults, j \notin globalJobsResults'
      PROVE  ~Pending(j)
  BY <1>3 DEF CleanerNext, CleanupWake, CleanupLock, CleanupLocked,
       CleanupCheck, CleanupDelete, CleanupUnlock, Age, DeleteInv, Pending
<1>4. InRunPath(j) => Owned(j)
  BY DEF InRunPath, Owned
<1>5. Owned(j) => Pending(j)
  BY <1>a DEF WellOwned
<1>6. WellListed(j) => WellListed(j)'
  BY <1>1, <1>2, <1>3, <1>4, <1>5 DEF WellListed
<1>7. QED  BY <1>a, <1>1, <1>6 DEF WellOwned

\* As long as restarts are undisturbed every step keeps OwnershipInv.
LEMMA OwnershipStep ==
    ASSUME Undisturbed, IInv, OwnershipInv, [Next]_vars
    PROVE  OwnershipInv'
<1>1. SubmittedInv' /\ RestartInv'
  BY SubmittedStep, RestartStep DEF OwnershipInv
<1>2. OwnerInv'
  <2>1. CASE UNCHANGED vars
    BY <2>1 DEF vars, OwnershipInv, OwnerInv, WellOwned, WellListed, OneOwner,
         Owned, InRunPath, ClientOwns, Scheduling, Enqueueing, Queued, Executing,
         Pending
  <2>2. QED
    BY <2>1, OwnerClient, OwnerExecutor, OwnerCleaner
       DEF Next, IInv, OwnershipInv
<1>3. QED  BY <1>1, <1>2 DEF OwnershipInv

\* JobsHaveOneOwner: without restarts by id, or with requests that come one
\* after the other, a job is with one request, in one place of the queue or with
\* one executor at a time and is pending there, whatever schedules, stops,
\* fetches, restarts of all jobs and cleanups do.
THEOREM JobsHaveOneOwner ==
    ASSUME Undisturbed
    PROVE  Spec => []OwnershipInv
<1>1. Init => OwnershipInv
  BY SubmittedInit, OwnerInit DEF OwnershipInv
<1>2. IInv /\ OwnershipInv /\ [Next]_vars => OwnershipInv'
  BY OwnershipStep
<1>3. QED  BY <1>1, <1>2, Invariant, PTL DEF Spec

\* AtMostOneProcess: without restarts by id, or with all seven requests but one
\* at a time, a job never has two processes at once.
THEOREM AtMostOneProcess ==
    ASSUME Undisturbed
    PROVE  Spec => []AtMostOneRun
<1>1. ASSUME OwnershipInv, NEW j \in Jobs
      PROVE  Cardinality(Running(j)) <= 1
  <2>1. \A e, f \in Running(j) : e = f
    BY <1>1 DEF OwnershipInv, OwnerInv, WellOwned, OneOwner, Running, Executing
  <2>2. CASE Running(j) = {}
    BY <2>2, FS_EmptySet
  <2>3. CASE Running(j) # {}
    <3>1. PICK e : Running(j) = {e}
      BY <2>1, <2>3
    <3>2. Cardinality(Running(j)) = 1
      BY <3>1, FS_Singleton
    <3>3. QED  BY <3>2
  <2>4. QED  BY <2>2, <2>3
<1>2. OwnershipInv => AtMostOneRun
  BY <1>1 DEF AtMostOneRun
<1>3. QED  BY <1>2, JobsHaveOneOwner, PTL

\* RunningJobsAreListed: without restarts by id the map lists every job that has
\* a process, although the cleanup routine goes on deleting.
THEOREM RunningJobsAreListed ==
    ASSUME NoRestartById
    PROVE  Spec => []RunningJobIsListed
<1>1. OwnershipInv => RunningJobIsListed
  BY DEF OwnershipInv, OwnerInv, WellOwned, WellListed, InRunPath,
         RunningJobIsListed, Running, Executing
<1>2. Undisturbed
  BY DEF Undisturbed
<1>3. QED  BY <1>1, <1>2, JobsHaveOneOwner, PTL

-----------------------------------------------------------------------------
(* The refinement of JobLifecycle *)

\* The phase of a job depends on its fields, the map and who has it.
LEMMA PhaseKept ==
    ASSUME NEW j,
           j \in globalJobsResults' <=> j \in globalJobsResults,
           job'[j].iscompleted = job[j].iscompleted,
           BeingRun(j)' = BeingRun(j),
           NotYetListed(j)' = NotYetListed(j)
    PROVE  JobPhase(j)' = JobPhase(j)
  BY DEF JobPhase, Pending

\* A step that changes the phase of one job moves it.
LEMMA PhaseMoves ==
    ASSUME NEW j \in Jobs, NEW from, NEW to,
           JobPhase(j) = from, JobPhase(j)' = to,
           \A k \in Jobs \ {j} : JobPhase(k)' = JobPhase(k)
    PROVE  Lifecycle!Move(j, from, to)
  BY DEF Lifecycle!Move

\* A step that changes no phase stutters.
LEMMA PhasesStay ==
    ASSUME \A k \in Jobs : JobPhase(k)' = JobPhase(k)
    PROVE  UNCHANGED [j \in Jobs |-> JobPhase(j)]
  OBVIOUS

\* A client at work on other things than registering keeps the set of jobs that
\* are not listed yet.
LEMMA NotYetListedKept ==
    ASSUME TypeOK, FlowInv, NEW c \in Clients, NEW j \in Jobs, ClientNext(c),
           Register(c) => client[c].job # j
    PROVE  NotYetListed(j)' = NotYetListed(j)
<1>a. \A d \in Clients \ {c} : Scheduling(d, j)' = Scheduling(d, j)
  BY OtherClients DEF Scheduling
<1>b. j # NoJob
  BY JobsAssumption
<1>1. ASSUME Scheduling(c, j)' = Scheduling(c, j), UNCHANGED submitted
      PROVE  NotYetListed(j)' = NotYetListed(j)
  BY <1>1, <1>a DEF NotYetListed
<1>2. CASE ScheduleRequest(c)
  <2>1. PICK S \in SUBSET (Jobs \ submitted) :
           /\ client[c].pc = "idle"
           /\ client' = [client EXCEPT ![c] = [req |-> "schedule",
                           pc |-> "next", todo |-> S, job |-> NoJob]]
           /\ submitted' = submitted \cup S
    BY <1>2 DEF ScheduleRequest, Begin, At
  <2>2. ~Scheduling(c, j)
    BY <2>1 DEF Scheduling, FlowInv, ClientFlow, Places
  <2>3. Scheduling(c, j)' <=> j \in S
    BY <1>b, <2>1 DEF Scheduling, TypeOK
  <2>4. QED  BY <1>a, <2>1, <2>2, <2>3 DEF NotYetListed
<1>3. CASE IdsRequest(c) \/ AllRequest(c)
  <2>1. PICK req, pc, ids :
           /\ client[c].pc = "idle"
           /\ client' = [client EXCEPT ![c] = [req |-> req, pc |-> pc,
                                               todo |-> ids, job |-> NoJob]]
           /\ req # "schedule"
    BY <1>3 DEF IdsRequest, AllRequest, StopRequest, StatusRequest,
                RestartRequest, FetchRequest, Begin, At
  <2>2. ~Scheduling(c, j)
    BY <2>1 DEF Scheduling, FlowInv, ClientFlow, Places
  <2>3. ~Scheduling(c, j)'
    BY <2>1 DEF Scheduling, TypeOK
  <2>4. QED  BY <1>1, <1>3, <2>2, <2>3 DEF IdsRequest, AllRequest, Scheduling
<1>4. CASE RLockMap(c) \/ LockAll(c)
  <2>1. client[c].pc \in {"rlock", "lockall"}
    BY <1>4 DEF RLockMap, LockAll, At
  <2>2. client[c].req # "schedule"
    BY <2>1 DEF FlowInv, ClientFlow, Places
  <2>3. client'[c].req = client[c].req
    BY <1>4 DEF RLockMap, LockAll, TypeOK, Client
  <2>4. QED  BY <1>1, <1>4, <2>2, <2>3 DEF RLockMap, LockAll, Scheduling
<1>5. CASE NextJob(c)
  <2>1. PICK k \in client[c].todo :
           client' = [client EXCEPT ![c].pc = LoopBody[client[c].req],
                                    ![c].todo = @ \ {k}, ![c].job = k]
    BY <1>5 DEF NextJob
  <2>2. /\ client'[c].pc = LoopBody[client[c].req]
        /\ client'[c].req = client[c].req
        /\ client'[c].todo = client[c].todo \ {k}
        /\ client'[c].job = k
    BY <2>1 DEF TypeOK, Client
  <2>3. LoopBody["schedule"] = "lock" /\ client[c].pc = "next"
    BY <1>5 DEF LoopBody, NextJob, At
  <2>4. Scheduling(c, j)' = Scheduling(c, j)
    BY <2>2, <2>3 DEF Scheduling
  <2>5. QED  BY <1>1, <1>5, <2>4 DEF NextJob
<1>6. CASE EndRequest(c)
  <2>1. /\ client[c].pc = "next" /\ client[c].todo = {}
        /\ client'[c] = Idle
    BY <1>6 DEF EndRequest, At, TypeOK
  <2>2. ~Scheduling(c, j) /\ ~Scheduling(c, j)'
    BY <2>1 DEF Scheduling, Idle
  <2>3. QED  BY <1>1, <1>6, <2>2 DEF EndRequest, Scheduling
<1>7. ASSUME NEW pc \in ClientPC, Goto(c, pc), UNCHANGED submitted,
             \/ client[c].req # "schedule"
             \/ client[c].job # j
             \/ client[c].pc \in {"lock", "register"}
                   <=> pc \in {"lock", "register"}
      PROVE  NotYetListed(j)' = NotYetListed(j)
  <2>1. /\ client'[c].pc = pc
        /\ client'[c].req = client[c].req
        /\ client'[c].todo = client[c].todo
        /\ client'[c].job = IF pc = "next" THEN NoJob ELSE client[c].job
    BY <1>7, GotoEffect DEF TypeOK
  <2>2. Scheduling(c, j)' = Scheduling(c, j)
    BY <1>7, <1>b, <2>1 DEF Scheduling
  <2>3. QED  BY <1>1, <1>7, <2>2
<1>8. CASE LockMap(c)
  <2>1. PICK pc \in {"lockall", "register", "reset"} :
           Goto(c, pc) /\ (client[c].req = "schedule" => pc = "register")
    BY <1>8 DEF LockMap
  <2>2. pc \in ClientPC /\ client[c].pc = "lock"
    BY <1>8 DEF ClientPC, LockMap, At
  <2>3. QED  BY <1>7, <1>8, <2>1, <2>2 DEF LockMap
<1>9. CASE Register(c) \/ Enqueue(c)
  <2>1. CASE Register(c)
    BY <1>7, <2>1 DEF Register, ClientPC
  <2>2. CASE Enqueue(c)
    BY <1>7, <2>2 DEF Enqueue, At, ClientPC
  <2>3. QED  BY <1>9, <2>1, <2>2
<1>10. CASE \/ Lookup(c) \/ CheckUnknown(c) \/ CheckRunning(c)
            \/ CheckCompleted(c) \/ StopSend(c) \/ Reset(c) \/ ResetPanic(c)
            \/ Fetch(c) \/ Status(c)
  <2>1. PICK pc \in {"next", "count", "check", "send", "lock", "reset",
                     "enqueue", "panicked"} : Goto(c, pc)
    BY <1>10 DEF Lookup, CheckUnknown, CheckRunning, CheckCompleted, StopSend,
                 Reset, ResetPanic, Fetch, Status
  <2>2. /\ pc \in ClientPC
        /\ client[c].pc \in {"lookup", "check", "send", "reset", "count",
                             "report"}
        /\ UNCHANGED submitted
    BY <1>10 DEF ClientPC, Lookup, CheckUnknown, CheckRunning, CheckCompleted,
                 StopSend, Reset, ResetPanic, Fetch, Status, At
  <2>3. client[c].req # "schedule"
    BY <2>2 DEF FlowInv, ClientFlow, Places
  <2>4. QED  BY <1>7, <2>1, <2>2, <2>3
<1>11. QED
  BY <1>2, <1>3, <1>4, <1>5, <1>6, <1>8, <1>9, <1>10 DEF ClientNext

\* A step of a client lists a new job, restarts a completed one or changes no
\* phase.
LEMMA LifecycleClient ==
    ASSUME NoRestartById, IInv, OwnershipInv, NEW c \in Clients, ClientNext(c)
    PROVE  [Lifecycle!Next]_[j \in Jobs |-> JobPhase(j)]
<1> USE DEF IInv, OwnershipInv
<1>a. \A k \in Jobs : BeingRun(k)' = BeingRun(k)
  BY DEF BeingRun, ClientNext, ScheduleRequest, IdsRequest, AllRequest,
         RLockMap, LockMap, LockAll, NextJob, EndRequest, Register, Enqueue,
         Lookup, CheckUnknown, CheckRunning, CheckCompleted, StopSend, Reset,
         ResetPanic, Fetch, Status
<1>1. CASE Register(c)
  <2>0. PICK j \in Jobs : j = client[c].job
    BY <1>1, JobInHand DEF Register, At
  <2>1. /\ client[c].pc = "register" /\ client[c].req = "schedule"
        /\ globalJobsResults' = globalJobsResults \cup {j}
        /\ UNCHANGED job
    BY <1>1, <2>0
       DEF Register, At, FlowInv, ClientFlow, Places, TypeOK, Client,
           RequestKinds
  <2>2. Scheduling(c, j)
    BY <2>0, <2>1 DEF Scheduling
  <2>3. /\ j \notin globalJobsResults
        /\ Pending(j)
        /\ ~BeingRun(j)
    BY <2>1, <2>2 DEF OwnerInv, WellOwned, WellListed, OneOwner, Owned,
         ClientOwns, BeingRun, Executing
  <2>4. JobPhase(j) = "absent"
    BY <2>2, <2>3 DEF JobPhase, NotYetListed
  <2>5. JobPhase(j)' = "pending"
    BY <1>a, <2>1, <2>3 DEF JobPhase, Pending
  <2>6. \A k \in Jobs \ {j} : JobPhase(k)' = JobPhase(k)
    BY <1>a, <2>0, <2>1, NotYetListedKept, PhaseKept
  <2>7. Lifecycle!Move(j, "absent", "pending")
    BY <2>1, <2>4, <2>5, <2>6, PhaseMoves
  <2>8. QED  BY <2>1, <2>7 DEF Lifecycle!Next, Lifecycle!List
<1>2. CASE Reset(c) \/ ResetPanic(c)
  <2>0. PICK j \in Jobs : j = client[c].job
    BY <1>2, JobInHand DEF Reset, ResetPanic, At
  <2>1. client[c].req = "restartall"
    BY <1>2, OnlyRestartAllResets DEF Reset, ResetPanic
  <2>2. j \in globalJobsResults \cap Short /\ job[j].iscompleted
    BY <1>2, <2>0, <2>1, JobsAssumption
       DEF Reset, ResetPanic, RestartInv, RestartSafe, At
  <2>3. /\ globalJobsResults' = globalJobsResults
        /\ ~job'[j].iscompleted
        /\ \A k \in Jobs \ {j} : job'[k] = job[k]
    <3>1. /\ globalJobsResults' = globalJobsResults
          /\ job' = [job EXCEPT ![j] = ResetInfos(@)]
      BY <1>2, <2>0 DEF Reset, ResetPanic
    <3>2. ~ResetInfos(job[j]).iscompleted
      BY DEF ResetInfos, TypeOK, Job
    <3>3. QED  BY <3>1, <3>2 DEF TypeOK
  <2>4. ~BeingRun(j)
    BY <2>1, <2>2 DEF OwnerInv, WellOwned, Owned, Pending, BeingRun, Executing
  <2>5. JobPhase(j) = "completed" /\ JobPhase(j)' = "pending"
    BY <1>a, <2>1, <2>2, <2>3, <2>4 DEF JobPhase, Pending
  <2>6. ~Register(c)
    BY <1>2 DEF Register, Reset, ResetPanic, At
  <2>7. \A k \in Jobs \ {j} : JobPhase(k)' = JobPhase(k)
    BY <1>a, <2>3, <2>6, NotYetListedKept, PhaseKept
  <2>8. Lifecycle!Move(j, "completed", "pending")
    BY <2>1, <2>5, <2>7, PhaseMoves
  <2>9. QED  BY <2>1, <2>8 DEF Lifecycle!Next, Lifecycle!Restart
<1>3. CASE ~Register(c) /\ ~Reset(c) /\ ~ResetPanic(c)
  <2>1. globalJobsResults' = globalJobsResults
    BY <1>3 DEF ClientNext, ScheduleRequest, IdsRequest, AllRequest,
         RLockMap, LockMap, LockAll, NextJob, EndRequest, Enqueue,
         Lookup, CheckUnknown, CheckRunning, CheckCompleted, StopSend, Fetch,
         Status
  <2>2. \A k \in Jobs : job'[k].iscompleted = job[k].iscompleted
    <3>1. CASE Fetch(c)
      BY <3>1, JobInHand DEF Fetch, CountFetch, TypeOK, Job
    <3>2. CASE ~Fetch(c)
      <4>1. job' = job
        BY <1>3, <3>2 DEF ClientNext, ScheduleRequest, IdsRequest, AllRequest,
             RLockMap, LockMap, LockAll, NextJob, EndRequest, Enqueue,
             Lookup, CheckUnknown, CheckRunning, CheckCompleted, StopSend,
             Status
      <4>2. QED  BY <4>1
    <3>3. QED  BY <3>1, <3>2
  <2>3. \A k \in Jobs : JobPhase(k)' = JobPhase(k)
    BY <1>3, <1>a, <2>1, <2>2, NotYetListedKept, PhaseKept
  <2>4. QED  BY <2>3, PhasesStay
<1>4. QED  BY <1>1, <1>2, <1>3

\* A step of an executor starts, fails or finishes a run, or changes no phase.
LEMMA LifecycleExecutor ==
    ASSUME NoRestartById, IInv, OwnershipInv, NEW e \in Executors,
           ExecutorNext(e)
    PROVE  [Lifecycle!Next]_[j \in Jobs |-> JobPhase(j)]
<1> USE DEF IInv, OwnershipInv
<1>a. /\ UNCHANGED <<client, globalJobsResults, submitted>>
      /\ \A d \in Executors \ {e} : executor'[d] = executor[d]
  BY DEF ExecutorNext, Pickup, ExecFail, ExecStart, ExecTimeout, ExecStop,
         ExecDone, Leave, ExecComplete, ExecEnd, ExecRecord, ExecExit, TypeOK
<1>b. \A k \in Jobs : NotYetListed(k)' = NotYetListed(k)
  BY <1>a DEF NotYetListed, Scheduling
<1>1. ASSUME NEW k \in Jobs, job'[k].iscompleted = job[k].iscompleted,
             BeingRun(k)' = BeingRun(k)
      PROVE  JobPhase(k)' = JobPhase(k)
  BY <1>1, <1>a, <1>b, PhaseKept
<1>2. ASSUME NEW j \in Jobs, Executing(e, j)
      PROVE  /\ j \in globalJobsResults /\ Pending(j)
             /\ \A d \in Executors : Executing(d, j) => d = e
  BY <1>2 DEF OwnerInv, WellOwned, WellListed, OneOwner, Owned, InRunPath
<1>3. CASE ExecStart(e)
  <2>1. PICK j \in Jobs : j = executor[e].job
    BY <1>3, JobInRun DEF ExecStart, InRun
  <2>2. /\ executor[e].pc = "start" /\ executor'[e].pc = "select"
        /\ executor'[e].job = j
        /\ UNCHANGED job
    BY <1>3, <2>1 DEF ExecStart, InRun, TypeOK, Executor
  <2>3. Executing(e, j)
    BY <2>1, <2>2 DEF Executing
  <2>4. ~BeingRun(j) /\ BeingRun(j)'
    BY <1>2, <2>2, <2>3 DEF BeingRun, Executing
  <2>5. \A k \in Jobs \ {j} : BeingRun(k)' = BeingRun(k)
    BY <1>a, <2>1, <2>2 DEF BeingRun
  <2>6. JobPhase(j) = "pending" /\ JobPhase(j)' = "running"
    BY <1>2, <1>a, <2>2, <2>3, <2>4 DEF JobPhase, Pending
  <2>7. \A k \in Jobs \ {j} : JobPhase(k)' = JobPhase(k)
    BY <1>1, <2>2, <2>5
  <2>8. Lifecycle!Move(j, "pending", "running")
    BY <2>6, <2>7, PhaseMoves
  <2>9. QED  BY <2>8 DEF Lifecycle!Next, Lifecycle!Start
<1>4. CASE ExecFail(e)
  <2>1. PICK j \in Jobs : j = executor[e].job
    BY <1>4, JobInRun DEF ExecFail, InRun
  <2>2. /\ executor[e].pc = "start" /\ executor'[e].pc = "idle"
        /\ job' = [job EXCEPT ![j] = FailedInfos(@)]
    BY <1>4, <2>1 DEF ExecFail, InRun, NoRun, TypeOK, Executor
  <2>3. /\ FailedInfos(job[j]).iscompleted
        /\ \A k \in Jobs \ {j} : job'[k] = job[k]
    BY <2>2 DEF FailedInfos, TypeOK, Job
  <2>4. job'[j].iscompleted
    BY <2>2, <2>3 DEF TypeOK
  <2>5. Executing(e, j)
    BY <2>1, <2>2 DEF Executing
  <2>6. ~BeingRun(j)
    BY <1>2, <2>2, <2>5 DEF BeingRun, Executing
  <2>7. \A k \in Jobs \ {j} : BeingRun(k)' = BeingRun(k)
    BY <1>a, <2>1, <2>2 DEF BeingRun
  <2>8. JobPhase(j) = "pending" /\ JobPhase(j)' = "completed"
    BY <1>2, <1>a, <2>4, <2>5, <2>6 DEF JobPhase, Pending
  <2>9. \A k \in Jobs \ {j} : JobPhase(k)' = JobPhase(k)
    BY <1>1, <2>3, <2>7
  <2>10. Lifecycle!Move(j, "pending", "completed")
    BY <2>8, <2>9, PhaseMoves
  <2>11. QED  BY <2>10 DEF Lifecycle!Next, Lifecycle!Fail
<1>5. CASE ExecComplete(e)
  <2>1. PICK j \in Jobs : j = executor[e].job
    BY <1>5, JobInRun DEF ExecComplete, InRun
  <2>2. /\ executor[e].pc = "complete" /\ executor'[e].pc = "end"
        /\ job' = [job EXCEPT ![j].iscompleted = TRUE]
    BY <1>5, <2>1 DEF ExecComplete, InRun, TypeOK, Executor
  <2>3. /\ job'[j].iscompleted
        /\ \A k \in Jobs \ {j} : job'[k] = job[k]
    BY <2>2 DEF TypeOK, Job
  <2>4. Executing(e, j)
    BY <2>1, <2>2 DEF Executing
  <2>5. BeingRun(j)
    BY <2>1, <2>2 DEF BeingRun
  <2>6. \A k \in Jobs \ {j} : BeingRun(k)' = BeingRun(k)
    <3>1. executor'[e].job = j
      BY <1>5, <2>1 DEF ExecComplete, TypeOK, Executor
    <3>2. QED  BY <1>a, <2>1, <3>1 DEF BeingRun
  <2>7. JobPhase(j) = "running" /\ JobPhase(j)' = "completed"
    BY <1>2, <1>a, <2>3, <2>4, <2>5 DEF JobPhase, Pending
  <2>8. \A k \in Jobs \ {j} : JobPhase(k)' = JobPhase(k)
    BY <1>1, <2>3, <2>6
  <2>9. Lifecycle!Move(j, "running", "completed")
    BY <2>7, <2>8, PhaseMoves
  <2>10. QED  BY <2>9 DEF Lifecycle!Next, Lifecycle!Finish
<1>6. CASE Pickup(e)
  <2>1. /\ executor[e].pc = "idle" /\ executor'[e].pc = "start"
        /\ UNCHANGED job
    BY <1>6 DEF Pickup, InRun, NoRun, TypeOK
  <2>2. \A k \in Jobs : BeingRun(k)' = BeingRun(k)
    BY <1>a, <2>1 DEF BeingRun
  <2>3. QED  BY <1>1, <2>1, <2>2, PhasesStay
<1>7. CASE ExecTimeout(e) \/ ExecStop(e) \/ ExecDone(e)
  <2>1. PICK err, cause : Leave(e, err, cause)
    BY <1>7 DEF ExecTimeout, ExecStop, ExecDone
  <2>2. /\ executor[e].pc = "select" /\ executor'[e].pc = "complete"
        /\ executor'[e].job = executor[e].job
        /\ UNCHANGED job
    BY <2>1 DEF Leave, InRun, TypeOK, Executor
  <2>3. \A k \in Jobs : BeingRun(k)' = BeingRun(k)
    BY <1>a, <2>2 DEF BeingRun
  <2>4. QED  BY <1>1, <2>2, <2>3, PhasesStay
<1>8. CASE ExecEnd(e) \/ ExecRecord(e) \/ ExecExit(e)
  <2>1. /\ executor[e].pc \in {"end", "record", "exit"}
        /\ executor'[e].pc \in {"record", "exit", "idle"}
    BY <1>8 DEF ExecEnd, ExecRecord, ExecExit, InRun, NoRun, TypeOK, Executor
  <2>2. \A k \in Jobs : BeingRun(k)' = BeingRun(k)
    BY <1>a, <2>1 DEF BeingRun
  <2>3. \A k \in Jobs : job'[k].iscompleted = job[k].iscompleted
    <3>1. CASE ExecEnd(e)
      BY <3>1 DEF ExecEnd, TypeOK, Job
    <3>2. CASE ExecRecord(e)
      BY <3>2 DEF ExecRecord, TypeOK, Job
    <3>3. CASE ExecExit(e)
      BY <3>3 DEF ExecExit, TypeOK, Job
    <3>4. QED  BY <1>8, <3>1, <3>2, <3>3
  <2>4. QED  BY <1>1, <2>2, <2>3, PhasesStay
<1>9. QED
  BY <1>3, <1>4, <1>5, <1>6, <1>7, <1>8 DEF ExecutorNext

\* A step of the cleanup routine deletes a completed job or changes no phase.
LEMMA LifecycleCleaner ==
    ASSUME NoRestartById, IInv, OwnershipInv,
           CleanerNext \/ \E j \in Jobs : Age(j)
    PROVE  [Lifecycle!Next]_[j \in Jobs |-> JobPhase(j)]
<1> USE DEF IInv, OwnershipInv
<1>a. UNCHANGED <<client, executor, submitted>>
  BY DEF CleanerNext, CleanupWake, CleanupLock, CleanupLocked, CleanupCheck,
         CleanupDelete, CleanupUnlock, Age
<1>b. \A k \in Jobs : /\ NotYetListed(k)' = NotYetListed(k)
                      /\ BeingRun(k)' = BeingRun(k)
                      /\ job'[k].iscompleted = job[k].iscompleted
  <2>1. \A k \in Jobs : job'[k].iscompleted = job[k].iscompleted
    <3>1. CASE CleanerNext
      BY <3>1 DEF CleanerNext, CleanupWake, CleanupLock, CleanupLocked,
                  CleanupCheck, CleanupDelete, CleanupUnlock
    <3>2. ASSUME NEW j \in Jobs, Age(j)
          PROVE  \A k \in Jobs : job'[k].iscompleted = job[k].iscompleted
      BY <3>2 DEF Age, TypeOK, Job
    <3>3. QED  BY <3>1, <3>2
  <2>2. QED  BY <1>a, <2>1 DEF NotYetListed, Scheduling, BeingRun
<1>1. CASE globalJobsResults' = globalJobsResults
  <2>1. \A k \in Jobs : JobPhase(k)' = JobPhase(k)
    BY <1>1, <1>b, PhaseKept
  <2>2. QED  BY <2>1, PhasesStay
<1>2. CASE globalJobsResults' # globalJobsResults
  <2>1. CleanupDelete
    BY <1>2 DEF CleanerNext, CleanupWake, CleanupLock, CleanupLocked,
         CleanupCheck, CleanupUnlock, Age
  <2>2. PICK j \in Jobs : j = cleaner.job
    BY <2>1 DEF CleanupDelete, FlowInv
  <2>3. /\ globalJobsResults' = globalJobsResults \ {j}
        /\ j \in globalJobsResults
        /\ job[j].iscompleted
    BY <1>2, <2>1, <2>2 DEF CleanupDelete, DeleteInv
  <2>4. ~NotYetListed(j)
    BY <2>3 DEF SubmittedInv, NotYetListed, OwnerInv, WellOwned, WellListed
  <2>5. JobPhase(j) = "completed" /\ JobPhase(j)' = "deleted"
    BY <1>b, <2>3, <2>4 DEF JobPhase, Pending
  <2>6. \A k \in Jobs \ {j} : JobPhase(k)' = JobPhase(k)
    BY <1>b, <2>3, PhaseKept
  <2>7. Lifecycle!Move(j, "completed", "deleted")
    BY <2>5, <2>6, PhaseMoves
  <2>8. QED  BY <2>7 DEF Lifecycle!Next, Lifecycle!Delete
<1>3. QED  BY <1>1, <1>2

\* LifecycleIsImplemented: without restarts by id every step of the handlers, of
\* the monitor, of the executors and of the cleanup routine is a step of
\* JobLifecycle or none, for any number of each.
THEOREM LifecycleIsImplemented ==
    ASSUME NoRestartById
    PROVE  Spec => ImplementsLifecycle
<1>1. Init => Lifecycle!Init
  BY DEF Init, Lifecycle!Init, JobPhase, NotYetListed
<1>2. IInv /\ OwnershipInv /\ [Next]_vars =>
         [Lifecycle!Next]_[j \in Jobs |-> JobPhase(j)]
  <2>1. CASE UNCHANGED vars
    BY <2>1 DEF vars, JobPhase, BeingRun, NotYetListed, Scheduling, Pending
  <2>2. QED
    BY <2>1, LifecycleClient, LifecycleExecutor, LifecycleCleaner DEF Next
<1>3. Undisturbed
  BY DEF Undisturbed
<1>4. QED
  BY <1>1, <1>2, <1>3, Invariant, JobsHaveOneOwner, PTL
     DEF Spec, ImplementsLifecycle, Lifecycle!Spec

-----------------------------------------------------------------------------
(* Without restarts a job is run once *)

\* What a step of a client may do when no request restarts jobs: own a job that
\* was its own or is new, and enqueue a job that it owned.
LEMMA ClientWithoutRestarts ==
    ASSUME NoRestarts, TypeOK, FlowInv, SubmittedInv, NEW c \in Clients,
           ClientNext(c), NEW j \in submitted
    PROVE  /\ \A d \in Clients : ClientOwns(d, j)' => ClientOwns(d, j)
           /\ Queued(j)' => Queued(j) \/ ClientOwns(c, j)
           /\ job'[j].iscompleted = job[j].iscompleted
           /\ job'[j].issuccess = job[j].issuccess
           /\ job'[j].exitcode = job[j].exitcode
           /\ UNCHANGED executor
<1>a. client[c].req \notin {"restart", "restartall"}
  BY DEF NoRestarts, SubmittedInv
<1>b. ~At(c, "reset")
  BY <1>a DEF At, FlowInv, ClientFlow, Places, TypeOK, Client, RequestKinds
<1>c. j # NoJob /\ j \in Jobs
  BY JobsAssumption DEF TypeOK
<1>1. \A d \in Clients \ {c} : ClientOwns(d, j)' => ClientOwns(d, j)
  BY OtherClients DEF ClientOwns, Scheduling, Enqueueing
<1>2. ClientOwns(c, j)' => ClientOwns(c, j)
  <2>1. CASE ScheduleRequest(c)
    <3>1. PICK S \in SUBSET (Jobs \ submitted) :
             client' = [client EXCEPT ![c] = [req |-> "schedule",
                           pc |-> "next", todo |-> S, job |-> NoJob]]
      BY <2>1 DEF ScheduleRequest, Begin
    <3>2. QED  BY <1>c, <3>1 DEF ClientOwns, Scheduling, Enqueueing, TypeOK
  <2>2. CASE IdsRequest(c) \/ AllRequest(c)
    <3>1. PICK req, pc, ids :
             /\ client' = [client EXCEPT ![c] = [req |-> req, pc |-> pc,
                                                 todo |-> ids, job |-> NoJob]]
             /\ req # "schedule"
      BY <2>2 DEF IdsRequest, AllRequest, StopRequest, StatusRequest,
                  RestartRequest, FetchRequest, Begin
    <3>2. QED  BY <1>c, <3>1 DEF ClientOwns, Scheduling, Enqueueing, TypeOK
  <2>3. CASE NextJob(c)
    <3>1. PICK k \in client[c].todo :
             client' = [client EXCEPT ![c].pc = LoopBody[client[c].req],
                                      ![c].todo = @ \ {k}, ![c].job = k]
      BY <2>3 DEF NextJob
    <3>2. client[c].req \in RequestKinds
      BY <2>3 DEF NextJob, At, FlowInv, ClientFlow, Places, TypeOK, Client
    <3>3. /\ client'[c].pc # "enqueue"
          /\ client'[c].req = client[c].req
          /\ client'[c].todo = client[c].todo \ {k}
          /\ client'[c].job = k
      BY <3>1, <3>2 DEF TypeOK, Client, LoopBody, RequestKinds
    <3>4. QED  BY <3>3 DEF ClientOwns, Scheduling, Enqueueing
  <2>4. CASE RLockMap(c) \/ LockAll(c)
    <3>1. client[c].pc \in {"rlock", "lockall"}
      BY <2>4 DEF RLockMap, LockAll, At
    <3>2. client[c].req # "schedule"
      BY <3>1 DEF FlowInv, ClientFlow, Places
    <3>3. client'[c].req = client[c].req /\ client'[c].pc = "next"
      BY <2>4 DEF RLockMap, LockAll, TypeOK, Client
    <3>4. QED  BY <3>2, <3>3 DEF ClientOwns, Scheduling, Enqueueing
  <2>5. CASE EndRequest(c)
    <3>1. client'[c] = Idle
      BY <2>5 DEF EndRequest, TypeOK
    <3>2. QED  BY <3>1 DEF Idle, ClientOwns, Scheduling, Enqueueing
  <2>6. ASSUME NEW pc \in ClientPC, Goto(c, pc),
               pc \in {"lock", "register", "enqueue"}
                  => /\ client[c].pc \in {"lock", "register"}
                     /\ client[c].req = "schedule"
        PROVE  ClientOwns(c, j)' => ClientOwns(c, j)
    <3>1. /\ client'[c].pc = pc
          /\ client'[c].req = client[c].req
          /\ client'[c].todo = client[c].todo
          /\ client'[c].job \in {client[c].job, NoJob}
      BY <2>6, GotoEffect DEF TypeOK
    <3>2. QED
      BY <1>c, <2>6, <3>1 DEF ClientOwns, Scheduling, Enqueueing
  <2>7. CASE LockMap(c)
    <3>1. PICK pc \in {"lockall", "register", "reset"} :
             Goto(c, pc) /\ (pc = "register" => client[c].req = "schedule")
      BY <2>7 DEF LockMap
    <3>2. pc \in ClientPC /\ client[c].pc = "lock"
      BY <2>7 DEF ClientPC, LockMap, At
    <3>3. QED  BY <2>6, <3>1, <3>2
  <2>8. CASE Register(c)
    <3>1. client[c].pc = "register" /\ client[c].req = "schedule"
      BY <1>a, <2>8 DEF Register, At, FlowInv, ClientFlow, Places, TypeOK,
                        Client, RequestKinds
    <3>2. Goto(c, "enqueue") /\ "enqueue" \in ClientPC
      BY <2>8 DEF Register, ClientPC
    <3>3. QED  BY <2>6, <3>1, <3>2
  <2>9. CASE \/ Enqueue(c) \/ Lookup(c) \/ CheckUnknown(c) \/ CheckRunning(c)
             \/ CheckCompleted(c) \/ StopSend(c) \/ Fetch(c) \/ Status(c)
    <3>1. PICK pc \in {"next", "count", "check", "send"} : Goto(c, pc)
      BY <1>a, <2>9 DEF Enqueue, Lookup, CheckUnknown, CheckRunning,
                        CheckCompleted, StopSend, Fetch, Status
    <3>2. pc \in ClientPC
      BY DEF ClientPC
    <3>3. QED  BY <2>6, <3>1, <3>2
  <2>10. QED
    BY <1>b, <2>1, <2>2, <2>3, <2>4, <2>5, <2>7, <2>8, <2>9
       DEF ClientNext, Reset, ResetPanic
<1>3. Queued(j)' => Queued(j) \/ ClientOwns(c, j)
  <2>1. CASE Enqueue(c)
    <3>1. /\ globalJobsQueue \in Seq(Jobs)
          /\ globalJobsQueue' = Append(globalJobsQueue, client[c].job)
          /\ client[c].pc = "enqueue"
      BY <2>1 DEF Enqueue, At, TypeOK
    <3>2. CASE client[c].job = j
      BY <3>1, <3>2 DEF ClientOwns, Enqueueing
    <3>3. CASE client[c].job # j
      <4>1. \A i \in 1 .. Len(globalJobsQueue') : globalJobsQueue'[i] = j =>
               i \in 1 .. Len(globalJobsQueue) /\ globalJobsQueue[i] = j
        BY <3>1, <3>3
      <4>2. QED  BY <4>1 DEF Queued
    <3>4. QED  BY <3>2, <3>3
  <2>2. CASE ~Enqueue(c)
    <3>1. UNCHANGED globalJobsQueue
      BY <2>2 DEF ClientNext, ScheduleRequest, IdsRequest, AllRequest,
           RLockMap, LockMap, LockAll, NextJob, EndRequest, Register, Lookup,
           CheckUnknown, CheckRunning, CheckCompleted, StopSend, Reset,
           ResetPanic, Fetch, Status
    <3>2. QED  BY <3>1 DEF Queued
  <2>3. QED  BY <2>1, <2>2
<1>4. /\ job'[j].iscompleted = job[j].iscompleted
      /\ job'[j].issuccess = job[j].issuccess
      /\ job'[j].exitcode = job[j].exitcode
  <2>1. CASE Fetch(c)
    <3>1. /\ client[c].job \in Jobs
          /\ job' = [job EXCEPT ![client[c].job] = CountFetch(@)]
      BY <2>1, JobInHand DEF Fetch, At
    <3>2. /\ CountFetch(job[j]).iscompleted = job[j].iscompleted
          /\ CountFetch(job[j]).issuccess = job[j].issuccess
          /\ CountFetch(job[j]).exitcode = job[j].exitcode
      BY <1>c DEF CountFetch, TypeOK, Job
    <3>3. job'[j] \in {job[j], CountFetch(job[j])}
      BY <1>c, <3>1 DEF TypeOK
    <3>4. QED  BY <3>2, <3>3
  <2>2. CASE ~Fetch(c)
    <3>1. UNCHANGED job
      BY <1>b, <2>2 DEF ClientNext, ScheduleRequest, IdsRequest, AllRequest,
           RLockMap, LockMap, LockAll, NextJob, EndRequest, Register, Enqueue,
           Lookup, CheckUnknown, CheckRunning, CheckCompleted, StopSend, Reset,
           ResetPanic, Status
    <3>2. QED  BY <3>1
  <2>3. QED  BY <2>1, <2>2
<1>5. UNCHANGED executor
  BY DEF ClientNext, ScheduleRequest, IdsRequest, AllRequest, RLockMap,
     LockMap, LockAll, NextJob, EndRequest, Register, Enqueue, Lookup,
     CheckUnknown, CheckRunning, CheckCompleted, StopSend, Reset, ResetPanic,
     Fetch, Status
<1>6. QED  BY <1>1, <1>2, <1>3, <1>4, <1>5

\* A client disturbs neither the one run of a job nor its outcome.
LEMMA OneRunClient ==
    ASSUME NoRestarts, TypeOK, FlowInv, SubmittedInv, OneRunInv,
           OutcomeAgrees, NEW c \in Clients, ClientNext(c)
    PROVE  OneRunInv' /\ OutcomeAgrees'
<1>a. ~At(c, "reset")
  BY DEF NoRestarts, SubmittedInv, At, FlowInv, ClientFlow, Places, TypeOK,
         Client, RequestKinds
<1>1. ASSUME NEW j \in Jobs \ submitted
      PROVE  /\ job'[j] = job[j]
             /\ \A e \in Executors : executor'[e].job # j
  <2>1. /\ \A e \in Executors : executor[e].job # j
        /\ UNCHANGED executor
    BY JobsAssumption
       DEF SubmittedInv, ClientNext, ScheduleRequest, IdsRequest, AllRequest,
           RLockMap, LockMap, LockAll, NextJob, EndRequest, Register, Enqueue,
           Lookup, CheckUnknown, CheckRunning, CheckCompleted, StopSend, Reset,
           ResetPanic, Fetch, Status
  <2>2. job'[j] = job[j]
    <3>1. CASE Fetch(c)
      <4>1. client[c].job # j
        BY <3>1, JobInHand, JobsAssumption DEF Fetch, At, SubmittedInv
      <4>2. QED  BY <3>1, <4>1 DEF Fetch, TypeOK
    <3>2. CASE ~Fetch(c)
      BY <1>a, <3>2 DEF ClientNext, ScheduleRequest, IdsRequest, AllRequest,
           RLockMap, LockMap, LockAll, NextJob, EndRequest, Register, Enqueue,
           Lookup, CheckUnknown, CheckRunning, CheckCompleted, StopSend, Reset,
           ResetPanic, Status
    <3>3. QED  BY <3>1, <3>2
  <2>3. QED  BY <2>1, <2>2
<1>2. OutcomeAgrees'
  <2>1. ASSUME NEW j \in Jobs
        PROVE  /\ job'[j].iscompleted = job[j].iscompleted
               /\ job'[j].issuccess = job[j].issuccess
               /\ job'[j].exitcode = job[j].exitcode
    BY <1>1, ClientWithoutRestarts
  <2>2. QED  BY <2>1 DEF OutcomeAgrees, Pending
<1>3. OneRunInv'
  <2> SUFFICES ASSUME NEW j \in Jobs, NEW e \in Executors,
                      executor'[e].job = j
               PROVE  /\ ~Queued(j)'
                      /\ \A d \in Clients : ~ClientOwns(d, j)'
                      /\ \A f \in Executors : executor'[f].job = j => f = e
                      /\ RecordsOutcome(e, j)'
    BY DEF OneRunInv
  <2>1. j \in submitted
    BY <1>1
  <2>2. executor' = executor
    BY <2>1, ClientWithoutRestarts
  <2>3. /\ ~Queued(j)
        /\ \A d \in Clients : ~ClientOwns(d, j)
        /\ \A f \in Executors : executor[f].job = j => f = e
        /\ RecordsOutcome(e, j)
    BY <2>2 DEF OneRunInv
  <2>4. QED
    BY <2>1, <2>2, <2>3, ClientWithoutRestarts DEF RecordsOutcome, Pending, InRun
<1>4. QED  BY <1>2, <1>3

\* Nor does an executor: it is the only one that has the job, and records what
\* came of its run.
LEMMA OneRunExecutor ==
    ASSUME TypeOK, FlowInv, OwnerInv, OneRunInv, OutcomeAgrees,
           NEW e \in Executors, ExecutorNext(e)
    PROVE  OneRunInv' /\ OutcomeAgrees'
<1>a. /\ UNCHANGED client
      /\ \A f \in Executors \ {e} : executor'[f] = executor[f]
  BY DEF ExecutorNext, Pickup, ExecFail, ExecStart, ExecTimeout, ExecStop,
         ExecDone, Leave, ExecComplete, ExecEnd, ExecRecord, ExecExit, TypeOK
<1>b. \A j \in Jobs, c \in Clients : ClientOwns(c, j)' = ClientOwns(c, j)
  BY <1>a DEF ClientOwns, Scheduling, Enqueueing
<1>1. CASE Pickup(e)
  <2>1. /\ globalJobsQueue \in Seq(Jobs) /\ globalJobsQueue # <<>>
        /\ globalJobsQueue' = Tail(globalJobsQueue)
        /\ executor'[e].job = Head(globalJobsQueue)
        /\ executor'[e].pc = "start"
        /\ UNCHANGED job
    BY <1>1 DEF Pickup, InRun, TypeOK, NoRun
  <2>2. PICK j \in Jobs : j = Head(globalJobsQueue)
    BY <2>1
  <2>3. /\ 1 \in 1 .. Len(globalJobsQueue)
        /\ globalJobsQueue[1] = j
        /\ \A i \in 1 .. Len(globalJobsQueue') :
              /\ i + 1 \in 1 .. Len(globalJobsQueue)
              /\ i + 1 # 1
              /\ globalJobsQueue'[i] = globalJobsQueue[i + 1]
    BY <2>1, <2>2
  <2>4. Queued(j)
    BY <2>3 DEF Queued
  <2>5. /\ Pending(j)
        /\ \A c \in Clients : ~ClientOwns(c, j)
        /\ \A f \in Executors : executor[f].job # j
    BY <2>4 DEF OwnerInv, WellOwned, OneOwner, Owned, OneRunInv
  <2>6. ~Queued(j)'
    <3>1. ASSUME NEW i \in 1 .. Len(globalJobsQueue'),
                 globalJobsQueue'[i] = j
          PROVE  FALSE
      BY <2>3, <3>1 DEF OwnerInv, WellOwned, OneOwner
    <3>2. QED  BY <3>1 DEF Queued
  <2>7. RecordsOutcome(e, j)'
    BY <2>1, <2>5 DEF RecordsOutcome, OutcomeAgrees, Pending, InRun
  <2>8. OutcomeAgrees'
    BY <2>1 DEF OutcomeAgrees, Pending
  <2>9. OneRunInv'
    <3> SUFFICES ASSUME NEW k \in Jobs, NEW f \in Executors,
                        executor'[f].job = k
                 PROVE  /\ ~Queued(k)'
                        /\ \A c \in Clients : ~ClientOwns(c, k)'
                        /\ \A g \in Executors : executor'[g].job = k => g = f
                        /\ RecordsOutcome(f, k)'
      BY DEF OneRunInv
    <3>1. CASE k = j
      BY <1>a, <1>b, <2>1, <2>2, <2>5, <2>6, <2>7, <3>1
    <3>2. CASE k # j
      <4>1. f # e /\ executor[f].job = k
        BY <1>a, <2>1, <2>2, <3>2
      <4>2. /\ ~Queued(k)
            /\ \A c \in Clients : ~ClientOwns(c, k)
            /\ \A g \in Executors : executor[g].job = k => g = f
            /\ RecordsOutcome(f, k)
        BY <4>1 DEF OneRunInv
      <4>3. ~Queued(k)'
        BY <2>3, <4>2 DEF Queued
      <4>4. \A g \in Executors : executor'[g].job = k => g = f
        BY <1>a, <2>1, <2>2, <3>2, <4>2
      <4>5. RecordsOutcome(f, k)'
        BY <1>a, <2>1, <4>1, <4>2 DEF RecordsOutcome, Pending, InRun
      <4>6. QED  BY <1>b, <4>2, <4>3, <4>4, <4>5
    <3>3. QED  BY <3>1, <3>2
  <2>10. QED  BY <2>8, <2>9
<1>2. ASSUME NEW j \in Jobs, executor[e].job = j, UNCHANGED globalJobsQueue,
             executor'[e].job \in {j, NoJob},
             \A k \in Jobs \ {j} : job'[k] = job[k],
             ~job'[j].iscompleted => ~job'[j].issuccess /\ job'[j].exitcode = -1,
             job'[j].exitcode = 0 => job'[j].issuccess,
             job'[j].exitcode = 1 => ~job'[j].issuccess,
             executor'[e].job = j => RecordsOutcome(e, j)'
      PROVE  OneRunInv' /\ OutcomeAgrees'
  <2>1. OutcomeAgrees'
    BY <1>2 DEF OutcomeAgrees, Pending
  <2>2. ASSUME NEW k \in Jobs, NEW f \in Executors, executor'[f].job = k
        PROVE  /\ ~Queued(k)'
               /\ \A c \in Clients : ~ClientOwns(c, k)'
               /\ \A g \in Executors : executor'[g].job = k => g = f
               /\ RecordsOutcome(f, k)'
    <3>1. executor[f].job = k
      BY <1>2, <1>a, <2>2, JobsAssumption
    <3>2. /\ ~Queued(k)
          /\ \A c \in Clients : ~ClientOwns(c, k)
          /\ \A g \in Executors : executor[g].job = k => g = f
          /\ RecordsOutcome(f, k)
      BY <3>1 DEF OneRunInv
    <3>3. \A g \in Executors : executor'[g].job = k => g = f
      BY <1>2, <1>a, <3>2, JobsAssumption
    <3>4. RecordsOutcome(f, k)'
      <4>1. CASE f = e
        BY <1>2, <2>2, <3>1, <4>1
      <4>2. CASE f # e
        <5>1. k # j
          BY <1>2, <3>2, <4>2
        <5>2. QED  BY <1>2, <1>a, <3>2, <4>2, <5>1 DEF RecordsOutcome, Pending, InRun
      <4>3. QED  BY <4>1, <4>2
    <3>5. ~Queued(k)'
      BY <1>2, <3>2 DEF Queued
    <3>6. QED  BY <1>b, <3>2, <3>3, <3>4, <3>5
  <2>3. QED  BY <2>1, <2>2 DEF OneRunInv
<1>3. ASSUME ~InRun(e, "idle")
      PROVE  /\ executor[e].job \in Jobs
             /\ RecordsOutcome(e, executor[e].job)
  BY <1>3, JobInRun DEF InRun, OneRunInv
<1>4. ASSUME NEW j \in Jobs
      PROVE  /\ job[j] \in Job
             /\ ~job[j].iscompleted => ~job[j].issuccess /\ job[j].exitcode = -1
             /\ job[j].exitcode = 0 => job[j].issuccess
             /\ job[j].exitcode = 1 => ~job[j].issuccess
  BY DEF TypeOK, OutcomeAgrees, Pending
<1>5. CASE ExecStart(e) \/ ExecTimeout(e) \/ ExecStop(e) \/ ExecDone(e)
  <2>1. PICK j \in Jobs : executor[e].job = j /\ RecordsOutcome(e, j)
    BY <1>3, <1>5 DEF ExecStart, ExecTimeout, ExecStop, ExecDone, Leave, InRun
  <2>2. /\ executor[e].pc \in {"start", "select"}
        /\ executor'[e].pc \in {"select", "complete"}
        /\ executor'[e].job = j
    <3>1. CASE ExecStart(e)
      BY <2>1, <3>1 DEF ExecStart, InRun, TypeOK, Executor
    <3>2. CASE \E err, cause : Leave(e, err, cause)
      BY <2>1, <3>2 DEF Leave, InRun, TypeOK, Executor
    <3>3. QED  BY <1>5, <3>1, <3>2 DEF ExecTimeout, ExecStop, ExecDone
  <2>3. UNCHANGED <<job, globalJobsQueue>>
    BY <1>5 DEF ExecStart, ExecTimeout, ExecStop, ExecDone, Leave
  <2>4. RecordsOutcome(e, j)'
    BY <2>1, <2>2, <2>3 DEF RecordsOutcome, Pending, InRun
  <2>5. QED  BY <1>2, <1>4, <2>1, <2>2, <2>3, <2>4
<1>6. CASE ExecFail(e)
  <2>1. PICK j \in Jobs : executor[e].job = j /\ RecordsOutcome(e, j)
    BY <1>3, <1>6 DEF ExecFail, InRun
  <2>2. /\ executor[e].pc = "start"
        /\ executor'[e].job = NoJob
        /\ job' = [job EXCEPT ![j] = FailedInfos(@)]
        /\ UNCHANGED globalJobsQueue
    BY <1>6, <2>1 DEF ExecFail, InRun, NoRun, TypeOK, Executor
  <2>3. /\ FailedInfos(job[j]).iscompleted
        /\ ~FailedInfos(job[j]).issuccess
        /\ FailedInfos(job[j]).exitcode = job[j].exitcode
    BY <1>4 DEF FailedInfos, Job
  <2>4. job'[j] = FailedInfos(job[j]) /\ \A k \in Jobs \ {j} : job'[k] = job[k]
    BY <2>2 DEF TypeOK
  <2>5. job[j].exitcode = -1
    BY <2>1, <2>2 DEF RecordsOutcome
  <2>6. QED
    BY <1>2, <2>1, <2>2, <2>3, <2>4, <2>5, JobsAssumption
<1>7. CASE ExecComplete(e)
  <2>1. PICK j \in Jobs : executor[e].job = j /\ RecordsOutcome(e, j)
    BY <1>3, <1>7 DEF ExecComplete, InRun
  <2>2. /\ executor[e].pc = "complete" /\ executor'[e].pc = "end"
        /\ executor'[e].job = j
        /\ job' = [job EXCEPT ![j].iscompleted = TRUE]
        /\ UNCHANGED globalJobsQueue
    BY <1>7, <2>1 DEF ExecComplete, InRun, TypeOK, Executor
  <2>3. /\ job'[j].iscompleted
        /\ job'[j].issuccess = job[j].issuccess
        /\ job'[j].exitcode = job[j].exitcode
        /\ \A k \in Jobs \ {j} : job'[k] = job[k]
    BY <2>2, <1>4 DEF TypeOK, Job
  <2>4. ~job[j].issuccess /\ job[j].exitcode = -1
    BY <1>4, <2>1, <2>2 DEF RecordsOutcome, Pending, InRun
  <2>5. RecordsOutcome(e, j)'
    BY <2>2, <2>3, <2>4 DEF RecordsOutcome, Pending, InRun
  <2>6. QED  BY <1>2, <2>1, <2>2, <2>3, <2>4, <2>5
<1>8. CASE ExecEnd(e)
  <2>1. PICK j \in Jobs : executor[e].job = j /\ RecordsOutcome(e, j)
    BY <1>3, <1>8 DEF ExecEnd, InRun
  <2>2. /\ executor[e].pc = "end" /\ executor'[e].pc = "record"
        /\ executor'[e].job = j
        /\ job' = [job EXCEPT ![j].endtime = "recent"]
        /\ UNCHANGED globalJobsQueue
    BY <1>8, <2>1 DEF ExecEnd, InRun, TypeOK, Executor
  <2>3. /\ job'[j].iscompleted = job[j].iscompleted
        /\ job'[j].issuccess = job[j].issuccess
        /\ job'[j].exitcode = job[j].exitcode
        /\ \A k \in Jobs \ {j} : job'[k] = job[k]
    BY <2>2, <1>4 DEF TypeOK, Job
  <2>4. RecordsOutcome(e, j)'
    BY <2>1, <2>2, <2>3 DEF RecordsOutcome, Pending, InRun
  <2>5. QED  BY <1>2, <1>4, <2>1, <2>2, <2>3, <2>4
<1>9. CASE ExecRecord(e)
  <2>1. PICK j \in Jobs : executor[e].job = j /\ RecordsOutcome(e, j)
    BY <1>3, <1>9 DEF ExecRecord, InRun
  <2>2. /\ executor[e].pc = "record" /\ executor'[e].pc = "exit"
        /\ executor'[e].job = j
        /\ executor'[e].err = executor[e].err
        /\ job' = [job EXCEPT ![j].issuccess = (executor[e].err = "none")]
        /\ UNCHANGED globalJobsQueue
    BY <1>9, <2>1 DEF ExecRecord, InRun, TypeOK, Executor
  <2>3. /\ job'[j].iscompleted = job[j].iscompleted
        /\ job'[j].issuccess = (executor[e].err = "none")
        /\ job'[j].exitcode = job[j].exitcode
        /\ \A k \in Jobs \ {j} : job'[k] = job[k]
    BY <2>2, <1>4 DEF TypeOK, Job
  <2>4. job[j].iscompleted /\ job[j].exitcode = -1
    BY <2>1, <2>2 DEF RecordsOutcome, Pending, InRun
  <2>5. RecordsOutcome(e, j)'
    BY <2>2, <2>3, <2>4 DEF RecordsOutcome, Pending, InRun
  <2>6. QED  BY <1>2, <2>1, <2>2, <2>3, <2>4, <2>5
<1>10. CASE ExecExit(e)
  <2>1. PICK j \in Jobs : executor[e].job = j /\ RecordsOutcome(e, j)
    BY <1>3, <1>10 DEF ExecExit, InRun
  <2> DEFINE code == ExitCode(job[j], executor[e].err, executor[e].cause)
  <2>2. /\ executor[e].pc = "exit" /\ executor'[e].job = NoJob
        /\ job' = [job EXCEPT ![j].exitcode = code]
        /\ UNCHANGED globalJobsQueue
    BY <1>10, <2>1 DEF ExecExit, InRun, NoRun, TypeOK, Executor
  <2>3. /\ job[j].iscompleted /\ job[j].exitcode = -1
        /\ job[j].issuccess = (executor[e].err = "none")
    BY <2>1, <2>2 DEF RecordsOutcome, Pending, InRun
  <2>4. /\ code = 0 => executor[e].err = "none"
        /\ code = 1 => executor[e].err # "none"
    BY <2>3 DEF ExitCode
  <2> HIDE DEF code
  <2>5. /\ job'[j].iscompleted = job[j].iscompleted
        /\ job'[j].issuccess = job[j].issuccess
        /\ job'[j].exitcode = code
        /\ \A k \in Jobs \ {j} : job'[k] = job[k]
    BY <2>2, <1>4 DEF TypeOK, Job
  <2>6. QED
    BY <1>2, <2>1, <2>2, <2>3, <2>4, <2>5, JobsAssumption
<1>11. QED
  BY <1>1, <1>5, <1>6, <1>7, <1>8, <1>9, <1>10 DEF ExecutorNext

\* Nor do the cleanup routine and the passing of time.
LEMMA OneRunCleaner ==
    ASSUME TypeOK, OneRunInv, OutcomeAgrees,
           CleanerNext \/ \E k \in Jobs : Age(k)
    PROVE  OneRunInv' /\ OutcomeAgrees'
<1>1. UNCHANGED <<client, executor, globalJobsQueue>>
  BY DEF CleanerNext, CleanupWake, CleanupLock, CleanupLocked, CleanupCheck,
         CleanupDelete, CleanupUnlock, Age
<1>2. \A j \in Jobs : /\ job'[j].iscompleted = job[j].iscompleted
                      /\ job'[j].issuccess = job[j].issuccess
                      /\ job'[j].exitcode = job[j].exitcode
  <2>1. CASE CleanerNext
    BY <2>1 DEF CleanerNext, CleanupWake, CleanupLock, CleanupLocked,
                CleanupCheck, CleanupDelete, CleanupUnlock
  <2>2. ASSUME NEW k \in Jobs, Age(k), NEW j \in Jobs
        PROVE  /\ job'[j].iscompleted = job[j].iscompleted
               /\ job'[j].issuccess = job[j].issuccess
               /\ job'[j].exitcode = job[j].exitcode
    BY <2>2 DEF Age, TypeOK, Job
  <2>3. QED  BY <2>1, <2>2
<1>3. OutcomeAgrees'
  BY <1>2 DEF OutcomeAgrees, Pending
<1>4. OneRunInv'
  BY <1>1, <1>2 DEF OneRunInv, RecordsOutcome, Pending, InRun, Queued, ClientOwns,
       Scheduling, Enqueueing
<1>5. QED  BY <1>3, <1>4

\* A client that restarts no job leaves every outcome alone.
LEMMA OutcomeUndisturbed ==
    ASSUME NoRestarts, TypeOK, FlowInv, SubmittedInv, NEW c \in Clients,
           ClientNext(c), NEW j \in Jobs
    PROVE  /\ job'[j].issuccess = job[j].issuccess
           /\ job'[j].exitcode = job[j].exitcode
<1>1. ~At(c, "reset")
  BY DEF NoRestarts, SubmittedInv, At, FlowInv, ClientFlow, Places, TypeOK,
         Client, RequestKinds
<1>2. CASE Fetch(c)
  <2>1. job[j] \in Job
    BY DEF TypeOK
  <2>2. job'[j] \in {job[j], CountFetch(job[j])}
    BY <1>2 DEF Fetch, TypeOK
  <2>3. QED  BY <2>1, <2>2 DEF CountFetch, Job
<1>3. CASE ~Fetch(c)
  BY <1>1, <1>3 DEF ClientNext, ScheduleRequest, IdsRequest, AllRequest,
       RLockMap, LockMap, LockAll, NextJob, EndRequest, Register, Enqueue,
       Lookup, CheckUnknown, CheckRunning, CheckCompleted, StopSend, Reset,
       ResetPanic, Status
<1>4. QED  BY <1>2, <1>3

\* What an executor records is what came of its run: before it leaves its job,
\* flag and exit code are those of the error and the cause of the run's end, and
\* nobody else's step changes them.
LEMMA RunIsRecorded ==
    ASSUME NoRestarts, TypeOK, FlowInv, SubmittedInv, OneRunInv,
           OutcomeAgrees, Next
    PROVE  OutcomeIsRecorded
<1>1. ASSUME UNCHANGED executor,
             \A j \in Jobs : /\ job'[j].issuccess = job[j].issuccess
                            /\ job'[j].exitcode = job[j].exitcode
      PROVE  OutcomeIsRecorded
  BY <1>1 DEF OutcomeIsRecorded, Outcome
<1>2. CASE \E c \in Clients : ClientNext(c)
  <2>1. PICK c \in Clients : ClientNext(c)
    BY <1>2
  <2>2. UNCHANGED executor
    BY <2>1 DEF ClientNext, ScheduleRequest, IdsRequest, AllRequest, RLockMap,
         LockMap, LockAll, NextJob, EndRequest, Register, Enqueue, Lookup,
         CheckUnknown, CheckRunning, CheckCompleted, StopSend, Reset,
         ResetPanic, Fetch, Status
  <2>3. ASSUME NEW j \in Jobs
        PROVE  /\ job'[j].issuccess = job[j].issuccess
               /\ job'[j].exitcode = job[j].exitcode
    BY <2>1, OutcomeUndisturbed
  <2>4. QED  BY <1>1, <2>2, <2>3
<1>3. CASE CleanerNext
  BY <1>1, <1>3 DEF CleanerNext, CleanupWake, CleanupLock, CleanupLocked,
       CleanupCheck, CleanupDelete, CleanupUnlock
<1>4. ASSUME NEW k \in Jobs, Age(k)
      PROVE  OutcomeIsRecorded
  <2>1. ASSUME NEW j \in Jobs
        PROVE  /\ job'[j].issuccess = job[j].issuccess
               /\ job'[j].exitcode = job[j].exitcode
    BY <1>4 DEF Age, TypeOK, Job
  <2>2. QED  BY <1>1, <1>4, <2>1 DEF Age
<1>5. ASSUME NEW e \in Executors, ExecutorNext(e)
      PROVE  OutcomeIsRecorded
  <2>a. \A f \in Executors \ {e} : executor'[f] = executor[f]
    BY <1>5 DEF ExecutorNext, Pickup, ExecFail, ExecStart, ExecTimeout,
         ExecStop, ExecDone, Leave, ExecComplete, ExecEnd, ExecRecord,
         ExecExit, TypeOK
  <2>b. ASSUME NEW j \in Jobs
        PROVE  job[j] \in Job
    BY DEF TypeOK
  <2>1. CASE Pickup(e)
    <3>1. InRun(e, "idle") /\ UNCHANGED job
      BY <2>1 DEF Pickup
    <3>b. \A j \in Jobs : executor[e].job # j
      BY <3>1 DEF OneRunInv, RecordsOutcome
    <3>2. QED
      BY <2>a, <3>1, <3>b DEF OutcomeIsRecorded, Outcome
  <2>2. ASSUME ~InRun(e, "idle")
        PROVE  /\ executor[e].job \in Jobs
               /\ RecordsOutcome(e, executor[e].job)
    BY <2>2, JobInRun DEF InRun, OneRunInv
  <2>3. CASE ExecStart(e) \/ ExecTimeout(e) \/ ExecStop(e) \/ ExecDone(e)
    <3>1. executor'[e].job = executor[e].job /\ UNCHANGED job
      <4>1. CASE ExecStart(e)
        BY <4>1 DEF ExecStart, TypeOK, Executor
      <4>2. CASE \E err, cause : Leave(e, err, cause)
        BY <4>2 DEF Leave, TypeOK, Executor
      <4>3. QED  BY <2>3, <4>1, <4>2 DEF ExecTimeout, ExecStop, ExecDone
    <3>2. QED  BY <2>a, <3>1 DEF OutcomeIsRecorded, Outcome
  <2>4. ASSUME NEW j \in Jobs, executor[e].job = j,
               \A k \in Jobs \ {j} : job'[k] = job[k],
               executor'[e].job # j => Outcome(j)' = OutcomeOf(e),
               Outcome(j)' # Outcome(j)
                  => executor[e].pc \in {"record", "exit"}
        PROVE  OutcomeIsRecorded
    <3>1. ASSUME NEW f \in Executors, NEW k \in Jobs, executor[f].job = k,
                 executor'[f].job # k
          PROVE  Outcome(k)' = OutcomeOf(f)
      BY <2>a, <2>4, <3>1
    <3>2. ASSUME NEW k \in Jobs, Outcome(k)' # Outcome(k)
          PROVE  \E f \in Executors : /\ executor[f].job = k
                                      /\ executor[f].pc \in {"record", "exit"}
      <4>1. k = j
        BY <2>4, <3>2 DEF Outcome
      <4>2. QED  BY <2>4, <3>2, <4>1
    <3>3. QED  BY <3>1, <3>2 DEF OutcomeIsRecorded
  <2>5. CASE ExecFail(e)
    <3>1. PICK j \in Jobs : executor[e].job = j /\ RecordsOutcome(e, j)
      BY <2>2, <2>5 DEF ExecFail, InRun
    <3>2. /\ executor[e].pc = "start"
          /\ job' = [job EXCEPT ![j] = FailedInfos(@)]
      BY <2>5, <3>1 DEF ExecFail, InRun
    <3>3. /\ ~FailedInfos(job[j]).issuccess
          /\ FailedInfos(job[j]).exitcode = job[j].exitcode
      BY <2>b DEF FailedInfos, Job
    <3>4. /\ job'[j] = FailedInfos(job[j])
          /\ \A k \in Jobs \ {j} : job'[k] = job[k]
      BY <3>2 DEF TypeOK
    <3>5. job[j].exitcode = -1 /\ ~job[j].issuccess
      BY <3>1, <3>2 DEF RecordsOutcome, OutcomeAgrees
    <3>6. job[j].issuccess \in BOOLEAN /\ job'[j].issuccess \in BOOLEAN
      BY <2>b, <3>4 DEF FailedInfos, Job
    <3>7. Outcome(j) = <<FALSE, -1>> /\ Outcome(j)' = <<FALSE, -1>>
      BY <3>3, <3>4, <3>5, <3>6 DEF Outcome
    <3>8. QED  BY <2>4, <3>1, <3>2, <3>4, <3>7 DEF OutcomeOf
  <2>6. CASE ExecComplete(e) \/ ExecEnd(e)
    <3>1. PICK j \in Jobs : executor[e].job = j
      BY <2>2, <2>6 DEF ExecComplete, ExecEnd, InRun
    <3>2. executor'[e].job = j
      BY <2>6, <3>1 DEF ExecComplete, ExecEnd, TypeOK, Executor
    <3>3. /\ job'[j].issuccess = job[j].issuccess
          /\ job'[j].exitcode = job[j].exitcode
          /\ \A k \in Jobs \ {j} : job'[k] = job[k]
      <4>1. CASE ExecComplete(e)
        BY <2>b, <3>1, <4>1 DEF ExecComplete, TypeOK, Job
      <4>2. CASE ExecEnd(e)
        BY <2>b, <3>1, <4>2 DEF ExecEnd, TypeOK, Job
      <4>3. QED  BY <2>6, <4>1, <4>2
    <3>4. QED  BY <2>4, <3>1, <3>2, <3>3 DEF Outcome
  <2>7. CASE ExecRecord(e)
    <3>1. PICK j \in Jobs : executor[e].job = j
      BY <2>2, <2>7 DEF ExecRecord, InRun
    <3>2. executor'[e].job = j /\ executor[e].pc = "record"
      BY <2>7, <3>1 DEF ExecRecord, InRun, TypeOK, Executor
    <3>3. \A k \in Jobs \ {j} : job'[k] = job[k]
      BY <2>7, <3>1 DEF ExecRecord, TypeOK
    <3>4. QED  BY <2>4, <3>1, <3>2, <3>3
  <2>8. CASE ExecExit(e)
    <3>1. PICK j \in Jobs : executor[e].job = j /\ RecordsOutcome(e, j)
      BY <2>2, <2>8 DEF ExecExit, InRun
    <3> DEFINE code == ExitCode(job[j], executor[e].err, executor[e].cause)
    <3>2. /\ executor[e].pc = "exit"
          /\ job' = [job EXCEPT ![j].exitcode = code]
      BY <2>8, <3>1 DEF ExecExit, InRun
    <3>3. /\ job[j].exitcode = -1
          /\ job[j].issuccess = (executor[e].err = "none")
      BY <3>1, <3>2 DEF RecordsOutcome
    <3>4. code = CASE executor[e].err = "exit" -> 1
                   [] executor[e].err = "none" /\ executor[e].cause # "stop"
                        -> 0
                   [] OTHER -> -1
      BY <3>3 DEF ExitCode
    <3> HIDE DEF code
    <3>5. /\ job'[j].issuccess = job[j].issuccess
          /\ job'[j].exitcode = code
          /\ \A k \in Jobs \ {j} : job'[k] = job[k]
      BY <2>b, <3>2 DEF TypeOK, Job
    <3>6. Outcome(j)' = OutcomeOf(e)
      BY <3>2, <3>3, <3>4, <3>5 DEF Outcome, OutcomeOf
    <3>7. QED  BY <2>4, <3>1, <3>2, <3>5, <3>6
  <2>9. QED
    BY <1>5, <2>1, <2>3, <2>5, <2>6, <2>7, <2>8 DEF ExecutorNext
<1>6. QED  BY <1>2, <1>3, <1>4, <1>5 DEF Next

\* OutcomeIsOfOneRun: without restarts the outcome of a job is that of its one
\* run: none before it, consistent at every moment although several locked
\* sections write it, what the end of the run says when its executor leaves, and
\* unchanged ever after.
THEOREM OutcomeIsOfOneRun ==
    ASSUME NoRestarts
    PROVE  Spec => OutcomeOfOneRun
<1>1. Undisturbed
  BY DEF NoRestarts, NoRestartById, Undisturbed
<1>2. Init => OneRunInv /\ OutcomeAgrees
  BY JobsAssumption
     DEF Init, OneRunInv, OutcomeAgrees, Pending, NewJob, NoRun
<1>3. IInv /\ OwnershipInv /\ OneRunInv /\ OutcomeAgrees /\ [Next]_vars
         => OneRunInv' /\ OutcomeAgrees'
  <2>1. CASE UNCHANGED vars
    BY <2>1 DEF vars, OneRunInv, RecordsOutcome, InRun, OutcomeAgrees,
         Pending,         Queued, ClientOwns, Scheduling, Enqueueing
  <2>2. QED
    BY <2>1, OneRunClient, OneRunExecutor, OneRunCleaner
       DEF Next, IInv, OwnershipInv
<1>4. IInv /\ OwnershipInv /\ OneRunInv /\ OutcomeAgrees /\ [Next]_vars
         => [OutcomeAgrees' /\ OutcomeIsRecorded]_vars
  BY <1>3, RunIsRecorded DEF IInv, OwnershipInv
<1>5. QED
  BY <1>1, <1>2, <1>3, <1>4, Invariant, JobsHaveOneOwner, PTL
     DEF Spec, OutcomeOfOneRun

=============================================================================
