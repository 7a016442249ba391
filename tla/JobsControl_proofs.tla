------------------------- MODULE JobsControl_proofs -------------------------
(***************************************************************************)
(* Machine-checked proofs about JobsControl, for any sets of jobs, clients  *)
(* and executors, any queue capacity and fetch limit, and every mix of      *)
(* requests.                                                                *)
(***************************************************************************)
EXTENDS JobsControlInv, TLAPS

-----------------------------------------------------------------------------
(* Types are kept by the helpers the actions are made of *)

\* The operations of the lock of the map yield locks.
LEMMA LockOps ==
    ASSUME NEW P, NEW m \in RWMutexType(P), NEW p \in P
    PROVE  /\ Announce(m, p) \in RWMutexType(P)
           /\ Unlock(m) \in RWMutexType(P)
           /\ RLock(m, p) \in RWMutexType(P)
           /\ RUnlock(m, p) \in RWMutexType(P)
  BY DEF RWMutexType, Announce, Unlock, RLock, RUnlock

\* What the code does to the fields of a job yields fields of a job.
LEMMA FieldOps ==
    ASSUME NEW f \in Job
    PROVE  /\ ResetInfos(f) \in Job
           /\ FailedInfos(f) \in Job
           /\ CountFetch(f) \in Job
           /\ [f EXCEPT !.iscompleted = TRUE] \in Job
           /\ [f EXCEPT !.endtime = "recent"] \in Job
           /\ [f EXCEPT !.endtime = "old"] \in Job
           /\ \A b \in BOOLEAN : [f EXCEPT !.issuccess = b] \in Job
           /\ \A i \in -1 .. 1 : [f EXCEPT !.exitcode = i] \in Job
<1>1. ResetInfos(f) \in Job
  <2>1. 0 \in 0 .. JobsCleanupMaxFetch + 1 /\ -1 \in -1 .. 1
    BY FetchAssumption
  <2>2. QED  BY ONLY <2>1, f \in Job DEF Job, ResetInfos
<1>2. FailedInfos(f) \in Job  BY DEF Job, FailedInfos
<1>3. CountFetch(f) \in Job
  <2>1. f.fetchcount \in 0 .. JobsCleanupMaxFetch + 1
    BY DEF Job
  <2>2. (IF f.fetchcount > JobsCleanupMaxFetch THEN f.fetchcount
                                              ELSE f.fetchcount + 1)
           \in 0 .. JobsCleanupMaxFetch + 1
    BY <2>1, FetchAssumption
  <2>3. QED  BY <2>2 DEF Job, CountFetch
<1>4. /\ [f EXCEPT !.iscompleted = TRUE] \in Job
      /\ [f EXCEPT !.endtime = "recent"] \in Job
      /\ [f EXCEPT !.endtime = "old"] \in Job
      /\ \A b \in BOOLEAN : [f EXCEPT !.issuccess = b] \in Job
      /\ \A i \in -1 .. 1 : [f EXCEPT !.exitcode = i] \in Job
  BY DEF Job
<1>5. QED  BY <1>1, <1>2, <1>3, <1>4

\* The exit code a run leaves is an exit code.
LEMMA ExitCodeType ==
    ASSUME NEW f \in Job, NEW err, NEW cause
    PROVE  ExitCode(f, err, cause) \in -1 .. 1
  BY DEF Job, ExitCode

\* Goto changes the place and at most the job of one request.
LEMMA GotoEffect ==
    ASSUME client \in [Clients -> Client], NEW c \in Clients,
           NEW pc \in ClientPC, Goto(c, pc)
    PROVE  /\ client' \in [Clients -> Client]
           /\ \A d \in Clients \ {c} : client'[d] = client[d]
           /\ client'[c].pc = pc
           /\ client'[c].req = client[c].req
           /\ client'[c].todo = client[c].todo
           /\ client'[c].job = IF pc = "next" THEN NoJob ELSE client[c].job
<1>1. client' \in [Clients -> Client]
  BY DEF Goto, Client
<1>2. QED  BY <1>1 DEF Goto, Client

\* Begin gives an idle client a request.
LEMMA BeginEffect ==
    ASSUME client \in [Clients -> Client], NEW c \in Clients,
           NEW req, NEW pc \in ClientPC, NEW ids \in SUBSET Jobs,
           Begin(c, req, pc, ids)
    PROVE  /\ client' \in [Clients -> Client]
           /\ \A d \in Clients \ {c} : client'[d] = client[d]
           /\ client'[c] = [req |-> req, pc |-> pc, todo |-> ids, job |-> NoJob]
           /\ req \in RequestKinds
  BY RequestsAssumption DEF Begin, Client

\* Outside the head of its loop a handler has a job in hand.
LEMMA JobInHand ==
    ASSUME TypeOK, FlowInv, NEW c \in Clients,
           \/ client[c].pc \in {"register", "reset", "enqueue", "lookup",
                                "check", "send", "count", "report"}
           \/ client[c].pc = "lock" /\ client[c].req # "restartall"
    PROVE  client[c].job \in Jobs
  BY DEF TypeOK, FlowInv, ClientFlow, Client

\* An executor that is not idle has a job.
LEMMA JobInRun ==
    ASSUME TypeOK, FlowInv, NEW e \in Executors, executor[e].pc # "idle"
    PROVE  executor[e].job \in Jobs
  BY DEF TypeOK, FlowInv, Executor

-----------------------------------------------------------------------------
(* Type correctness *)

\* The initial state is well-typed.
LEMMA TypeInit == Init => TypeOK
  BY ProcessesAssumption, QueueAssumption, FetchAssumption
     DEF Init, TypeOK, RWMutexType, Unlocked, NewJob, Job, Idle, Client,
         ClientPC, NoRun, Executor, Errors, Causes, CleanerState

\* Every step of a client keeps the types.
LEMMA TypeClient ==
    ASSUME TypeOK, FlowInv, NEW c \in Clients, ClientNext(c)
    PROVE  TypeOK'
<1>1. CASE ScheduleRequest(c)
  <2>1. PICK S \in SUBSET (Jobs \ submitted) :
           Begin(c, "schedule", "next", S) /\ submitted' = submitted \cup S
    BY <1>1 DEF ScheduleRequest
  <2>2. "next" \in ClientPC /\ S \in SUBSET Jobs
    BY DEF ClientPC
  <2>3. client' \in [Clients -> Client]
    BY <2>1, <2>2, BeginEffect DEF TypeOK
  <2>4. QED  BY <1>1, <2>1, <2>3 DEF ScheduleRequest, TypeOK
<1>2. CASE IdsRequest(c)
  <2>1. PICK S \in SUBSET submitted, req \in RequestKinds, pc \in ClientPC :
           Begin(c, req, pc, S)
    BY <1>2 DEF IdsRequest, StopRequest, StatusRequest, RestartRequest,
                FetchRequest, RequestKinds, ClientPC
  <2>2. S \in SUBSET Jobs
    BY DEF TypeOK
  <2>3. client' \in [Clients -> Client]
    BY <2>1, <2>2, BeginEffect DEF TypeOK
  <2>4. QED  BY <1>2, <2>3 DEF IdsRequest, TypeOK
<1>3. CASE AllRequest(c)
  <2>1. PICK req \in RequestKinds, pc \in ClientPC : Begin(c, req, pc, {})
    BY <1>3 DEF AllRequest, RequestKinds, ClientPC
  <2>2. {} \in SUBSET Jobs
    OBVIOUS
  <2>3. client' \in [Clients -> Client]
    BY <2>1, <2>2, BeginEffect DEF TypeOK
  <2>4. QED  BY <1>3, <2>3 DEF AllRequest, TypeOK
<1>4. CASE RLockMap(c)
  <2>1. PICK ids \in SUBSET Jobs :
           client' = [client EXCEPT ![c].pc = "next", ![c].todo = ids]
    BY <1>4 DEF RLockMap, TypeOK, Client
  <2>2. "next" \in ClientPC
    BY DEF ClientPC
  <2>3. client' \in [Clients -> Client]
    BY <2>1, <2>2 DEF TypeOK, Client
  <2>4. QED  BY <1>4, <2>3, LockOps DEF RLockMap, TypeOK
<1>5. CASE LockMap(c)
  <2>1. \E pc \in ClientPC : Goto(c, pc)
    BY <1>5 DEF LockMap, ClientPC
  <2>2. client' \in [Clients -> Client]
    BY <2>1, GotoEffect DEF TypeOK
  <2>3. QED  BY <1>5, <2>2, LockOps DEF LockMap, TypeOK
<1>6. CASE LockAll(c)
  <2>1. PICK ids \in SUBSET Jobs :
           client' = [client EXCEPT ![c].pc = "next", ![c].todo = ids]
    BY <1>6 DEF LockAll, TypeOK
  <2>2. "next" \in ClientPC
    BY DEF ClientPC
  <2>3. client' \in [Clients -> Client]
    BY <2>1, <2>2 DEF TypeOK, Client
  <2>4. QED  BY <1>6, <2>3 DEF LockAll, TypeOK
<1>7. CASE NextJob(c)
  <2>1. PICK j \in client[c].todo :
           client' = [client EXCEPT ![c].pc = LoopBody[client[c].req],
                                    ![c].todo = @ \ {j}, ![c].job = j]
    BY <1>7 DEF NextJob
  <2>2. client[c].req \in RequestKinds
    BY <1>7 DEF NextJob, At, FlowInv, ClientFlow, Places, TypeOK, Client
  <2>3. LoopBody[client[c].req] \in ClientPC
    BY <2>2 DEF LoopBody, RequestKinds, ClientPC
  <2>4. client' \in [Clients -> Client]
    BY <2>1, <2>3 DEF TypeOK, Client
  <2>5. QED  BY <1>7, <2>4 DEF NextJob, TypeOK
<1>8. CASE EndRequest(c)
  <2>1. Idle \in Client
    BY DEF Idle, Client, ClientPC
  <2>2. client' \in [Clients -> Client]
    BY <1>8, <2>1 DEF EndRequest, TypeOK
  <2>3. mapLock' \in RWMutexType(Clients \cup {Cleaner})
    BY <1>8, LockOps DEF EndRequest, TypeOK
  <2>4. QED  BY <1>8, <2>2, <2>3 DEF EndRequest, TypeOK
<1>9. CASE Register(c)
  <2>1. \E pc \in ClientPC : Goto(c, pc)
    BY <1>9 DEF Register, ClientPC
  <2>2. client' \in [Clients -> Client]
    BY <2>1, GotoEffect DEF TypeOK
  <2>3. client[c].job \in Jobs
    BY <1>9, JobInHand DEF Register, At
  <2>4. QED  BY <1>9, <2>2, <2>3, LockOps DEF Register, TypeOK
<1>10. CASE Enqueue(c)
  <2>1. \E pc \in ClientPC : Goto(c, pc)
    BY <1>10 DEF Enqueue, ClientPC
  <2>2. client' \in [Clients -> Client]
    BY <2>1, GotoEffect DEF TypeOK
  <2>3. client[c].job \in Jobs
    BY <1>10, JobInHand DEF Enqueue, At
  <2>4. globalJobsQueue' \in Seq(Jobs) /\ Len(globalJobsQueue') <= MaxJobsQueueBuffer
    BY <1>10, <2>3, QueueAssumption DEF Enqueue, TypeOK
  <2>5. QED  BY <1>10, <2>2, <2>3, <2>4 DEF Enqueue, TypeOK
<1>11. CASE Lookup(c)
  <2>1. \E pc \in ClientPC : Goto(c, pc)
    BY <1>11 DEF Lookup, ClientPC
  <2>2. client' \in [Clients -> Client]
    BY <2>1, GotoEffect DEF TypeOK
  <2>3. QED  BY <1>11, <2>2 DEF Lookup, TypeOK
<1>12. CASE CheckUnknown(c)
  <2>1. \E pc \in ClientPC : Goto(c, pc)
    BY <1>12 DEF CheckUnknown, ClientPC
  <2>2. client' \in [Clients -> Client]
    BY <2>1, GotoEffect DEF TypeOK
  <2>3. QED  BY <1>12, <2>2 DEF CheckUnknown, TypeOK
<1>13. CASE CheckRunning(c)
  <2>1. \E pc \in ClientPC : Goto(c, pc)
    BY <1>13 DEF CheckRunning, ClientPC
  <2>2. client' \in [Clients -> Client]
    BY <2>1, GotoEffect DEF TypeOK
  <2>3. QED  BY <1>13, <2>2 DEF CheckRunning, TypeOK
<1>14. CASE CheckCompleted(c)
  <2>1. \E pc \in ClientPC : Goto(c, pc)
    BY <1>14 DEF CheckCompleted, ClientPC
  <2>2. client' \in [Clients -> Client]
    BY <2>1, GotoEffect DEF TypeOK
  <2>3. QED  BY <1>14, <2>2 DEF CheckCompleted, TypeOK
<1>15. CASE StopSend(c)
  <2>1. \E pc \in ClientPC : Goto(c, pc)
    BY <1>15 DEF StopSend, ClientPC
  <2>2. client' \in [Clients -> Client]
    BY <2>1, GotoEffect DEF TypeOK
  <2>3. QED  BY <1>15, <2>2 DEF StopSend, TypeOK
<1>16. CASE Reset(c)
  <2>1. \E pc \in ClientPC : Goto(c, pc)
    BY <1>16 DEF Reset, ClientPC
  <2>2. client' \in [Clients -> Client]
    BY <2>1, GotoEffect DEF TypeOK
  <2>3. client[c].job \in Jobs
    BY <1>16, JobInHand DEF Reset, At
  <2>4. job' \in [Jobs -> Job]
    BY <1>16, <2>3, FieldOps DEF Reset, TypeOK
  <2>5. mapLock' \in RWMutexType(Clients \cup {Cleaner})
    BY <1>16, LockOps DEF Reset, TypeOK
  <2>6. QED  BY <1>16, <2>2, <2>3, <2>4, <2>5 DEF Reset, TypeOK
<1>17. CASE ResetPanic(c)
  <2>1. \E pc \in ClientPC : Goto(c, pc)
    BY <1>17 DEF ResetPanic, ClientPC
  <2>2. client' \in [Clients -> Client]
    BY <2>1, GotoEffect DEF TypeOK
  <2>3. client[c].job \in Jobs
    BY <1>17, JobInHand DEF ResetPanic, At
  <2>4. job' \in [Jobs -> Job]
    BY <1>17, <2>3, FieldOps DEF ResetPanic, TypeOK
  <2>5. QED  BY <1>17, <2>2, <2>3, <2>4 DEF ResetPanic, TypeOK
<1>18. CASE Fetch(c)
  <2>1. \E pc \in ClientPC : Goto(c, pc)
    BY <1>18 DEF Fetch, ClientPC
  <2>2. client' \in [Clients -> Client]
    BY <2>1, GotoEffect DEF TypeOK
  <2>3. client[c].job \in Jobs
    BY <1>18, JobInHand DEF Fetch, At
  <2>4. job' \in [Jobs -> Job]
    BY <1>18, <2>3, FieldOps DEF Fetch, TypeOK
  <2>5. QED  BY <1>18, <2>2, <2>3, <2>4 DEF Fetch, TypeOK
<1>19. CASE Status(c)
  <2>1. \E pc \in ClientPC : Goto(c, pc)
    BY <1>19 DEF Status, ClientPC
  <2>2. client' \in [Clients -> Client]
    BY <2>1, GotoEffect DEF TypeOK
  <2>3. QED  BY <1>19, <2>2 DEF Status, TypeOK
<1>20. QED  BY <1>1, <1>2, <1>3, <1>4, <1>5, <1>6, <1>7, <1>8, <1>9, <1>10, <1>11, <1>12, <1>13, <1>14, <1>15, <1>16, <1>17, <1>18, <1>19 DEF ClientNext

\* Every step of an executor keeps the types.
LEMMA TypeExecutor ==
    ASSUME TypeOK, FlowInv, NEW e \in Executors, ExecutorNext(e)
    PROVE  TypeOK'
<1>1. NoRun \in Executor
  BY DEF NoRun, Executor, Errors, Causes
<1>2. CASE Pickup(e)
  <2>1. globalJobsQueue # <<>> /\ globalJobsQueue \in Seq(Jobs)
    BY <1>2 DEF Pickup, TypeOK
  <2>2. /\ Head(globalJobsQueue) \in Jobs
        /\ Tail(globalJobsQueue) \in Seq(Jobs)
        /\ Len(Tail(globalJobsQueue)) = Len(globalJobsQueue) - 1
    BY <2>1
  <2>3. [NoRun EXCEPT !.pc = "start", !.job = Head(globalJobsQueue)] \in Executor
    BY <1>1, <2>2 DEF Executor
  <2>4. executor' \in [Executors -> Executor]
    BY <1>2, <2>3 DEF Pickup, TypeOK
  <2>5. Len(globalJobsQueue') <= MaxJobsQueueBuffer
    BY <1>2, <2>1, <2>2, QueueAssumption DEF Pickup, TypeOK
  <2>6. QED  BY <1>2, <2>2, <2>4, <2>5 DEF Pickup, TypeOK
<1>3. ASSUME ~InRun(e, "idle")
      PROVE  executor[e].job \in Jobs
  BY <1>3, JobInRun DEF InRun
<1>4. CASE ExecFail(e)
  <2>1. job' \in [Jobs -> Job]
    BY <1>3, <1>4, FieldOps DEF ExecFail, InRun, TypeOK
  <2>2. QED  BY <1>1, <1>4, <2>1 DEF ExecFail, TypeOK
<1>5. CASE ExecStart(e)
  BY <1>5 DEF ExecStart, TypeOK, Executor
<1>6. ASSUME NEW err \in Errors, NEW cause \in Causes, Leave(e, err, cause)
      PROVE  executor' \in [Executors -> Executor]
  <2>1. /\ executor \in [Executors -> Executor]
        /\ executor' = [executor EXCEPT ![e].pc = "complete", ![e].err = err,
                                        ![e].cause = cause]
    BY <1>6 DEF Leave, TypeOK
  <2>2. QED  BY <2>1 DEF Executor
<1>7. "none" \in Errors /\ "timeout" \in Causes /\ "stop" \in Causes
         /\ "done" \in Causes
  BY DEF Errors, Causes
<1>8. CASE ExecTimeout(e)
  <2>1. executor' \in [Executors -> Executor]
    BY <1>6, <1>7, <1>8 DEF ExecTimeout
  <2>2. QED  BY <1>8, <2>1 DEF ExecTimeout, Leave, TypeOK
<1>9. CASE ExecStop(e)
  <2>1. executor' \in [Executors -> Executor]
    BY <1>6, <1>7, <1>9 DEF ExecStop
  <2>2. QED  BY <1>9, <2>1 DEF ExecStop, Leave, TypeOK
<1>10. CASE ExecDone(e)
  <2>1. executor' \in [Executors -> Executor]
    BY <1>6, <1>7, <1>10, OutcomesAssumption DEF ExecDone
  <2>2. QED  BY <1>10, <2>1 DEF ExecDone, Leave, TypeOK
<1>11. CASE ExecComplete(e)
  <2>1. job' \in [Jobs -> Job]
    BY <1>3, <1>11, FieldOps DEF ExecComplete, InRun, TypeOK
  <2>2. executor' \in [Executors -> Executor]
    BY <1>11 DEF ExecComplete, TypeOK, Executor
  <2>3. QED  BY <1>11, <2>1, <2>2 DEF ExecComplete, TypeOK
<1>12. CASE ExecEnd(e)
  <2>1. job' \in [Jobs -> Job]
    BY <1>3, <1>12, FieldOps DEF ExecEnd, InRun, TypeOK
  <2>2. executor' \in [Executors -> Executor]
    BY <1>12 DEF ExecEnd, TypeOK, Executor
  <2>3. QED  BY <1>12, <2>1, <2>2 DEF ExecEnd, TypeOK
<1>13. CASE ExecRecord(e)
  <2>1. job' \in [Jobs -> Job]
    BY <1>3, <1>13, FieldOps DEF ExecRecord, InRun, TypeOK
  <2>2. executor' \in [Executors -> Executor]
    BY <1>13 DEF ExecRecord, TypeOK, Executor
  <2>3. QED  BY <1>13, <2>1, <2>2 DEF ExecRecord, TypeOK
<1>14. CASE ExecExit(e)
  <2>1. job' \in [Jobs -> Job]
    BY <1>3, <1>14, FieldOps, ExitCodeType DEF ExecExit, InRun, TypeOK
  <2>2. QED  BY <1>1, <1>14, <2>1 DEF ExecExit, TypeOK
<1>15. QED
  BY <1>2, <1>4, <1>5, <1>8, <1>9, <1>10, <1>11, <1>12, <1>13, <1>14
     DEF ExecutorNext

\* Every step of the cleanup routine keeps the types, and so does time.
LEMMA TypeCleaner ==
    ASSUME TypeOK, FlowInv, CleanerNext \/ \E j \in Jobs : Age(j)
    PROVE  TypeOK'
<1>1. ASSUME NEW pc \in {"idle", "lock", "locked", "scan", "delete"},
             CleanerGoto(pc)
      PROVE  cleaner' \in CleanerState
  BY <1>1 DEF CleanerGoto, TypeOK, CleanerState
<1>2. CASE CleanupWake
  BY <1>1, <1>2 DEF CleanupWake, TypeOK
<1>3. CASE CleanupLock
  BY <1>1, <1>3, LockOps DEF CleanupLock, TypeOK
<1>4. CASE CleanupLocked
  BY <1>4 DEF CleanupLocked, TypeOK, CleanerState
<1>5. CASE CleanupCheck
  <2>1. cleaner' \in CleanerState
    BY <1>5 DEF CleanupCheck, TypeOK, CleanerState
  <2>2. QED  BY <1>5, <2>1 DEF CleanupCheck, TypeOK
<1>6. CASE CleanupDelete
  BY <1>6 DEF CleanupDelete, TypeOK, CleanerState
<1>7. CASE CleanupUnlock
  BY <1>1, <1>7, LockOps DEF CleanupUnlock, TypeOK
<1>8. ASSUME NEW j \in Jobs, Age(j)
      PROVE  TypeOK'
  BY <1>8, FieldOps DEF Age, TypeOK
<1>9. QED
  BY <1>2, <1>3, <1>4, <1>5, <1>6, <1>7, <1>8 DEF CleanerNext


-----------------------------------------------------------------------------
(* The flow of the handlers *)

\* Initially nobody has anything in hand.
LEMMA FlowInit == Init => FlowInv
  BY DEF Init, FlowInv, ClientFlow, Places, Idle, NoRun

\* A handler that goes to a place of its own code, and only with a job in hand
\* to a place that needs one, keeps the flow.
LEMMA FlowGoto ==
    ASSUME TypeOK, FlowInv, NEW c \in Clients, NEW pc \in ClientPC,
           Goto(c, pc), pc \in Places(client[c].req),
           pc \in {"next", "lockall"} \/ client[c].job # NoJob,
           UNCHANGED <<executor, cleaner>>
    PROVE  FlowInv'
<1>1. \A d \in Clients \ {c} : ClientFlow(d)'
  BY GotoEffect DEF TypeOK, FlowInv, ClientFlow
<1>2. ClientFlow(c)'
  BY GotoEffect DEF TypeOK, FlowInv, ClientFlow
<1>3. QED  BY <1>1, <1>2 DEF FlowInv

\* So does a request that begins or ends.
LEMMA FlowSet ==
    ASSUME TypeOK, FlowInv, NEW c \in Clients, NEW req, NEW pc, NEW ids,
           client' = [client EXCEPT ![c] = [req |-> req, pc |-> pc,
                                            todo |-> ids, job |-> NoJob]],
           pc \in Places(req),
           \/ pc \in {"idle", "rlock", "next"}
           \/ pc = "lock" /\ req = "restartall",
           UNCHANGED <<executor, cleaner>>
    PROVE  FlowInv'
<1>1. \A d \in Clients \ {c} : client'[d] = client[d]
  BY DEF TypeOK
<1>2. /\ client'[c].req = req
      /\ client'[c].pc = pc
  BY DEF TypeOK
<1>3. \A d \in Clients : ClientFlow(d)'
  BY <1>1, <1>2 DEF FlowInv, ClientFlow
<1>4. QED  BY <1>3 DEF FlowInv

\* Every step of a client keeps the flow.
LEMMA FlowClient ==
    ASSUME TypeOK, FlowInv, NEW c \in Clients, ClientNext(c)
    PROVE  FlowInv'
<1>1. CASE ScheduleRequest(c)
  <2>1. PICK S : client' = [client EXCEPT ![c] = [req |-> "schedule",
                              pc |-> "next", todo |-> S, job |-> NoJob]]
    BY <1>1 DEF ScheduleRequest, Begin
  <2>2. "next" \in Places("schedule") /\ UNCHANGED <<executor, cleaner>>
    BY <1>1 DEF ScheduleRequest, Places
  <2>3. QED  BY <2>1, <2>2, FlowSet
<1>2. CASE IdsRequest(c)
  <2>1. PICK req, pc, S :
           /\ client' = [client EXCEPT ![c] = [req |-> req, pc |-> pc,
                                               todo |-> S, job |-> NoJob]]
           /\ pc \in {"rlock", "next"} /\ pc \in Places(req)
    BY <1>2 DEF IdsRequest, StopRequest, StatusRequest, RestartRequest,
                FetchRequest, Begin, Places
  <2>2. UNCHANGED <<executor, cleaner>>
    BY <1>2 DEF IdsRequest
  <2>3. QED  BY <2>1, <2>2, FlowSet
<1>3. CASE AllRequest(c)
  <2>1. PICK req, pc :
           /\ client' = [client EXCEPT ![c] = [req |-> req, pc |-> pc,
                                               todo |-> {}, job |-> NoJob]]
           /\ pc = "rlock" \/ (pc = "lock" /\ req = "restartall")
           /\ pc \in Places(req)
    BY <1>3 DEF AllRequest, Begin, Places
  <2>2. UNCHANGED <<executor, cleaner>>
    BY <1>3 DEF AllRequest
  <2>3. QED  BY <2>1, <2>2, FlowSet
<1>4. ASSUME NEW ids, NEW pc \in {"rlock", "lockall"}, client[c].pc = pc,
             client' = [client EXCEPT ![c].pc = "next", ![c].todo = ids],
             UNCHANGED <<executor, cleaner>>
      PROVE  FlowInv'
  <2>1. \A d \in Clients \ {c} : client'[d] = client[d]
    BY <1>4 DEF TypeOK
  <2>2. /\ client'[c].pc = "next"
        /\ client'[c].req = client[c].req
        /\ client'[c].job = client[c].job
    BY <1>4 DEF TypeOK, Client
  <2>3. "next" \in Places(client[c].req)
    BY <1>4 DEF FlowInv, ClientFlow, Places, TypeOK, Client, RequestKinds
  <2>4. \A d \in Clients : ClientFlow(d)'
    BY <2>1, <2>2, <2>3 DEF FlowInv, ClientFlow
  <2>5. QED  BY <1>4, <2>4 DEF FlowInv
<1>5. CASE RLockMap(c)
  BY <1>4, <1>5 DEF RLockMap, At
<1>6. CASE LockAll(c)
  BY <1>4, <1>6 DEF LockAll, At
<1>7. CASE NextJob(c)
  <2>1. PICK j \in client[c].todo :
           client' = [client EXCEPT ![c].pc = LoopBody[client[c].req],
                                    ![c].todo = @ \ {j}, ![c].job = j]
    BY <1>7 DEF NextJob
  <2>2. /\ \A d \in Clients \ {c} : client'[d] = client[d]
        /\ client'[c].pc = LoopBody[client[c].req]
        /\ client'[c].req = client[c].req
        /\ client'[c].job = j
    BY <2>1 DEF TypeOK, Client
  <2>3. j # NoJob
    BY JobsAssumption DEF TypeOK, Client
  <2>4. LoopBody[client[c].req] \in Places(client[c].req)
    BY <1>7 DEF NextJob, At, FlowInv, ClientFlow, Places, LoopBody, TypeOK,
                Client, RequestKinds
  <2>5. \A d \in Clients : ClientFlow(d)'
    BY <2>2, <2>3, <2>4 DEF FlowInv, ClientFlow
  <2>6. QED  BY <1>7, <2>5 DEF NextJob, FlowInv
<1>8. CASE EndRequest(c)
  <2>1. client' = [client EXCEPT ![c] = [req |-> "none", pc |-> "idle",
                                         todo |-> {}, job |-> NoJob]]
    BY <1>8 DEF EndRequest, Idle
  <2>2. "idle" \in Places("none") /\ UNCHANGED <<executor, cleaner>>
    BY <1>8 DEF EndRequest, Places
  <2>3. QED  BY <2>1, <2>2, FlowSet
<1>9. CASE LockMap(c)
  <2>1. PICK pc \in ClientPC : /\ Goto(c, pc)
                              /\ pc \in Places(client[c].req)
                              /\ \/ pc \in {"next", "lockall"}
                                 \/ client[c].job # NoJob
    BY <1>9 DEF LockMap, At, FlowInv, ClientFlow, Places, ClientPC, TypeOK,
                  Client, RequestKinds
  <2>2. QED  BY <1>9, <2>1, FlowGoto DEF LockMap
<1>10. CASE Register(c)
  <2>1. PICK pc \in ClientPC : /\ Goto(c, pc)
                              /\ pc \in Places(client[c].req)
                              /\ \/ pc \in {"next", "lockall"}
                                 \/ client[c].job # NoJob
    BY <1>10 DEF Register, At, FlowInv, ClientFlow, Places, ClientPC, TypeOK,
                  Client, RequestKinds
  <2>2. QED  BY <1>10, <2>1, FlowGoto DEF Register
<1>11. CASE Enqueue(c)
  <2>1. PICK pc \in ClientPC : /\ Goto(c, pc)
                              /\ pc \in Places(client[c].req)
                              /\ \/ pc \in {"next", "lockall"}
                                 \/ client[c].job # NoJob
    BY <1>11 DEF Enqueue, At, FlowInv, ClientFlow, Places, ClientPC, TypeOK,
                  Client, RequestKinds
  <2>2. QED  BY <1>11, <2>1, FlowGoto DEF Enqueue
<1>12. CASE Lookup(c)
  <2>1. PICK pc \in ClientPC : /\ Goto(c, pc)
                              /\ pc \in Places(client[c].req)
                              /\ \/ pc \in {"next", "lockall"}
                                 \/ client[c].job # NoJob
    BY <1>12 DEF Lookup, At, FlowInv, ClientFlow, Places, ClientPC, TypeOK,
                  Client, RequestKinds
  <2>2. QED  BY <1>12, <2>1, FlowGoto DEF Lookup
<1>13. CASE CheckUnknown(c)
  <2>1. PICK pc \in ClientPC : /\ Goto(c, pc)
                              /\ pc \in Places(client[c].req)
                              /\ \/ pc \in {"next", "lockall"}
                                 \/ client[c].job # NoJob
    BY <1>13 DEF CheckUnknown, At, FlowInv, ClientFlow, Places, ClientPC, TypeOK,
                  Client, RequestKinds
  <2>2. QED  BY <1>13, <2>1, FlowGoto DEF CheckUnknown
<1>14. CASE CheckRunning(c)
  <2>1. PICK pc \in ClientPC : /\ Goto(c, pc)
                              /\ pc \in Places(client[c].req)
                              /\ \/ pc \in {"next", "lockall"}
                                 \/ client[c].job # NoJob
    BY <1>14 DEF CheckRunning, At, FlowInv, ClientFlow, Places, ClientPC, TypeOK,
                  Client, RequestKinds
  <2>2. QED  BY <1>14, <2>1, FlowGoto DEF CheckRunning
<1>15. CASE CheckCompleted(c)
  <2>1. PICK pc \in ClientPC : /\ Goto(c, pc)
                              /\ pc \in Places(client[c].req)
                              /\ \/ pc \in {"next", "lockall"}
                                 \/ client[c].job # NoJob
    BY <1>15 DEF CheckCompleted, At, FlowInv, ClientFlow, Places, ClientPC, TypeOK,
                  Client, RequestKinds
  <2>2. QED  BY <1>15, <2>1, FlowGoto DEF CheckCompleted
<1>16. CASE StopSend(c)
  <2>1. PICK pc \in ClientPC : /\ Goto(c, pc)
                              /\ pc \in Places(client[c].req)
                              /\ \/ pc \in {"next", "lockall"}
                                 \/ client[c].job # NoJob
    BY <1>16 DEF StopSend, At, FlowInv, ClientFlow, Places, ClientPC, TypeOK,
                  Client, RequestKinds
  <2>2. QED  BY <1>16, <2>1, FlowGoto DEF StopSend
<1>17. CASE Reset(c)
  <2>1. PICK pc \in ClientPC : /\ Goto(c, pc)
                              /\ pc \in Places(client[c].req)
                              /\ \/ pc \in {"next", "lockall"}
                                 \/ client[c].job # NoJob
    BY <1>17 DEF Reset, At, FlowInv, ClientFlow, Places, ClientPC, TypeOK,
                  Client, RequestKinds
  <2>2. QED  BY <1>17, <2>1, FlowGoto DEF Reset
<1>18. CASE ResetPanic(c)
  <2>1. PICK pc \in ClientPC : /\ Goto(c, pc)
                              /\ pc \in Places(client[c].req)
                              /\ \/ pc \in {"next", "lockall"}
                                 \/ client[c].job # NoJob
    BY <1>18 DEF ResetPanic, At, FlowInv, ClientFlow, Places, ClientPC, TypeOK,
                  Client, RequestKinds
  <2>2. QED  BY <1>18, <2>1, FlowGoto DEF ResetPanic
<1>19. CASE Fetch(c)
  <2>1. PICK pc \in ClientPC : /\ Goto(c, pc)
                              /\ pc \in Places(client[c].req)
                              /\ \/ pc \in {"next", "lockall"}
                                 \/ client[c].job # NoJob
    BY <1>19 DEF Fetch, At, FlowInv, ClientFlow, Places, ClientPC, TypeOK,
                  Client, RequestKinds
  <2>2. QED  BY <1>19, <2>1, FlowGoto DEF Fetch
<1>20. CASE Status(c)
  <2>1. PICK pc \in ClientPC : /\ Goto(c, pc)
                              /\ pc \in Places(client[c].req)
                              /\ \/ pc \in {"next", "lockall"}
                                 \/ client[c].job # NoJob
    BY <1>20 DEF Status, At, FlowInv, ClientFlow, Places, ClientPC, TypeOK,
                  Client, RequestKinds
  <2>2. QED  BY <1>20, <2>1, FlowGoto DEF Status
<1>21. QED
  BY <1>1, <1>2, <1>3, <1>5, <1>6, <1>7, <1>8, <1>9, <1>10, <1>11, <1>12, <1>13, <1>14, <1>15, <1>16, <1>17, <1>18, <1>19, <1>20 DEF ClientNext

\* Every step of an executor keeps the flow.
LEMMA FlowExecutor ==
    ASSUME TypeOK, FlowInv, NEW e \in Executors, ExecutorNext(e)
    PROVE  FlowInv'
<1>1. /\ UNCHANGED <<client, cleaner>>
      /\ \A d \in Executors \ {e} : executor'[d] = executor[d]
  BY DEF ExecutorNext, Pickup, ExecFail, ExecStart, ExecTimeout, ExecStop,
         ExecDone, Leave, ExecComplete, ExecEnd, ExecRecord, ExecExit, TypeOK
<1>2. executor'[e].job = NoJob => executor'[e].pc = "idle"
  <2>1. CASE Pickup(e)
    <3>1. Head(globalJobsQueue) \in Jobs
      BY <2>1 DEF Pickup, TypeOK
    <3>2. executor'[e].job = Head(globalJobsQueue)
      BY <2>1 DEF Pickup, TypeOK, NoRun
    <3>3. QED  BY <3>1, <3>2, JobsAssumption
  <2>2. CASE ExecFail(e) \/ ExecExit(e)
    BY <2>2 DEF ExecFail, ExecExit, NoRun, TypeOK
  <2>3. CASE ExecTimeout(e) \/ ExecStop(e) \/ ExecDone(e)
    <3>1. PICK err, cause :
             /\ executor[e].pc = "select"
             /\ executor' = [executor EXCEPT ![e].pc = "complete",
                                ![e].err = err, ![e].cause = cause]
      BY <2>3 DEF ExecTimeout, ExecStop, ExecDone, Leave, InRun
    <3>2. executor'[e].job = executor[e].job
      BY <3>1 DEF TypeOK, Executor
    <3>3. QED  BY <3>1, <3>2 DEF FlowInv
  <2>4. CASE ExecStart(e) \/ ExecComplete(e) \/ ExecEnd(e) \/ ExecRecord(e)
    BY <2>4 DEF ExecStart, ExecComplete, ExecEnd, ExecRecord, InRun, FlowInv,
                TypeOK, Executor
  <2>5. QED  BY <2>1, <2>2, <2>3, <2>4 DEF ExecutorNext
<1>3. QED  BY <1>1, <1>2 DEF FlowInv, ClientFlow

\* Every step of the cleanup routine keeps the flow, and so does time.
LEMMA FlowCleaner ==
    ASSUME TypeOK, FlowInv, CleanerNext \/ \E j \in Jobs : Age(j)
    PROVE  FlowInv'
<1>1. UNCHANGED <<client, executor>>
  BY DEF CleanerNext, CleanupWake, CleanupLock, CleanupLocked, CleanupCheck,
         CleanupDelete, CleanupUnlock, Age
<1>2. cleaner'.pc = "delete" => cleaner'.job \in Jobs
  <2>1. CASE CleanupCheck
    BY <2>1 DEF CleanupCheck, TypeOK, CleanerState
  <2>2. CASE CleanupWake \/ CleanupLock \/ CleanupUnlock
    BY <2>2 DEF CleanupWake, CleanupLock, CleanupUnlock, CleanerGoto, TypeOK,
                CleanerState
  <2>3. CASE CleanupLocked
    BY <2>3 DEF CleanupLocked, TypeOK, CleanerState
  <2>4. CASE CleanupDelete
    BY <2>4 DEF CleanupDelete, TypeOK, CleanerState
  <2>5. CASE \E j \in Jobs : Age(j)
    BY <2>5 DEF Age, FlowInv
  <2>6. QED  BY <2>1, <2>2, <2>3, <2>4, <2>5 DEF CleanerNext
<1>3. QED  BY <1>1, <1>2 DEF FlowInv, ClientFlow


-----------------------------------------------------------------------------
(* The lock of the map *)

\* Initially nobody is inside the map.
LEMMA LockInit == Init => LockInv
  BY ProcessesAssumption
     DEF Init, LockInv, MapReaders, MapWriters, Announced, Unlocked, Idle,
         ReadLoops, WriteLoops

\* A step of one client that leaves the lock alone, and leaves the client where
\* it is with respect to the lock, keeps LockInv.
LEMMA LockKept ==
    ASSUME TypeOK, LockInv, NEW c \in Clients,
           \A d \in Clients \ {c} : client'[d] = client[d],
           UNCHANGED <<mapLock, cleaner>>,
           (c \in MapReaders)' <=> c \in MapReaders,
           (c \in Announced)' <=> c \in Announced,
           (c \in MapWriters)' => c \in MapWriters
    PROVE  LockInv'
<1>1. MapReaders' = MapReaders
  BY DEF MapReaders
<1>2. Announced' = Announced
  BY DEF Announced
<1>3. MapWriters' \subseteq MapWriters
  BY DEF MapWriters
<1>4. QED  BY <1>1, <1>2, <1>3 DEF LockInv

\* In particular a step to another place that is on the same side of the lock.
LEMMA LockGoto ==
    ASSUME TypeOK, LockInv, NEW c \in Clients, NEW pc \in ClientPC,
           Goto(c, pc), UNCHANGED <<mapLock, cleaner>>,
           client[c].pc # "rlock", pc # "rlock",
           \/ /\ client[c].req = "restartall"
              /\ client[c].pc \notin {"lock", "lockall"}
              /\ pc \notin {"lock", "lockall"}
           \/ /\ client[c].req # "restartall"
              /\ client[c].pc \in {"lockall", "register", "reset", "panicked"}
                    <=> pc \in {"lockall", "register", "reset", "panicked"}
    PROVE  LockInv'
<1>1. /\ \A d \in Clients \ {c} : client'[d] = client[d]
      /\ client'[c].pc = pc
      /\ client'[c].req = client[c].req
  BY GotoEffect DEF TypeOK
<1>2. (c \in MapReaders)' <=> c \in MapReaders
  BY <1>1 DEF MapReaders
<1>3. (c \in Announced)' <=> c \in Announced
  BY <1>1 DEF Announced
<1>4. (c \in MapWriters)' => c \in MapWriters
  BY <1>1, ProcessesAssumption DEF MapWriters, WriteLoops
<1>5. QED  BY <1>1, <1>2, <1>3, <1>4, LockKept

\* Every step of a client keeps LockInv.
LEMMA LockClient ==
    ASSUME TypeOK, FlowInv, LockInv, NEW c \in Clients, ClientNext(c)
    PROVE  LockInv'
<1>1. CASE ScheduleRequest(c) \/ IdsRequest(c) \/ AllRequest(c)
  <2>1. PICK req, pc, ids : /\ Begin(c, req, pc, ids)
                            /\ pc \in {"next", "rlock", "lock"}
                            /\ req \in ReadLoops => pc = "rlock"
                            /\ req \in WriteLoops => pc = "lock"
    BY <1>1 DEF ScheduleRequest, IdsRequest, AllRequest, StopRequest,
                StatusRequest, RestartRequest, FetchRequest, ReadLoops,
                WriteLoops
  <2>2. client[c].pc = "idle" /\ client[c].req = "none"
    BY <2>1 DEF Begin, At, FlowInv, ClientFlow, Places, TypeOK, Client,
                RequestKinds
  <2>3. /\ \A d \in Clients \ {c} : client'[d] = client[d]
        /\ client'[c].pc = pc
        /\ client'[c].req = req
    BY <2>1 DEF Begin, TypeOK
  <2>4. UNCHANGED <<mapLock, cleaner>>
    BY <1>1 DEF ScheduleRequest, IdsRequest, AllRequest
  <2>5. (c \in MapReaders)' <=> c \in MapReaders
    BY <2>1, <2>2, <2>3 DEF MapReaders, ReadLoops
  <2>6. (c \in Announced)' <=> c \in Announced
    BY <2>1, <2>2, <2>3 DEF Announced, WriteLoops
  <2>7. (c \in MapWriters)' => c \in MapWriters
    BY <2>1, <2>2, <2>3, ProcessesAssumption DEF MapWriters, WriteLoops
  <2>8. QED  BY <2>3, <2>4, <2>5, <2>6, <2>7, LockKept

<1>2. CASE RLockMap(c)
  <2>1. /\ \A d \in Clients \ {c} : client'[d] = client[d]
        /\ client'[c].pc = "next"
        /\ client'[c].req = client[c].req
    BY <1>2 DEF RLockMap, TypeOK, Client
  <2>2. client[c].pc = "rlock" /\ client[c].req \in ReadLoops
    BY <1>2 DEF RLockMap, At, FlowInv, ClientFlow, Places, ReadLoops, TypeOK,
                Client, RequestKinds
  <2>3. MapReaders' = MapReaders \cup {c}
    BY <2>1, <2>2 DEF MapReaders
  <2>4. Announced' = Announced
    BY <2>1, <2>2 DEF Announced, ReadLoops
  <2>5. /\ mapLock'.readers = mapLock.readers \cup {c}
        /\ mapLock'.writer = mapLock.writer
        /\ mapLock.writer = NoOne
        /\ cleaner' = cleaner
    BY <1>2 DEF RLockMap, RLock, NoWriter, TypeOK, RWMutexType
  <2>6. MapWriters = {}
    BY <2>5, ProcessesAssumption
       DEF MapWriters, LockInv, Announced, WriteLoops
  <2>7. MapWriters' = {}
    BY <2>1, <2>2, <2>5, <2>6 DEF MapWriters, ReadLoops, WriteLoops
  <2>8. QED  BY <2>3, <2>4, <2>5, <2>7 DEF LockInv
<1>3. CASE LockMap(c)
  <2>1. PICK pc \in {"lockall", "register", "reset"} :
           /\ Goto(c, pc)
           /\ pc = "lockall" <=> client[c].req = "restartall"
    BY <1>3 DEF LockMap, At, FlowInv, ClientFlow, Places, TypeOK, Client,
                RequestKinds
  <2>2. /\ \A d \in Clients \ {c} : client'[d] = client[d]
        /\ client'[c].pc = pc
        /\ client'[c].req = client[c].req
    BY <2>1, GotoEffect DEF TypeOK, ClientPC
  <2>3. client[c].pc = "lock" /\ client[c].req \notin ReadLoops
    BY <1>3 DEF LockMap, At, FlowInv, ClientFlow, Places, ReadLoops, TypeOK,
                Client, RequestKinds
  <2>4. MapReaders' = MapReaders
    BY <2>2, <2>3 DEF MapReaders
  <2>5. Announced' = Announced \cup {c}
    BY <2>1, <2>2 DEF Announced
  <2>6. /\ mapLock'.readers = mapLock.readers
        /\ mapLock'.writer = c
        /\ mapLock.writer = NoOne
        /\ cleaner' = cleaner
    BY <1>3 DEF LockMap, Announce, NoWriter, TypeOK, RWMutexType
  <2>7. MapWriters = {} /\ Announced = {}
    BY <2>6, ProcessesAssumption
       DEF MapWriters, LockInv, Announced, WriteLoops
  <2>8. MapWriters' = {}
    BY <2>1, <2>2, <2>6, <2>7 DEF MapWriters, WriteLoops
  <2>9. QED
    BY <2>4, <2>5, <2>6, <2>7, <2>8, ProcessesAssumption DEF LockInv
<1>4. CASE LockAll(c)
  <2>1. /\ \A d \in Clients \ {c} : client'[d] = client[d]
        /\ client'[c].pc = "next"
        /\ client'[c].req = client[c].req
    BY <1>4 DEF LockAll, TypeOK, Client
  <2>2. client[c].pc = "lockall" /\ client[c].req = "restartall"
    BY <1>4 DEF LockAll, At, FlowInv, ClientFlow, Places, TypeOK, Client,
                RequestKinds
  <2>3. MapReaders' = MapReaders
    BY <2>1, <2>2 DEF MapReaders, ReadLoops
  <2>4. Announced' = Announced
    BY <2>1, <2>2 DEF Announced
  <2>5. mapLock.readers = {} /\ UNCHANGED <<mapLock, cleaner>>
    BY <1>4 DEF LockAll, HasWrite
  <2>6. QED  BY <2>3, <2>4, <2>5 DEF LockInv
<1>5. CASE NextJob(c)
  <2>1. /\ \A d \in Clients \ {c} : client'[d] = client[d]
        /\ client'[c].pc = LoopBody[client[c].req]
        /\ client'[c].req = client[c].req
        /\ UNCHANGED <<mapLock, cleaner>>
    BY <1>5 DEF NextJob, TypeOK, Client
  <2>2. client[c].pc = "next" /\ client[c].req \in RequestKinds
    BY <1>5 DEF NextJob, At, FlowInv, ClientFlow, Places, TypeOK, Client
  <2>3. /\ LoopBody[client[c].req] \in {"lock", "check", "lookup", "report"}
        /\ client[c].req = "restartall" => LoopBody[client[c].req] = "check"
    BY <2>2 DEF LoopBody, RequestKinds
  <2>4. (c \in MapReaders)' <=> c \in MapReaders
    BY <2>1, <2>2, <2>3 DEF MapReaders
  <2>5. (c \in Announced)' <=> c \in Announced
    BY <2>1, <2>2, <2>3 DEF Announced
  <2>6. (c \in MapWriters)' => c \in MapWriters
    BY <2>1, <2>2, <2>3, ProcessesAssumption DEF MapWriters, WriteLoops
  <2>7. QED  BY <2>1, <2>4, <2>5, <2>6, LockKept
<1>6. CASE EndRequest(c)
  <2>1. /\ \A d \in Clients \ {c} : client'[d] = client[d]
        /\ client'[c].pc = "idle" /\ client'[c].req = "none"
        /\ client[c].pc = "next"
        /\ cleaner' = cleaner
    BY <1>6 DEF EndRequest, At, Idle, TypeOK
  <2>2. MapReaders' = MapReaders \ {c} /\ Announced' = Announced \ {c}
    BY <2>1 DEF MapReaders, Announced, ReadLoops
  <2>3. MapWriters' \subseteq MapWriters
    BY <2>1, ProcessesAssumption DEF MapWriters, WriteLoops
  <2>4. CASE client[c].req \in ReadLoops
    <3>1. /\ mapLock'.readers = mapLock.readers \ {c}
          /\ mapLock'.writer = mapLock.writer
      <4>1. mapLock' = RUnlock(mapLock, c)
        BY <1>6, <2>4 DEF EndRequest, ReadLoops, WriteLoops
      <4>2. QED  BY <4>1 DEF RUnlock, TypeOK, RWMutexType
    <3>2. c \notin Announced
      BY <2>1, <2>4 DEF Announced, ReadLoops
    <3>3. QED  BY <2>1, <2>2, <2>3, <3>1, <3>2 DEF LockInv
  <2>5. CASE client[c].req = "restartall"
    <3>1. c \in Announced /\ c \notin MapReaders
      BY <2>1, <2>5 DEF Announced, MapReaders, ReadLoops
    <3>2. mapLock.writer = c
      BY <3>1 DEF LockInv
    <3>3. /\ mapLock'.readers = mapLock.readers
          /\ mapLock'.writer = NoOne
      BY <1>6, <2>5 DEF EndRequest, Unlock, ReadLoops, WriteLoops, TypeOK,
                        RWMutexType
    <3>4. QED
      BY <2>1, <2>2, <2>3, <3>1, <3>2, <3>3, ProcessesAssumption DEF LockInv
  <2>6. CASE client[c].req \notin ReadLoops \cup WriteLoops
    <3>1. mapLock' = mapLock
      BY <1>6, <2>6 DEF EndRequest
    <3>2. c \notin Announced /\ c \notin MapReaders
      BY <2>1, <2>6 DEF Announced, MapReaders, WriteLoops
    <3>3. QED  BY <2>1, <2>2, <2>3, <3>1, <3>2 DEF LockInv
  <2>7. QED  BY <2>4, <2>5, <2>6 DEF WriteLoops
<1>7. ASSUME HasWrite(mapLock, c), mapLock' = Unlock(mapLock), cleaner' = cleaner,
             Goto(c, "enqueue"), client[c].pc \in {"register", "reset"},
             client[c].req # "restartall"
      PROVE  LockInv'
  <2>1. /\ \A d \in Clients \ {c} : client'[d] = client[d]
        /\ client'[c].pc = "enqueue"
        /\ client'[c].req = client[c].req
    BY <1>7, GotoEffect DEF TypeOK, ClientPC
  <2>2. client[c].req \notin ReadLoops
    BY <1>7 DEF FlowInv, ClientFlow, Places, ReadLoops, TypeOK, Client
  <2>3. MapReaders' = MapReaders /\ Announced' = Announced \ {c}
    BY <1>7, <2>1, <2>2 DEF MapReaders, Announced
  <2>4. /\ mapLock'.readers = {} /\ mapLock.readers = {}
        /\ mapLock'.writer = NoOne /\ mapLock.writer = c
    BY <1>7 DEF HasWrite, Unlock, TypeOK, RWMutexType
  <2>5. QED
    BY <1>7, <2>3, <2>4, ProcessesAssumption DEF LockInv
<1>8. CASE Register(c)
  <2>1. client[c].req = "schedule" /\ client[c].pc = "register"
    BY <1>8 DEF Register, At, FlowInv, ClientFlow, Places, TypeOK, Client,
                RequestKinds
  <2>2. QED  BY <1>7, <1>8, <2>1 DEF Register
<1>9. CASE Reset(c)
  <2>1. client[c].req \in {"restart", "restartall"} /\ client[c].pc = "reset"
    BY <1>9 DEF Reset, At, FlowInv, ClientFlow, Places, TypeOK, Client,
                RequestKinds
  <2>2. CASE client[c].req = "restart"
    BY <1>7, <1>9, <2>1, <2>2 DEF Reset
  <2>3. CASE client[c].req = "restartall"
    BY <1>9, <2>1, <2>3, LockGoto DEF Reset, ClientPC
  <2>4. QED  BY <2>1, <2>2, <2>3
<1>10. CASE Enqueue(c)
  <2>1. PICK pc \in ClientPC :
           /\ Goto(c, pc) /\ UNCHANGED <<mapLock, cleaner>>
           /\ client[c].pc # "rlock" /\ pc # "rlock"
           /\ \/ /\ client[c].req = "restartall"
                 /\ client[c].pc \notin {"lock", "lockall"}
                 /\ pc \notin {"lock", "lockall"}
              \/ /\ client[c].req # "restartall"
                 /\ client[c].pc \in {"lockall", "register", "reset", "panicked"}
                       <=> pc \in {"lockall", "register", "reset", "panicked"}
    BY <1>10 DEF Enqueue, At, FlowInv, ClientFlow, Places, ClientPC, TypeOK,
                Client, RequestKinds
  <2>2. QED  BY <2>1, LockGoto
<1>11. CASE Lookup(c)
  <2>1. PICK pc \in ClientPC :
           /\ Goto(c, pc) /\ UNCHANGED <<mapLock, cleaner>>
           /\ client[c].pc # "rlock" /\ pc # "rlock"
           /\ \/ /\ client[c].req = "restartall"
                 /\ client[c].pc \notin {"lock", "lockall"}
                 /\ pc \notin {"lock", "lockall"}
              \/ /\ client[c].req # "restartall"
                 /\ client[c].pc \in {"lockall", "register", "reset", "panicked"}
                       <=> pc \in {"lockall", "register", "reset", "panicked"}
    BY <1>11 DEF Lookup, At, FlowInv, ClientFlow, Places, ClientPC, TypeOK,
                Client, RequestKinds
  <2>2. QED  BY <2>1, LockGoto
<1>12. CASE CheckUnknown(c)
  <2>1. PICK pc \in ClientPC :
           /\ Goto(c, pc) /\ UNCHANGED <<mapLock, cleaner>>
           /\ client[c].pc # "rlock" /\ pc # "rlock"
           /\ \/ /\ client[c].req = "restartall"
                 /\ client[c].pc \notin {"lock", "lockall"}
                 /\ pc \notin {"lock", "lockall"}
              \/ /\ client[c].req # "restartall"
                 /\ client[c].pc \in {"lockall", "register", "reset", "panicked"}
                       <=> pc \in {"lockall", "register", "reset", "panicked"}
    BY <1>12 DEF CheckUnknown, At, FlowInv, ClientFlow, Places, ClientPC, TypeOK,
                Client, RequestKinds
  <2>2. QED  BY <2>1, LockGoto
<1>13. CASE CheckRunning(c)
  <2>1. PICK pc \in ClientPC :
           /\ Goto(c, pc) /\ UNCHANGED <<mapLock, cleaner>>
           /\ client[c].pc # "rlock" /\ pc # "rlock"
           /\ \/ /\ client[c].req = "restartall"
                 /\ client[c].pc \notin {"lock", "lockall"}
                 /\ pc \notin {"lock", "lockall"}
              \/ /\ client[c].req # "restartall"
                 /\ client[c].pc \in {"lockall", "register", "reset", "panicked"}
                       <=> pc \in {"lockall", "register", "reset", "panicked"}
    BY <1>13 DEF CheckRunning, At, FlowInv, ClientFlow, Places, ClientPC, TypeOK,
                Client, RequestKinds
  <2>2. QED  BY <2>1, LockGoto
<1>14. CASE CheckCompleted(c)
  <2>1. PICK pc \in ClientPC :
           /\ Goto(c, pc) /\ UNCHANGED <<mapLock, cleaner>>
           /\ client[c].pc # "rlock" /\ pc # "rlock"
           /\ \/ /\ client[c].req = "restartall"
                 /\ client[c].pc \notin {"lock", "lockall"}
                 /\ pc \notin {"lock", "lockall"}
              \/ /\ client[c].req # "restartall"
                 /\ client[c].pc \in {"lockall", "register", "reset", "panicked"}
                       <=> pc \in {"lockall", "register", "reset", "panicked"}
    BY <1>14 DEF CheckCompleted, At, FlowInv, ClientFlow, Places, ClientPC, TypeOK,
                Client, RequestKinds
  <2>2. QED  BY <2>1, LockGoto
<1>15. CASE StopSend(c)
  <2>1. PICK pc \in ClientPC :
           /\ Goto(c, pc) /\ UNCHANGED <<mapLock, cleaner>>
           /\ client[c].pc # "rlock" /\ pc # "rlock"
           /\ \/ /\ client[c].req = "restartall"
                 /\ client[c].pc \notin {"lock", "lockall"}
                 /\ pc \notin {"lock", "lockall"}
              \/ /\ client[c].req # "restartall"
                 /\ client[c].pc \in {"lockall", "register", "reset", "panicked"}
                       <=> pc \in {"lockall", "register", "reset", "panicked"}
    BY <1>15 DEF StopSend, At, FlowInv, ClientFlow, Places, ClientPC, TypeOK,
                Client, RequestKinds
  <2>2. QED  BY <2>1, LockGoto
<1>16. CASE ResetPanic(c)
  <2>1. PICK pc \in ClientPC :
           /\ Goto(c, pc) /\ UNCHANGED <<mapLock, cleaner>>
           /\ client[c].pc # "rlock" /\ pc # "rlock"
           /\ \/ /\ client[c].req = "restartall"
                 /\ client[c].pc \notin {"lock", "lockall"}
                 /\ pc \notin {"lock", "lockall"}
              \/ /\ client[c].req # "restartall"
                 /\ client[c].pc \in {"lockall", "register", "reset", "panicked"}
                       <=> pc \in {"lockall", "register", "reset", "panicked"}
    BY <1>16 DEF ResetPanic, At, FlowInv, ClientFlow, Places, ClientPC, TypeOK,
                Client, RequestKinds
  <2>2. QED  BY <2>1, LockGoto
<1>17. CASE Fetch(c)
  <2>1. PICK pc \in ClientPC :
           /\ Goto(c, pc) /\ UNCHANGED <<mapLock, cleaner>>
           /\ client[c].pc # "rlock" /\ pc # "rlock"
           /\ \/ /\ client[c].req = "restartall"
                 /\ client[c].pc \notin {"lock", "lockall"}
                 /\ pc \notin {"lock", "lockall"}
              \/ /\ client[c].req # "restartall"
                 /\ client[c].pc \in {"lockall", "register", "reset", "panicked"}
                       <=> pc \in {"lockall", "register", "reset", "panicked"}
    BY <1>17 DEF Fetch, At, FlowInv, ClientFlow, Places, ClientPC, TypeOK,
                Client, RequestKinds
  <2>2. QED  BY <2>1, LockGoto
<1>18. CASE Status(c)
  <2>1. PICK pc \in ClientPC :
           /\ Goto(c, pc) /\ UNCHANGED <<mapLock, cleaner>>
           /\ client[c].pc # "rlock" /\ pc # "rlock"
           /\ \/ /\ client[c].req = "restartall"
                 /\ client[c].pc \notin {"lock", "lockall"}
                 /\ pc \notin {"lock", "lockall"}
              \/ /\ client[c].req # "restartall"
                 /\ client[c].pc \in {"lockall", "register", "reset", "panicked"}
                       <=> pc \in {"lockall", "register", "reset", "panicked"}
    BY <1>18 DEF Status, At, FlowInv, ClientFlow, Places, ClientPC, TypeOK,
                Client, RequestKinds
  <2>2. QED  BY <2>1, LockGoto
<1>19. QED
  BY <1>1, <1>2, <1>3, <1>4, <1>5, <1>6, <1>8, <1>9, <1>10, <1>11, <1>12, <1>13, <1>14, <1>15, <1>16, <1>17, <1>18
     DEF ClientNext

\* Every step of the cleanup routine keeps LockInv.
LEMMA LockCleaner ==
    ASSUME TypeOK, LockInv, CleanerNext
    PROVE  LockInv'
<1>1. client' = client /\ MapReaders' = MapReaders /\ Announced' = Announced
  BY DEF CleanerNext, CleanupWake, CleanupLock, CleanupLocked, CleanupCheck,
         CleanupDelete, CleanupUnlock, MapReaders, Announced
<1>2. CASE CleanupWake
  <2>1. /\ cleaner.pc = "idle" /\ cleaner'.pc = "lock"
        /\ mapLock' = mapLock
    BY <1>2 DEF CleanupWake, CleanerGoto, TypeOK, CleanerState
  <2>2. QED  BY <1>1, <2>1 DEF LockInv, MapWriters
<1>3. CASE CleanupLock
  <2>1. /\ cleaner.pc = "lock" /\ cleaner'.pc = "locked"
        /\ mapLock.writer = NoOne /\ mapLock'.writer = Cleaner
        /\ mapLock'.readers = mapLock.readers
    BY <1>3 DEF CleanupLock, CleanerGoto, NoWriter, Announce, TypeOK,
                CleanerState, RWMutexType
  <2>2. Announced = {}
    BY <2>1, ProcessesAssumption DEF LockInv, Announced
  <2>3. MapWriters' = {}
    BY <1>1, <2>1, <2>2 DEF MapWriters, Announced, WriteLoops
  <2>4. QED  BY <1>1, <2>1, <2>2, <2>3, ProcessesAssumption DEF LockInv
<1>4. CASE CleanupLocked
  <2>1. /\ cleaner.pc = "locked" /\ cleaner'.pc = "scan"
        /\ mapLock' = mapLock /\ mapLock.readers = {}
    BY <1>4 DEF CleanupLocked, HasWrite, TypeOK, CleanerState
  <2>2. QED  BY <1>1, <2>1 DEF LockInv
<1>5. CASE CleanupCheck \/ CleanupDelete
  <2>1. /\ cleaner.pc \in {"scan", "delete"} /\ cleaner'.pc \in {"scan", "delete"}
        /\ mapLock' = mapLock
    <3>1. CASE CleanupCheck
      BY <3>1 DEF CleanupCheck, TypeOK, CleanerState
    <3>2. CASE CleanupDelete
      BY <3>2 DEF CleanupDelete, TypeOK, CleanerState
    <3>3. QED  BY <1>5, <3>1, <3>2
  <2>2. MapWriters' = MapWriters
    BY <1>1, <2>1 DEF MapWriters
  <2>3. QED  BY <1>1, <2>1, <2>2 DEF LockInv
<1>6. CASE CleanupUnlock
  <2>1. /\ cleaner.pc = "scan" /\ cleaner'.pc = "idle"
        /\ mapLock'.writer = NoOne /\ mapLock'.readers = mapLock.readers
    BY <1>6 DEF CleanupUnlock, CleanerGoto, Unlock, TypeOK, CleanerState,
                RWMutexType
  <2>2. mapLock.writer = Cleaner
    BY <2>1 DEF LockInv
  <2>3. Announced = {}
    BY <2>2, ProcessesAssumption DEF LockInv, Announced
  <2>4. MapWriters' = {}
    BY <1>1, <2>1, <2>3 DEF MapWriters, Announced, WriteLoops
  <2>5. QED  BY <1>1, <2>1, <2>3, <2>4, ProcessesAssumption DEF LockInv
<1>7. QED  BY <1>2, <1>3, <1>4, <1>5, <1>6 DEF CleanerNext


-----------------------------------------------------------------------------
(* What the owner of the lock relies on *)

\* A reset happens inside the lock of the map; nothing else makes a completed
\* job pending.
LEMMA ResetsAreLocked ==
    ASSUME TypeOK, FlowInv, Next, NEW j \in Jobs,
           job[j].iscompleted, ~job'[j].iscompleted
    PROVE  \E c \in Clients : /\ Reset(c) \/ ResetPanic(c)
                             /\ HasWrite(mapLock, c)
                             /\ client[c].job = j
<1>1. ASSUME NEW c \in Clients, Fetch(c)
      PROVE  FALSE
  BY <1>1, JobInHand DEF Fetch, CountFetch, TypeOK, Job
<1>2. ASSUME NEW e \in Executors, ExecutorNext(e)
      PROVE  FALSE
  <2>1. CASE ExecFail(e)
    BY <2>1, JobInRun DEF ExecFail, FailedInfos, TypeOK, Job
  <2>2. CASE ExecComplete(e) \/ ExecEnd(e) \/ ExecRecord(e) \/ ExecExit(e)
    <3>1. CASE ExecComplete(e)
      BY <3>1, JobInRun DEF ExecComplete, TypeOK, Job
    <3>2. CASE ExecEnd(e)
      BY <3>2, JobInRun DEF ExecEnd, TypeOK, Job
    <3>3. CASE ExecRecord(e)
      BY <3>3, JobInRun DEF ExecRecord, TypeOK, Job
    <3>4. CASE ExecExit(e)
      BY <3>4, JobInRun DEF ExecExit, TypeOK, Job
    <3>5. QED  BY <2>2, <3>1, <3>2, <3>3, <3>4
  <2>3. CASE Pickup(e) \/ ExecStart(e) \/ ExecTimeout(e) \/ ExecStop(e) \/ ExecDone(e)
    BY <2>3 DEF Pickup, ExecStart, ExecTimeout, ExecStop, ExecDone, Leave
  <2>4. QED  BY <1>2, <2>1, <2>2, <2>3 DEF ExecutorNext
<1>3. ASSUME CleanerNext
      PROVE  FALSE
  BY <1>3 DEF CleanerNext, CleanupWake, CleanupLock, CleanupLocked,
              CleanupCheck, CleanupDelete, CleanupUnlock
<1>4. ASSUME NEW k \in Jobs, Age(k)
      PROVE  FALSE
  BY <1>4 DEF Age, TypeOK, Job
<1>5. PICK c \in Clients : ClientNext(c)
  BY <1>2, <1>3, <1>4 DEF Next
<1>6. Reset(c) \/ ResetPanic(c)
  BY <1>1, <1>5
     DEF ClientNext, ScheduleRequest, IdsRequest, AllRequest, RLockMap, LockMap,
         LockAll, NextJob, EndRequest, Register, Enqueue, Lookup, CheckUnknown,
         CheckRunning, CheckCompleted, StopSend, Status
<1>7. job' = [job EXCEPT ![client[c].job] = ResetInfos(@)] /\ HasWrite(mapLock, c)
  BY <1>6 DEF Reset, ResetPanic
<1>8. client[c].job = j
  BY <1>7 DEF TypeOK
<1>9. QED  BY <1>6, <1>7, <1>8

\* DeleteInv is kept: the lock keeps every reset out of the cleanup routine.
LEMMA DeleteStep ==
    ASSUME TypeOK, FlowInv, LockInv, DeleteInv, Next
    PROVE  DeleteInv'
<1> SUFFICES ASSUME cleaner'.pc = "delete"
             PROVE  job'[cleaner'.job].iscompleted
  BY DEF DeleteInv
<1>1. CASE cleaner' = cleaner
  <2>1. cleaner.job \in Jobs /\ job[cleaner.job].iscompleted
    BY <1>1 DEF DeleteInv, FlowInv
  <2>2. mapLock.writer = Cleaner
    BY <1>1 DEF LockInv
  <2>3. \A c \in Clients : ~HasWrite(mapLock, c)
    BY <2>2, ProcessesAssumption DEF HasWrite
  <2>4. job'[cleaner.job].iscompleted
    BY <2>1, <2>3, ResetsAreLocked
  <2>5. QED  BY <1>1, <2>4
<1>2. CASE cleaner' # cleaner
  <2>1. CleanerNext
    BY <1>2 DEF Next, ClientNext, ScheduleRequest, IdsRequest, AllRequest,
         RLockMap, LockMap, LockAll, NextJob, EndRequest, Register, Enqueue,
         Lookup, CheckUnknown, CheckRunning, CheckCompleted, StopSend, Reset,
         ResetPanic, Fetch, Status, ExecutorNext, Pickup, ExecFail, ExecStart,
         ExecTimeout, ExecStop, ExecDone, Leave, ExecComplete, ExecEnd,
         ExecRecord, ExecExit, Age
  <2>2. CASE CleanupCheck
    <3>1. PICK j \in cleaner.todo :
             cleaner' = IF Deletable(job[j])
                        THEN [pc |-> "delete", todo |-> cleaner.todo \ {j},
                              job |-> j]
                        ELSE [cleaner EXCEPT !.todo = @ \ {j}]
      BY <2>2 DEF CleanupCheck
    <3>2. cleaner.pc = "scan" /\ job' = job
      BY <2>2 DEF CleanupCheck
    <3>3. Deletable(job[j])
      BY <3>1, <3>2 DEF TypeOK, CleanerState
    <3>4. QED  BY <3>1, <3>2, <3>3 DEF Deletable
  <2>3. CASE CleanupWake \/ CleanupLock \/ CleanupUnlock
    BY <2>3 DEF CleanupWake, CleanupLock, CleanupUnlock, CleanerGoto, TypeOK,
                CleanerState
  <2>4. CASE CleanupLocked
    BY <2>4 DEF CleanupLocked, TypeOK, CleanerState
  <2>5. CASE CleanupDelete
    BY <2>5 DEF CleanupDelete, TypeOK, CleanerState
  <2>6. QED  BY <2>1, <2>2, <2>3, <2>4, <2>5 DEF CleanerNext
<1>3. QED  BY <1>1, <1>2

-----------------------------------------------------------------------------
(* The inductive invariant *)

\* It holds initially.
LEMMA IInvInit == Init => IInv
  BY TypeInit, FlowInit, LockInit DEF Init, IInv, DeleteInv

\* Every step keeps it.
LEMMA IInvStep == IInv /\ [Next]_vars => IInv'
<1> SUFFICES ASSUME IInv, [Next]_vars
             PROVE  IInv'
  OBVIOUS
<1> USE DEF IInv
<1>1. CASE Next
  <2>1. TypeOK'
    BY <1>1, TypeClient, TypeExecutor, TypeCleaner DEF Next
  <2>2. FlowInv'
    BY <1>1, FlowClient, FlowExecutor, FlowCleaner DEF Next
  <2>3. LockInv'
    <3>1. ASSUME UNCHANGED <<client, cleaner, mapLock>>
          PROVE  LockInv'
      BY <3>1 DEF LockInv, MapReaders, MapWriters, Announced
    <3>2. ASSUME NEW e \in Executors, ExecutorNext(e)
          PROVE  LockInv'
      BY <3>1, <3>2 DEF ExecutorNext, Pickup, ExecFail, ExecStart,
              ExecTimeout, ExecStop, ExecDone, Leave, ExecComplete, ExecEnd,
              ExecRecord, ExecExit
    <3>3. ASSUME NEW j \in Jobs, Age(j)
          PROVE  LockInv'
      BY <3>1, <3>3 DEF Age
    <3>4. QED  BY <1>1, <3>2, <3>3, LockClient, LockCleaner DEF Next
  <2>4. DeleteInv'
    BY <1>1, DeleteStep
  <2>5. QED  BY <2>1, <2>2, <2>3, <2>4
<1>2. CASE UNCHANGED vars
  BY <1>2 DEF vars, TypeOK, FlowInv, ClientFlow, LockInv, DeleteInv, MapReaders,
              MapWriters, Announced
<1>3. QED  BY <1>1, <1>2

\* Every reachable state of JobsControl satisfies it.
THEOREM Invariant == Spec => []IInv
  BY IInvInit, IInvStep, PTL DEF Spec

\* TypeCorrect: whatever the requests and their interleaving, every variable
\* keeps its type; the queue never exceeds its buffer.
THEOREM TypeCorrect == Spec => []TypeOK
<1>1. IInv => TypeOK
  BY DEF IInv
<1>2. QED  BY <1>1, Invariant, PTL

\* DeletionIsSafe: the cleanup routine never deletes a job that is pending at
\* that moment, although it reads iscompleted without the job's lock and
\* restarts go on meanwhile.
THEOREM DeletionIsSafe == Spec => DeletesOnlyCompleted
<1>1. IInv /\ Next => \A j \in globalJobsResults \ globalJobsResults' :
                        job[j].iscompleted
  <2> SUFFICES ASSUME IInv, Next, NEW j \in globalJobsResults \ globalJobsResults'
               PROVE  job[j].iscompleted
    OBVIOUS
  <2>1. CleanupDelete
    BY DEF Next, ClientNext, ScheduleRequest, IdsRequest, AllRequest,
         RLockMap, LockMap, LockAll, NextJob, EndRequest, Register, Enqueue,
         Lookup, CheckUnknown, CheckRunning, CheckCompleted, StopSend, Reset,
         ResetPanic, Fetch, Status, ExecutorNext, Pickup, ExecFail, ExecStart,
         ExecTimeout, ExecStop, ExecDone, Leave, ExecComplete, ExecEnd,
         ExecRecord, ExecExit, Age, CleanerNext, CleanupWake, CleanupLock,
         CleanupLocked, CleanupCheck, CleanupUnlock
  <2>2. cleaner.pc = "delete" /\ j = cleaner.job
    BY <2>1 DEF CleanupDelete
  <2>3. QED  BY <2>2 DEF IInv, DeleteInv
<1>2. IInv /\ [Next]_vars =>
         [\A j \in globalJobsResults \ globalJobsResults' :
             job[j].iscompleted]_vars
  BY <1>1
<1>3. QED  BY <1>2, Invariant, PTL DEF Spec, DeletesOnlyCompleted

\* MapIsNeverWrittenUnderIteration: when the map changes, no handler iterates
\* over it, and the cleanup routine does so only if the change is its own, so the
\* Go runtime never sees a concurrent iteration and write of it.
THEOREM MapIsNeverWrittenUnderIteration == Spec => NoConcurrentMapWrite
<1>1. ASSUME IInv, Next, globalJobsResults' # globalJobsResults
      PROVE  /\ MapReaders = {}
             /\ \/ MapWriters = {}
                \/ MapWriters = {Cleaner} /\ cleaner' # cleaner
  <2>1. CleanupDelete \/ \E c \in Clients : Register(c)
    BY <1>1 DEF Next, ClientNext, ScheduleRequest, IdsRequest, AllRequest,
         RLockMap, LockMap, LockAll, NextJob, EndRequest, Enqueue,
         Lookup, CheckUnknown, CheckRunning, CheckCompleted, StopSend, Reset,
         ResetPanic, Fetch, Status, ExecutorNext, Pickup, ExecFail, ExecStart,
         ExecTimeout, ExecStop, ExecDone, Leave, ExecComplete, ExecEnd,
         ExecRecord, ExecExit, Age, CleanerNext, CleanupWake, CleanupLock,
         CleanupLocked, CleanupCheck, CleanupUnlock
  <2>2. CASE CleanupDelete
    <3>1. cleaner.pc = "delete"
      BY <2>2 DEF CleanupDelete
    <3>2. mapLock.writer = Cleaner /\ MapReaders = {}
      BY <1>1, <3>1 DEF IInv, LockInv, MapWriters
    <3>3. \A c \in Clients : c \notin Announced
      BY <1>1, <3>2, ProcessesAssumption DEF IInv, LockInv
    <3>4. MapWriters = {Cleaner}
      BY <3>1, <3>3 DEF MapWriters, Announced, WriteLoops
    <3>5. cleaner'.pc = "scan"
      BY <1>1, <2>2 DEF CleanupDelete, IInv, TypeOK, CleanerState
    <3>6. QED  BY <3>1, <3>2, <3>4, <3>5
  <2>3. ASSUME NEW c \in Clients, Register(c)
        PROVE  MapReaders = {} /\ MapWriters = {}
    <3>1. /\ client[c].pc = "register" /\ client[c].req = "schedule"
          /\ mapLock.writer = c /\ mapLock.readers = {}
      BY <1>1, <2>3 DEF Register, At, HasWrite, IInv, FlowInv, ClientFlow,
              Places, TypeOK, Client, RequestKinds
    <3>2. Announced \subseteq {c}
      BY <1>1, <3>1 DEF IInv, LockInv, Announced
    <3>3. cleaner.pc \notin {"scan", "delete"}
      BY <1>1, <3>1, ProcessesAssumption DEF IInv, LockInv
    <3>4. QED
      BY <1>1, <3>1, <3>2, <3>3
         DEF IInv, LockInv, MapWriters, Announced, WriteLoops
  <2>4. QED  BY <2>1, <2>2, <2>3
<1>2. IInv /\ [Next]_vars =>
         [globalJobsResults' # globalJobsResults =>
            /\ MapReaders = {}
            /\ \/ MapWriters = {}
               \/ MapWriters = {Cleaner} /\ cleaner' # cleaner]_vars
  BY <1>1
<1>3. QED  BY <1>2, Invariant, PTL DEF Spec, NoConcurrentMapWrite


-----------------------------------------------------------------------------
(* No job is lost *)

\* A step of client c leaves a job in the hands of whoever had it, if that was
\* another client, the queue or an executor.
LEMMA OwnedKept ==
    ASSUME NEW c \in Clients, NEW j,
           Owned(j),
           \A d \in Clients \ {c} : client'[d] = client[d],
           executor' = executor,
           Queued(j) => Queued(j)',
           Scheduling(c, j) \/ Enqueueing(c, j) => Owned(j)'
    PROVE  Owned(j)'
<1>1. CASE Scheduling(c, j) \/ Enqueueing(c, j)
  BY <1>1
<1>2. ASSUME NEW d \in Clients \ {c}, Scheduling(d, j) \/ Enqueueing(d, j)
      PROVE  Owned(j)'
  BY <1>2 DEF Owned, Scheduling, Enqueueing
<1>3. CASE Queued(j)
  BY <1>3 DEF Owned
<1>4. CASE \E e \in Executors : Executing(e, j)
  BY <1>4 DEF Owned, Executing
<1>5. QED  BY <1>1, <1>2, <1>3, <1>4 DEF Owned

\* A step of a client loses no job.
LEMMA ClientLosesNone ==
    ASSUME TypeOK, FlowInv, NoLostJob, NEW c \in Clients, ClientNext(c)
    PROVE  NoLostJob'
<1> SUFFICES ASSUME NEW j \in submitted' \cap Short, Pending(j)'
             PROVE  Owned(j)'
  BY DEF NoLostJob
<1> j \in Jobs
  BY JobsAssumption
<1>1. ASSUME j \in submitted, job' = job, executor' = executor,
             Queued(j) => Queued(j)',
             \A d \in Clients \ {c} : client'[d] = client[d],
             Scheduling(c, j) \/ Enqueueing(c, j) => Owned(j)'
      PROVE  Owned(j)'
  BY <1>1, OwnedKept DEF NoLostJob, Pending
<1>2. CASE ScheduleRequest(c)
  <2>1. PICK S : /\ client[c].pc = "idle"
                 /\ client' = [client EXCEPT ![c] = [req |-> "schedule",
                                 pc |-> "next", todo |-> S, job |-> NoJob]]
                 /\ submitted' = submitted \cup S
    BY <1>2 DEF ScheduleRequest, Begin, At
  <2>2. CASE j \in S
    BY <2>1, <2>2 DEF Owned, Scheduling, TypeOK
  <2>3. CASE j \notin S
    <3>1. client[c].req # "schedule"
      BY <2>1 DEF FlowInv, ClientFlow, Places
    <3>2. ~Scheduling(c, j) /\ ~Enqueueing(c, j)
      BY <2>1, <3>1 DEF Scheduling, Enqueueing
    <3>3. QED
      BY <1>1, <1>2, <2>1, <2>3, <3>2
         DEF ScheduleRequest, Queued, TypeOK
  <2>4. QED  BY <2>2, <2>3
<1>3. CASE IdsRequest(c) \/ AllRequest(c)
  <2>1. PICK req, pc, ids :
           /\ client[c].pc = "idle"
           /\ client' = [client EXCEPT ![c] = [req |-> req, pc |-> pc,
                                               todo |-> ids, job |-> NoJob]]
    BY <1>3 DEF IdsRequest, AllRequest, StopRequest, StatusRequest,
                RestartRequest, FetchRequest, Begin, At
  <2>2. client[c].req # "schedule"
    BY <2>1 DEF FlowInv, ClientFlow, Places
  <2>3. ~Scheduling(c, j) /\ ~Enqueueing(c, j)
    BY <2>1, <2>2 DEF Scheduling, Enqueueing
  <2>4. UNCHANGED <<submitted, job, executor, globalJobsQueue>>
    BY <1>3 DEF IdsRequest, AllRequest
  <2>5. QED  BY <1>1, <2>1, <2>3, <2>4 DEF Queued, TypeOK
<1>4. CASE RLockMap(c) \/ LockAll(c)
  <2>1. client[c].pc \in {"rlock", "lockall"}
    BY <1>4 DEF RLockMap, LockAll, At
  <2>2. client[c].req # "schedule"
    BY <2>1 DEF FlowInv, ClientFlow, Places
  <2>3. ~Scheduling(c, j) /\ ~Enqueueing(c, j)
    BY <2>1, <2>2 DEF Scheduling, Enqueueing
  <2>4. /\ UNCHANGED <<submitted, job, executor, globalJobsQueue>>
        /\ \A d \in Clients \ {c} : client'[d] = client[d]
    BY <1>4 DEF RLockMap, LockAll, TypeOK
  <2>5. QED  BY <1>1, <2>3, <2>4 DEF Queued
<1>5. CASE NextJob(c)
  <2>1. PICK k \in client[c].todo :
           client' = [client EXCEPT ![c].pc = LoopBody[client[c].req],
                                    ![c].todo = @ \ {k}, ![c].job = k]
    BY <1>5 DEF NextJob
  <2>2. /\ \A d \in Clients \ {c} : client'[d] = client[d]
        /\ client'[c].pc = LoopBody[client[c].req]
        /\ client'[c].req = client[c].req
        /\ client'[c].todo = client[c].todo \ {k}
        /\ client'[c].job = k
    BY <2>1 DEF TypeOK, Client
  <2>3. client[c].pc = "next" /\ LoopBody["schedule"] = "lock"
    BY <1>5 DEF NextJob, At, LoopBody
  <2>4. Scheduling(c, j) => Scheduling(c, j)'
    BY <2>2, <2>3 DEF Scheduling
  <2>5. ~Enqueueing(c, j)
    BY <2>3 DEF Enqueueing
  <2>6. QED  BY <1>1, <1>5, <2>2, <2>4, <2>5 DEF NextJob, Queued, Owned
<1>6. CASE EndRequest(c)
  <2>1. client[c].pc = "next" /\ client[c].todo = {}
    BY <1>6 DEF EndRequest, At
  <2>2. ~Scheduling(c, j) /\ ~Enqueueing(c, j)
    BY <2>1 DEF Scheduling, Enqueueing
  <2>3. QED  BY <1>1, <1>6, <2>2 DEF EndRequest, Queued, TypeOK
<1>7. CASE LockMap(c)
  <2>1. PICK pc \in {"lockall", "register", "reset"} :
           /\ Goto(c, pc)
           /\ client[c].req = "schedule" => pc = "register"
    BY <1>7 DEF LockMap
  <2>2. pc \in ClientPC /\ pc # "next"
    BY DEF ClientPC
  <2>3. /\ \A d \in Clients \ {c} : client'[d] = client[d]
        /\ client'[c].pc = pc
        /\ client'[c].req = client[c].req
        /\ client'[c].todo = client[c].todo
        /\ client'[c].job = client[c].job
    BY <2>1, <2>2, GotoEffect DEF TypeOK
  <2>4. Scheduling(c, j) => Scheduling(c, j)'
    BY <2>1, <2>3 DEF Scheduling
  <2>5. ~Enqueueing(c, j)
    BY <1>7 DEF LockMap, At, Enqueueing
  <2>6. QED  BY <1>1, <1>7, <2>3, <2>4, <2>5 DEF LockMap, Queued, Owned
<1>8. CASE Register(c)
  <2>1. /\ \A d \in Clients \ {c} : client'[d] = client[d]
        /\ client'[c].pc = "enqueue"
        /\ client'[c].req = client[c].req
        /\ client'[c].todo = client[c].todo
        /\ client'[c].job = client[c].job
    BY <1>8, GotoEffect DEF Register, TypeOK, ClientPC
  <2>2. Scheduling(c, j) => Scheduling(c, j)' \/ Enqueueing(c, j)'
    BY <2>1 DEF Scheduling, Enqueueing
  <2>3. ~Enqueueing(c, j)
    BY <1>8 DEF Register, At, Enqueueing
  <2>4. QED  BY <1>1, <1>8, <2>1, <2>2, <2>3 DEF Register, Queued, Owned
<1>9. CASE Enqueue(c)
  <2>1. /\ \A d \in Clients \ {c} : client'[d] = client[d]
        /\ client'[c].req = client[c].req
        /\ client'[c].todo = client[c].todo
        /\ client[c].pc = "enqueue"
    BY <1>9, GotoEffect DEF Enqueue, At, TypeOK, ClientPC
  <2>2. Scheduling(c, j) => Scheduling(c, j)'
    BY <2>1 DEF Scheduling
  <2>3. /\ globalJobsQueue \in Seq(Jobs)
        /\ globalJobsQueue' = Append(globalJobsQueue, client[c].job)
        /\ client[c].job \in Jobs
    BY <1>9, <2>1, JobInHand DEF Enqueue, TypeOK
  <2>4. Enqueueing(c, j) => Queued(j)'
    BY <2>3 DEF Enqueueing, Queued
  <2>5. Queued(j) => Queued(j)'
    BY <2>3 DEF Queued
  <2>6. QED  BY <1>1, <1>9, <2>1, <2>2, <2>4, <2>5 DEF Enqueue, Owned
<1>10. CASE Reset(c)
  <2>1. /\ \A d \in Clients \ {c} : client'[d] = client[d]
        /\ client'[c].pc = "enqueue"
        /\ client'[c].job = client[c].job
    BY <1>10, GotoEffect DEF Reset, TypeOK, ClientPC
  <2>2. CASE j = client[c].job
    BY <2>1, <2>2 DEF Owned, Enqueueing
  <2>3. CASE j # client[c].job
    <3>1. client[c].pc = "reset" /\ client[c].req # "schedule"
      BY <1>10 DEF Reset, At, FlowInv, ClientFlow, Places
    <3>2. ~Scheduling(c, j) /\ ~Enqueueing(c, j)
      BY <3>1 DEF Scheduling, Enqueueing
    <3>3. Pending(j) /\ j \in submitted
      BY <1>10, <2>3 DEF Reset, Pending, TypeOK
    <3>4. Owned(j)
      BY <3>3 DEF NoLostJob
    <3>5. QED
      BY <1>10, <2>1, <3>2, <3>4, OwnedKept DEF Reset, Queued
  <2>4. QED  BY <2>2, <2>3
<1>11. CASE ResetPanic(c) \/ Fetch(c)
  <2>1. /\ client[c].pc \in {"reset", "count"} /\ client[c].req # "schedule"
        /\ \A d \in Clients \ {c} : client'[d] = client[d]
    BY <1>11, GotoEffect
       DEF ResetPanic, Fetch, At, FlowInv, ClientFlow, Places, TypeOK, ClientPC
  <2>2. ~Scheduling(c, j) /\ ~Enqueueing(c, j)
    BY <2>1 DEF Scheduling, Enqueueing
  <2>3. Pending(j)
    <3>1. CASE ResetPanic(c)
      BY <3>1 DEF ResetPanic, Pending, TypeOK
    <3>2. CASE Fetch(c)
      BY <3>2, JobInHand DEF Fetch, CountFetch, Pending, TypeOK, Job
    <3>3. QED  BY <1>11, <3>1, <3>2
  <2>4. j \in submitted /\ executor' = executor /\ Queued(j)' = Queued(j)
    BY <1>11 DEF ResetPanic, Fetch, Queued
  <2>5. Owned(j)
    BY <2>3, <2>4 DEF NoLostJob
  <2>6. QED  BY <2>1, <2>2, <2>4, <2>5, OwnedKept
<1>12. CASE \/ Lookup(c) \/ CheckUnknown(c) \/ CheckRunning(c)
            \/ CheckCompleted(c) \/ StopSend(c) \/ Status(c)
  <2>1. client[c].pc \in {"lookup", "check", "send", "report"}
    BY <1>12 DEF Lookup, CheckUnknown, CheckRunning, CheckCompleted, StopSend,
                 Status, At
  <2>2. client[c].req # "schedule"
    BY <2>1 DEF FlowInv, ClientFlow, Places
  <2>3. ~Scheduling(c, j) /\ ~Enqueueing(c, j)
    BY <2>1, <2>2 DEF Scheduling, Enqueueing
  <2>4. /\ UNCHANGED <<submitted, job, executor, globalJobsQueue>>
        /\ \E pc : Goto(c, pc)
    BY <1>12 DEF Lookup, CheckUnknown, CheckRunning, CheckCompleted, StopSend,
                 Status
  <2>5. \A d \in Clients \ {c} : client'[d] = client[d]
    BY <2>4 DEF Goto, TypeOK
  <2>6. QED  BY <1>1, <2>3, <2>4, <2>5 DEF Queued
<1>13. QED
  BY <1>2, <1>3, <1>4, <1>5, <1>6, <1>7, <1>8, <1>9, <1>10, <1>11, <1>12
     DEF ClientNext

\* A step of an executor loses no job.
LEMMA ExecutorLosesNone ==
    ASSUME TypeOK, FlowInv, NoLostJob, NEW e \in Executors, ExecutorNext(e)
    PROVE  NoLostJob'
<1> SUFFICES ASSUME NEW j \in submitted \cap Short, Pending(j)'
             PROVE  Owned(j)'
  BY DEF NoLostJob, ExecutorNext, Pickup, ExecFail, ExecStart, ExecTimeout,
         ExecStop, ExecDone, Leave, ExecComplete, ExecEnd, ExecRecord, ExecExit
<1> j \in Jobs
  BY JobsAssumption
<1>1. /\ client' = client
      /\ \A d \in Executors \ {e} : executor'[d] = executor[d]
  BY DEF ExecutorNext, Pickup, ExecFail, ExecStart, ExecTimeout, ExecStop,
         ExecDone, Leave, ExecComplete, ExecEnd, ExecRecord, ExecExit, TypeOK
<1>2. ASSUME Pending(j), Executing(e, j) => Owned(j)', Queued(j) => Owned(j)'
      PROVE  Owned(j)'
  BY <1>1, <1>2 DEF NoLostJob, Owned, Scheduling, Enqueueing, Executing
<1>3. CASE Pickup(e)
  <2>1. /\ globalJobsQueue \in Seq(Jobs) /\ globalJobsQueue # <<>>
        /\ globalJobsQueue' = Tail(globalJobsQueue)
        /\ executor'[e].job = Head(globalJobsQueue)
        /\ executor'[e].pc = "start"
        /\ executor[e].pc = "idle"
    BY <1>3 DEF Pickup, InRun, TypeOK, NoRun
  <2>2. ASSUME NEW i \in 1 .. Len(globalJobsQueue), globalJobsQueue[i] = j
        PROVE  Owned(j)'
    <3>1. CASE i = 1
      BY <2>1, <2>2, <3>1 DEF Owned, Executing
    <3>2. CASE i # 1
      <4>1. /\ i - 1 \in 1 .. Len(globalJobsQueue')
            /\ globalJobsQueue'[i - 1] = j
        BY <2>1, <2>2, <3>2
      <4>2. QED  BY <4>1 DEF Owned, Queued
    <3>3. QED  BY <3>1, <3>2
  <2>3. QED
    BY <1>2, <1>3, <2>1, <2>2 DEF Pickup, Pending, Queued, Executing
<1>4. CASE ExecStart(e)
  <2>1. executor'[e].pc = "select" /\ executor'[e].job = executor[e].job
    BY <1>4 DEF ExecStart, TypeOK, Executor
  <2>2. QED
    BY <1>2, <1>4, <2>1 DEF ExecStart, Pending, Queued, Owned, Executing
<1>5. CASE ExecTimeout(e) \/ ExecStop(e) \/ ExecDone(e)
  <2>1. PICK err, cause : Leave(e, err, cause)
    BY <1>5 DEF ExecTimeout, ExecStop, ExecDone
  <2>2. executor'[e].pc = "complete" /\ executor'[e].job = executor[e].job
    BY <2>1 DEF Leave, TypeOK, Executor
  <2>3. QED
    BY <1>2, <2>1, <2>2 DEF Leave, Pending, Queued, Owned, Executing
<1>6. CASE ExecFail(e) \/ ExecComplete(e)
  <2>1. executor[e].job \in Jobs
    BY <1>6, JobInRun DEF ExecFail, ExecComplete, InRun
  <2>2. job'[executor[e].job].iscompleted
    <3>1. CASE ExecFail(e)
      BY <2>1, <3>1 DEF ExecFail, FailedInfos, TypeOK, Job
    <3>2. CASE ExecComplete(e)
      BY <2>1, <3>2 DEF ExecComplete, TypeOK, Job
    <3>3. QED  BY <1>6, <3>1, <3>2
  <2>3. j # executor[e].job
    BY <2>2 DEF Pending
  <2>4. job'[j] = job[j] /\ globalJobsQueue' = globalJobsQueue
    BY <1>6, <2>3 DEF ExecFail, ExecComplete, TypeOK
  <2>5. QED
    BY <1>2, <2>3, <2>4 DEF Pending, Queued, Owned, Executing
<1>7. CASE ExecEnd(e) \/ ExecRecord(e) \/ ExecExit(e)
  <2>1. ~Executing(e, j) /\ globalJobsQueue' = globalJobsQueue
    BY <1>7 DEF ExecEnd, ExecRecord, ExecExit, InRun, Executing
  <2>2. job'[j].iscompleted = job[j].iscompleted
    <3>1. CASE ExecEnd(e)
      BY <3>1 DEF ExecEnd, TypeOK, Job
    <3>2. CASE ExecRecord(e)
      BY <3>2 DEF ExecRecord, TypeOK, Job
    <3>3. CASE ExecExit(e)
      BY <3>3 DEF ExecExit, TypeOK, Job
    <3>4. QED  BY <1>7, <3>1, <3>2, <3>3
  <2>3. QED  BY <1>2, <2>1, <2>2 DEF Pending, Queued, Owned
<1>8. QED  BY <1>3, <1>4, <1>5, <1>6, <1>7 DEF ExecutorNext

\* NoJobIsLost: however schedules, stops, restarts and cleanups interleave, a
\* short job that is not completed is with a request that will enqueue it, in
\* the queue, or with an executor that will complete it.
THEOREM NoJobIsLost == Spec => []NoLostJob
<1>1. Init => NoLostJob
  BY DEF Init, NoLostJob
<1>2. IInv /\ NoLostJob /\ [Next]_vars => NoLostJob'
  <2> SUFFICES ASSUME IInv, NoLostJob, [Next]_vars
               PROVE  NoLostJob'
    OBVIOUS
  <2>1. ASSUME UNCHANGED <<client, executor, globalJobsQueue, submitted>>,
               \A j \in Jobs : job'[j].iscompleted = job[j].iscompleted
        PROVE  NoLostJob'
    BY <2>1, JobsAssumption DEF NoLostJob, Owned, Scheduling, Enqueueing,
         Queued, Executing, Pending
  <2>2. CASE CleanerNext \/ UNCHANGED vars
    BY <2>1, <2>2
       DEF vars, CleanerNext, CleanupWake, CleanupLock, CleanupLocked,
           CleanupCheck, CleanupDelete, CleanupUnlock
  <2>3. ASSUME NEW j \in Jobs, Age(j)
        PROVE  NoLostJob'
    BY <2>1, <2>3 DEF Age, IInv, TypeOK, Job
  <2>4. QED
    BY <2>2, <2>3, ClientLosesNone, ExecutorLosesNone DEF Next, IInv
<1>3. QED  BY <1>1, <1>2, Invariant, PTL DEF Spec

=============================================================================
