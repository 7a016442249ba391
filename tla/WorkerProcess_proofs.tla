----------------------- MODULE WorkerProcess_proofs ------------------------
(***************************************************************************)
(* Proofs about WorkerProcess, for any sets of jobs and of diagnostics     *)
(* requests, and any capacity of the queue and of the channel of signals.  *)
(***************************************************************************)
EXTENDS WorkerProcess, TLAPS

-----------------------------------------------------------------------------
(* The invariant *)

\* What is sent on a buffered channel and received from it.
LEMMA ChannelOps ==
    ASSUME NEW S, NEW q \in Seq(S), NEW n \in Nat, Len(q) <= n
    PROVE  /\ q # <<>> => /\ Head(q) \in S
                          /\ Tail(q) \in Seq(S) /\ Len(Tail(q)) <= n
           /\ \A e \in S : Len(q) < n => /\ Append(q, e) \in Seq(S)
                                       /\ Len(Append(q, e)) <= n
  OBVIOUS

\* The steps of runWorkerService and of the web server keep the invariant.
LEMMA InvMain == WorkerInv /\ MainNext => WorkerInv'
<1> SUFFICES ASSUME WorkerInv, MainNext  PROVE WorkerInv'
  OBVIOUS
<1> USE DEF WorkerInv, TypeOK, OneDump, RemovalInv, StartInv, ExitInv, WaitInv,
            Count, cancelled, Dead, signalVars, jobVars, loopVars
<1>1. CASE InitFails
  BY <1>1 DEF InitFails
<1>2. CASE StartGoroutines
  BY <1>2 DEF StartGoroutines
<1>3. CASE CertificateFails
  BY <1>3 DEF CertificateFails
<1>4. CASE Listen
  BY <1>4 DEF Listen
<1>5. CASE ListenFails
  BY <1>5 DEF ListenFails
<1>6. CASE Shutdown
  BY <1>6 DEF Shutdown
<1>7. CASE ServeReturns
  BY <1>7 DEF ServeReturns
<1>8. CASE WaitGroup
  BY <1>8 DEF WaitGroup
<1>9. CASE DeferredRemove
  BY <1>9 DEF DeferredRemove
<1>10. CASE ExitProcess
  BY <1>10 DEF ExitProcess
<1>11. CASE GiveUp
  BY <1>11 DEF GiveUp
<1>12. CASE DeferRemoval
  BY <1>12 DEF DeferRemoval
<1>13. QED
  BY <1>1, <1>2, <1>3, <1>4, <1>5, <1>6, <1>7, <1>8, <1>9, <1>10, <1>11,
     <1>12 DEF MainNext

\* So do signals, dumps and diagnostics requests,
LEMMA InvSignal == WorkerInv /\ SignalNext => WorkerInv'
<1> SUFFICES ASSUME WorkerInv, SignalNext  PROVE WorkerInv'
  OBVIOUS
<1> USE DEF WorkerInv, TypeOK, OneDump, RemovalInv, StartInv, ExitInv, WaitInv,
            Count, cancelled, Dead, signalVars, jobVars, loopVars
<1>1. ASSUME NEW s \in Signals, OsSignal(s)  PROVE WorkerInv'
  <2>1. signalsChan' \in Seq(Signals) /\ Len(signalsChan') <= SignalsBuffer
    <3>1. CASE notified
      <4>1. /\ signalsChan' = Append(signalsChan, s)
            /\ Len(signalsChan) < SignalsBuffer
        BY <1>1, <3>1 DEF OsSignal
      <4>2. QED  BY <4>1, ChannelOps, BuffersAssumption
    <3>2. CASE ~notified
      BY <1>1, <3>2 DEF OsSignal
    <3>3. QED  BY <3>1, <3>2
  <2>2. QED  BY <1>1, <2>1 DEF OsSignal
<1>2. CASE Killed
  BY <1>2 DEF Killed
<1>3. CASE Notify
  BY <1>3 DEF Notify
<1>4. CASE TakeQuit
  <2>1. signalsChan' \in Seq(Signals) /\ Len(signalsChan') <= SignalsBuffer
    BY <1>4, ChannelOps, BuffersAssumption DEF TakeQuit, Receive, Signals
  <2>2. QED  BY <1>4, <2>1 DEF TakeQuit, Receive
<1>5. CASE CollectStackTrace
  BY <1>5 DEF CollectStackTrace
<1>6. CASE TakeExit
  <2>1. signalsChan' \in Seq(Signals) /\ Len(signalsChan') <= SignalsBuffer
    BY <1>6, ChannelOps, BuffersAssumption DEF TakeExit, Receive, Signals
  <2>2. QED  BY <1>6, <2>1 DEF TakeExit, Receive
<1>7. CASE RemovePidFile
  BY <1>7 DEF RemovePidFile
<1>8. CASE CloseExit
  BY <1>8 DEF CloseExit
<1>9. ASSUME NEW d \in Diags, DiagRequest(d)  PROVE WorkerInv'
  BY <1>9 DEF DiagRequest, Diag
<1>10. ASSUME NEW d \in Diags, DiagCheck(d)  PROVE WorkerInv'
  BY <1>10 DEF DiagCheck, Diag
<1>11. ASSUME NEW d \in Diags, DiagSend(d)  PROVE WorkerInv'
  <2>1. signalsChan' \in Seq(Signals) /\ Len(signalsChan') <= SignalsBuffer
    BY <1>11, ChannelOps, BuffersAssumption DEF DiagSend, Diag, Signals
  <2>2. QED  BY <1>11, <2>1 DEF DiagSend, Diag
<1>12. QED
  BY <1>1, <1>2, <1>3, <1>4, <1>5, <1>6, <1>7, <1>8, <1>9, <1>10, <1>11
     DEF SignalNext

\* and the cleanup routine, the monitor, the requests and the executors.
LEMMA InvWork == WorkerInv /\ WorkNext => WorkerInv'
<1> SUFFICES ASSUME WorkerInv, WorkNext  PROVE WorkerInv'
  OBVIOUS
<1> USE DEF WorkerInv, TypeOK, OneDump, RemovalInv, StartInv, ExitInv, WaitInv,
            Count, cancelled, Dead, signalVars, jobVars, loopVars
<1>1. CASE CleanupWake
  BY <1>1 DEF CleanupWake, Cleanup
<1>2. CASE CleanupLock
  BY <1>2 DEF CleanupLock, Cleanup
<1>3. CASE CleanupUnlock
  BY <1>3 DEF CleanupUnlock, Cleanup
<1>4. CASE CleanupExit
  BY <1>4 DEF CleanupExit, Cleanup
<1>5. CASE Pickup
  <2>1. /\ queue' \in Seq(Jobs) /\ Len(queue') <= MaxJobsQueueBuffer
        /\ Head(queue) \in Jobs
    BY <1>5, ChannelOps, BuffersAssumption DEF Pickup
  <2>2. QED  BY <1>5, <2>1 DEF Pickup
<1>6. CASE MonitorExit
  BY <1>6 DEF MonitorExit
<1>7. CASE StopStuck
  BY <1>7 DEF StopStuck
<1>8. ASSUME NEW j \in Jobs, Request(j)  PROVE WorkerInv'
  BY <1>8 DEF Request, Step
<1>9. ASSUME NEW j \in Jobs, RequestLock(j)  PROVE WorkerInv'
  BY <1>9 DEF RequestLock, Step
<1>10. ASSUME NEW j \in Jobs, RequestUnlock(j)  PROVE WorkerInv'
  BY <1>10 DEF RequestUnlock, Step
<1>11. ASSUME NEW j \in Jobs, Enqueue(j)  PROVE WorkerInv'
  <2>1. queue' \in Seq(Jobs) /\ Len(queue') <= MaxJobsQueueBuffer
    BY <1>11, ChannelOps, BuffersAssumption DEF Enqueue, Step
  <2>2. QED  BY <1>11, <2>1 DEF Enqueue, Step
<1>12. ASSUME NEW j \in Jobs, ExecStart(j)  PROVE WorkerInv'
  BY <1>12 DEF ExecStart, Step
<1>13. ASSUME NEW j \in Jobs, ExecEnd(j)  PROVE WorkerInv'
  BY <1>13 DEF ExecEnd, Step
<1>14. ASSUME NEW j \in Jobs, ExecFork(j)  PROVE WorkerInv'
  BY <1>14 DEF ExecFork, Step
<1>15. QED
  BY <1>1, <1>2, <1>3, <1>4, <1>5, <1>6, <1>7, <1>8, <1>9, <1>10, <1>11,
     <1>12, <1>13, <1>14 DEF WorkNext

\* A worker starts in the invariant.
LEMMA InvInit == Init => WorkerInv
<1> SUFFICES ASSUME Init  PROVE WorkerInv
  OBVIOUS
<1>1. <<>> \in Seq(Signals) /\ <<>> \in Seq(Jobs) /\ Len(<<>>) = 0
  OBVIOUS
<1>2. TypeOK
  <2>1. signalsChan \in Seq(Signals) /\ Len(signalsChan) <= SignalsBuffer
    BY <1>1, BuffersAssumption DEF Init
  <2>2. queue \in Seq(Jobs) /\ Len(queue) <= MaxJobsQueueBuffer
    BY <1>1, BuffersAssumption DEF Init
  <2>3. diag \in [Diags -> {"idle", "check", "send", "answered"}]
    BY DEF Init
  <2>4. job \in [Jobs -> {"none", "lock", "locked", "enqueue", "queued",
                         "start", "fork", "running", "done"}]
    BY DEF Init
  <2>5. /\ main = "new" /\ removals \in 0 .. 2
        /\ isDumping \in 0 .. 1 /\ dumps \in Nat
        /\ handler = "none" /\ cleaner = "none"
        /\ monitor = "none" /\ server = "none"
    BY DEF Init
  <2>6. /\ notified \in BOOLEAN /\ exit \in BOOLEAN
        /\ mapLock \in Jobs \cup {Cleaner, Stuck, NoOne}
    BY DEF Init
  <2>7. QED  BY ONLY <2>1, <2>2, <2>3, <2>4, <2>5, <2>6 DEF TypeOK
<1>3. OneDump /\ RemovalInv /\ StartInv /\ ExitInv /\ WaitInv
  BY DEF Init, OneDump, RemovalInv, StartInv, ExitInv, WaitInv, Count
<1>4. QED  BY <1>2, <1>3 DEF WorkerInv

\* Nothing else touches it.
LEMMA InvStutter == WorkerInv /\ UNCHANGED vars => WorkerInv'
  BY DEF vars, WorkerInv, TypeOK, OneDump, RemovalInv, StartInv, ExitInv,
         WaitInv, Count, cancelled

\* WorkerInvariant: the invariant holds throughout.
THEOREM WorkerInvariant == Spec => []WorkerInv
<1>1. WorkerInv /\ [Next]_vars => WorkerInv'
  BY InvMain, InvSignal, InvWork, InvStutter DEF Next
<1>2. QED  BY InvInit, <1>1, PTL DEF Spec

-----------------------------------------------------------------------------
(* The properties *)

\* TypeCorrect: the channel of signals and the queue never exceed their
\* capacities, and the pid file is removed twice at most.
THEOREM TypeCorrect == Spec => []TypeOK
<1>1. WorkerInv => TypeOK
  BY DEF WorkerInv
<1>2. QED  BY <1>1, WorkerInvariant, PTL

\* DumpsDoNotOverlap: any number of signals and requests start one collection
\* of stack traces at a time, and the flag always tells whether there is one.
THEOREM DumpsDoNotOverlap == Spec => []OneDump
<1>1. WorkerInv => OneDump
  BY DEF WorkerInv
<1>2. QED  BY <1>1, WorkerInvariant, PTL

\* ExitIsOrderly: a worker that has served does not exit before its signal
\* handler, its monitor and its cleanup routine have left.
THEOREM ExitIsOrderly == Spec => []OrderlyExit
<1>1. WorkerInv => OrderlyExit
  BY DEF WorkerInv, WaitInv, ExitInv, OrderlyExit
<1>2. QED  BY <1>1, WorkerInvariant, PTL

\* LivesAsPromised: the worker process implements WorkerLife.
THEOREM LivesAsPromised == Spec => ImplementsLife
<1>1. Init => WL!LifeInit
  BY DEF Init, WL!LifeInit, life, Dead
<1>2. WorkerInv /\ [Next]_vars => [WL!LifeNext]_WL!lifeVars
  <2> SUFFICES ASSUME WorkerInv, [Next]_vars
               PROVE  WL!LifeNext \/ UNCHANGED <<life, removals>>
    BY DEF WL!lifeVars
  <2> USE DEF WorkerInv, TypeOK, RemovalInv, Count, life, Dead
  <2>1. ASSUME ~Dead, main # "new", ~Dead', main' # "new",
               removals \in 0 .. 1, removals' = removals + 1
        PROVE  WL!LifeNext
    BY <2>1 DEF WL!LifeNext, WL!Leave, WL!RemoveAgain
  <2>2. ASSUME ~Dead, main' = "crashed", removals' = removals
        PROVE  WL!LifeNext
    BY <2>2 DEF WL!LifeNext, WL!Crash
  <2>3. ASSUME Dead <=> Dead', main = "new" <=> main' = "new",
               removals' = removals, Dead => main' = main
        PROVE  UNCHANGED <<life, removals>>
    BY <2>3
  <2> HIDE DEF life
  <2>4. CASE CertificateFails \/ DeferredRemove \/ RemovePidFile
    BY <2>1, <2>4 DEF CertificateFails, DeferredRemove, RemovePidFile, StartInv
  <2>5. CASE ListenFails \/ Killed
    BY <2>2, <2>5 DEF ListenFails, Killed, signalVars
  <2>6. ASSUME NEW s \in Signals, OsSignal(s)
        PROVE  WL!LifeNext \/ UNCHANGED <<life, removals>>
    BY <2>2, <2>3, <2>6 DEF OsSignal
  <2>7. CASE ExitProcess
    BY <2>7 DEF ExitProcess, WL!LifeNext, WL!Exit, life
  <2>8. CASE \/ InitFails \/ StartGoroutines \/ Listen
             \/ Shutdown \/ ServeReturns \/ WaitGroup
    BY <2>3, <2>8 DEF InitFails, StartGoroutines, Listen, Shutdown,
       ServeReturns, WaitGroup
  <2>9. CASE \/ Notify \/ TakeQuit \/ CollectStackTrace
             \/ TakeExit \/ CloseExit
             \/ \E d \in Diags : DiagRequest(d) \/ DiagCheck(d) \/ DiagSend(d)
    BY <2>3, <2>9 DEF Notify, TakeQuit, CollectStackTrace, TakeExit,
       CloseExit, DiagRequest, DiagCheck, DiagSend, Diag, Receive
  <2>10. CASE WorkNext
    BY <2>3, <2>10 DEF WorkNext, CleanupWake, CleanupLock, CleanupUnlock,
       CleanupExit, Cleanup, Pickup, MonitorExit, StopStuck,
       Request, RequestLock, RequestUnlock, Enqueue, ExecStart, ExecFork,
       ExecEnd, Step
  <2>11. CASE UNCHANGED vars
    BY <2>3, <2>11 DEF vars
  <2>12. CASE GiveUp
    BY <2>12 DEF GiveUp, WL!LifeNext, WL!GiveUp, life
  <2>13. CASE DeferRemoval
    BY <2>13 DEF DeferRemoval, WL!LifeNext, WL!Begin, life, StartInv
  <2>14. QED
    BY <2>12, <2>13, <2>4, <2>5, <2>6, <2>7, <2>8, <2>9, <2>10, <2>11 DEF Next,
       MainNext, SignalNext
<1>3. QED  BY <1>1, <1>2, WorkerInvariant, PTL DEF Spec, ImplementsLife,
    WL!LifeSpec
=============================================================================
