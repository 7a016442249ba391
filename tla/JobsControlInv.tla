--------------------------- MODULE JobsControlInv ---------------------------
(***************************************************************************)
(* What the safety properties of JobsControl rest on: which handler may be  *)
(* where, who holds the lock of the map there, and what a goroutine that    *)
(* holds it may rely on.                                                    *)
(***************************************************************************)
EXTENDS JobsControl

\* The places each kind of request passes through.
Places(req) ==
    CASE req = "none"       -> {"idle"}
      [] req = "schedule"   -> {"next", "lock", "register", "enqueue"}
      [] req = "stop"       -> {"rlock", "next", "check", "send"}
      [] req = "stopall"    -> {"rlock", "next", "check", "send"}
      [] req = "restart"    -> {"next", "lookup", "check", "send", "lock",
                                "reset", "enqueue", "panicked"}
      [] req = "restartall" -> {"lock", "lockall", "next", "check", "send",
                                "reset", "enqueue", "panicked"}
      [] req = "fetch"      -> {"next", "lookup", "count"}
      [] req = "status"     -> {"rlock", "next", "report"}

\* Outside the head of its loop a handler has a job in hand.
ClientFlow(c) ==
    /\ client[c].pc \in Places(client[c].req)
    /\ client[c].job = NoJob =>
          \/ client[c].pc \in {"idle", "rlock", "lockall", "next"}
          \/ client[c].pc = "lock" /\ client[c].req = "restartall"

\* FlowInv: a handler is at a place of its own code, and a handler, a run and a
\* deletion have the job they work on.
FlowInv ==
    /\ \A c \in Clients : ClientFlow(c)
    /\ \A e \in Executors :
          executor[e].job = NoJob => executor[e].pc = "idle"
    /\ cleaner.pc = "delete" => cleaner.job \in Jobs

\* The clients that have called mapLock.Lock() and not yet Unlock().
Announced == {c \in Clients :
                 \/ client[c].pc \in {"lockall", "register", "reset",
                                      "panicked"}
                 \/ /\ client[c].req = "restartall"
                    /\ client[c].pc # "lock"}

\* LockInv: the lock of the map is held by exactly those handlers whose place
\* in the code says so, and its owner has waited for the readers to leave.
LockInv ==
    /\ mapLock.readers = MapReaders
    /\ \A c \in Clients : mapLock.writer = c <=> c \in Announced
    /\ mapLock.writer = Cleaner <=> cleaner.pc \in {"locked", "scan", "delete"}
    /\ MapWriters # {} => mapLock.readers = {}

\* DeleteInv: between the check of the cleanup routine and its deletion the
\* job stays completed.
DeleteInv == cleaner.pc = "delete" => job[cleaner.job].iscompleted

IInv == TypeOK /\ FlowInv /\ LockInv /\ DeleteInv

-----------------------------------------------------------------------------
(* Who carries a job on.  Two restarts by id may both hand a job to the      *)
(* monitor, and one may do so while restartAllJobs does.  Without them, or   *)
(* with requests that come one after the other, a job has one owner at a     *)
(* time.                                                                     *)

NoRestartById == "restart" \notin Requests
OneClient == \E c : Clients = {c}
Undisturbed == NoRestartById \/ OneClient
NoRestarts == Requests \cap {"restart", "restartall"} = {}

\* At the head of its loop, and before it, a handler has no job in hand.
BetweenJobs(c) == \/ client[c].pc \in {"rlock", "lockall", "next"}
                  \/ client[c].pc = "lock" /\ client[c].req = "restartall"

\* SubmittedInv: handlers, queue, executors and map deal only with ids that
\* were handed out, a handler has done with the job in hand, and nobody has
\* touched the fields of a job whose id is still to be drawn.
SubmittedInv ==
    /\ globalJobsResults \subseteq submitted
    /\ \A c \in Clients :
          /\ client[c].req \in Requests \cup {"none"}
          /\ client[c].todo \subseteq submitted
          /\ client[c].job \in submitted \cup {NoJob}
          /\ client[c].job \notin client[c].todo
          /\ BetweenJobs(c) => client[c].job = NoJob
    /\ \A i \in 1 .. Len(globalJobsQueue) : globalJobsQueue[i] \in submitted
    /\ \A e \in Executors : executor[e].job \in submitted \cup {NoJob}
    /\ \A j \in Jobs \ submitted : job[j] = NewJob

ClientOwns(c, j) == Scheduling(c, j) \/ Enqueueing(c, j)

\* A job has one owner: a request, a place in the queue or an executor.
OneOwner(j) ==
    /\ \A c, d \in Clients : ClientOwns(c, j) /\ ClientOwns(d, j) => c = d
    /\ \A i, k \in 1 .. Len(globalJobsQueue) :
          globalJobsQueue[i] = j /\ globalJobsQueue[k] = j => i = k
    /\ \A e, f \in Executors : Executing(e, j) /\ Executing(f, j) => e = f
    /\ Queued(j) => \A c \in Clients : ~ClientOwns(c, j)
    /\ \A e \in Executors :
          Executing(e, j) => ~Queued(j) /\ \A c \in Clients : ~ClientOwns(c, j)

\* Someone will run job j, which the map lists from before that on.
InRunPath(j) == \/ \E c \in Clients : Enqueueing(c, j)
                \/ Queued(j)
                \/ \E e \in Executors : Executing(e, j)

\* The map lists a job exactly from its registration on.
WellListed(j) ==
    /\ \A c \in Clients : Scheduling(c, j) => j \notin globalJobsResults
    /\ InRunPath(j) => j \in globalJobsResults

\* A job with an owner has one and is pending.  A restart by id may hand on a
\* job that was deleted meanwhile; without those an owned job is well listed.
WellOwned(j) ==
    /\ OneOwner(j)
    /\ Owned(j) => Pending(j)
    /\ NoRestartById => WellListed(j)

\* OwnerInv: every job is well owned.
OwnerInv == \A j \in Jobs : WellOwned(j)

\* restartAllJobs works on listed short jobs, and the job that a handler is
\* about to reset is completed.
RestartSafe(c) ==
    /\ client[c].req = "restartall" /\ client[c].pc \notin {"lock", "lockall"}
          => /\ client[c].todo \subseteq globalJobsResults \cap Short
             /\ client[c].job \in (globalJobsResults \cap Short) \cup {NoJob}
    /\ At(c, "reset") \/ (client[c].req = "restart" /\ At(c, "lock"))
          => job[client[c].job].iscompleted

\* RestartInv: nobody deletes a job behind the back of restartAllJobs, which
\* owns the map, or resets one that another handler is about to reset.
RestartInv == \A c \in Clients : RestartSafe(c)

\* OwnershipInv: from the draw of its id to the end of its run a job is with one
\* request, in one place of globalJobsQueue or with one executor, pending, and a
\* handler on its way to a reset has not been overtaken.
OwnershipInv == SubmittedInv /\ OwnerInv /\ RestartInv

\* The recorded outcome of job j is that of its run by e, as far as e has come.
RecordsOutcome(e, j) ==
    /\ ~InRun(e, "idle")
    /\ executor[e].pc \in {"start", "select", "complete"} => Pending(j)
    /\ executor[e].pc \in {"end", "record", "exit"} => ~Pending(j)
    /\ executor[e].pc \in {"end", "record"} => ~job[j].issuccess
    /\ executor[e].pc = "exit" => job[j].issuccess = (executor[e].err = "none")
    /\ job[j].exitcode = -1

\* OneRunInv: without restarts a job that a request or the queue has is not
\* being run, not even by an executor that only records its outcome, and one
\* executor at most has it.
OneRunInv ==
    \A j \in Jobs : \A e \in Executors :
       executor[e].job = j
          => /\ ~Queued(j)
             /\ \A c \in Clients : ~ClientOwns(c, j)
             /\ \A f \in Executors : executor[f].job = j => f = e
             /\ RecordsOutcome(e, j)
=============================================================================
