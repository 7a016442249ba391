------------------------ MODULE JobsControlLifecycle ------------------------
(***************************************************************************)
(* JobsControl implements JobLifecycle as long as no request restarts jobs  *)
(* by their ids: what the locks, the queue, the handlers, the executors and *)
(* the cleanup routine do to a job is one of the abstract steps or none.    *)
(***************************************************************************)
EXTENDS JobsControl

\* Job j has an executor that has started its process and not yet completed it.
BeingRun(j) == \E e \in Executors : /\ executor[e].job = j
                                    /\ executor[e].pc \in {"select", "complete"}

\* The handler that creates job j has not listed it yet.
NotYetListed(j) ==
    j \notin submitted \/ \E c \in Clients : Scheduling(c, j)

JobPhase(j) ==
    CASE j \in globalJobsResults /\ job[j].iscompleted -> "completed"
      [] j \in globalJobsResults /\ Pending(j) /\ BeingRun(j) -> "running"
      [] j \in globalJobsResults /\ Pending(j) /\ ~BeingRun(j) -> "pending"
      [] j \notin globalJobsResults /\ NotYetListed(j) -> "absent"
      [] OTHER -> "deleted"

Lifecycle == INSTANCE JobLifecycle WITH phase <- [j \in Jobs |-> JobPhase(j)]

\* ImplementsLifecycle: every step of the handlers, the monitor, the executors
\* and the cleanup routine is a step of JobLifecycle or changes no phase.
ImplementsLifecycle == Lifecycle!Spec
=============================================================================
