---------------------------- MODULE JobLifecycle ----------------------------
(***************************************************************************)
(* What the worker promises about each job, with no lock, queue, handler or *)
(* executor in sight: it is listed once, a run ends in the completed phase  *)
(* and nowhere else, a job is restarted from there and only from there, and *)
(* only a completed job is deleted, for good.                               *)
(***************************************************************************)
CONSTANT Jobs

VARIABLE phase   \* the phase each job is in

Phases == {"absent", "pending", "running", "completed", "deleted"}

LifecycleTypeOK == phase \in [Jobs -> Phases]

Move(j, from, to) ==
    /\ phase[j] = from
    /\ phase' = [phase EXCEPT ![j] = to]

List(j)    == Move(j, "absent", "pending")
Start(j)   == Move(j, "pending", "running")
Fail(j)    == Move(j, "pending", "completed")
Finish(j)  == Move(j, "running", "completed")
Restart(j) == Move(j, "completed", "pending")
Delete(j)  == Move(j, "completed", "deleted")

Init == phase = [j \in Jobs |-> "absent"]

Next == \E j \in Jobs :
           \/ List(j) \/ Start(j) \/ Fail(j) \/ Finish(j)
           \/ Restart(j) \/ Delete(j)

Spec == Init /\ [][Next]_phase
=============================================================================
