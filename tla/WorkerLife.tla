----------------------------- MODULE WorkerLife ----------------------------
(***************************************************************************)
(* What the rest of the system may rely on about the life of one worker    *)
(* process: once it is up it exits in order only after it has removed the  *)
(* pid file, and it never serves again once it has begun to leave.  It may *)
(* give up before it is up, and crash at any moment, with the pid file     *)
(* still there.                                                            *)
(***************************************************************************)
EXTENDS Integers

VARIABLES
    life,       \* where the process is in its life
    removals    \* how many times it has removed the pid file

lifeVars == <<life, removals>>

LifeTypeOK == /\ life \in {"new", "up", "leaving", "exited", "gaveup", "crashed"}
              /\ removals \in 0 .. 2

LifeInit == life = "new" /\ removals = 0

\* The removal of the pid file is deferred.
Begin == /\ life = "new"
         /\ life' = "up"
         /\ UNCHANGED removals

\* The process ends before that.
GiveUp == /\ life = "new"
          /\ life' = "gaveup"
          /\ UNCHANGED removals

\* An exit signal, or a failure while the worker starts.
Leave == /\ life = "up"
         /\ life' = "leaving"
         /\ removals' = 1

\* The deferred removal, after the one of the signal handler.
RemoveAgain == /\ life = "leaving" /\ removals = 1
               /\ removals' = 2
               /\ UNCHANGED life

Exit == /\ life = "leaving"
        /\ life' = "exited"
        /\ UNCHANGED removals

Crash == /\ life \in {"new", "up", "leaving"}
         /\ life' = "crashed"
         /\ UNCHANGED removals

LifeNext == Begin \/ GiveUp \/ Leave \/ RemoveAgain \/ Exit \/ Crash

LifeSpec == LifeInit /\ [][LifeNext]_lifeVars
=============================================================================
