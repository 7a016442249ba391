----------------------- MODULE WorkerService_proofs ------------------------
(***************************************************************************)
(* Proofs about WorkerService, for any number of worker processes.  Type   *)
(* correctness is proved for any number of commands at once, the rest for  *)
(* one command at a time.                                                  *)
(***************************************************************************)
EXTENDS WorkerService, TLAPS

-----------------------------------------------------------------------------
(* Any number of commands *)

\* The initial states are in the invariant.
LEMMA InvInit == Init => ServiceInv
<1> SUFFICES ASSUME Init  PROVE ServiceInv
  OBVIOUS
<1>1. worker \in [Workers -> Worker] /\ RemovalInv
  BY DEF Init, Worker, RemovalInv
<1>2. command \in [Commands -> Command] /\ PidInv
  BY DEF Init, NoCommand, Command, Operations, PidInv
<1>3. QED  BY <1>1, <1>2 DEF Init, ServiceInv, TypeOK

\* Removing the pid file touches only the handles of the commands.
LEMMA RemovedKeeps ==
    ASSUME NEW cmds \in [Commands -> Command]
    PROVE  /\ Removed(cmds) \in [Commands -> Command]
           /\ \A c \in Commands : /\ Removed(cmds)[c].pc = cmds[c].pc
                                  /\ Removed(cmds)[c].pid = cmds[c].pid
                                  /\ Removed(cmds)[c].answer = cmds[c].answer
                                  /\ Removed(cmds)[c].handle = FALSE
  BY DEF Removed, Command

\* Nor does a worker that removes it change more than itself, and whether the
\* others are named.
LEMMA RemovalKeeps ==
    ASSUME NEW w \in Workers, worker \in [Workers -> Worker],
           worker[w].removals \in 0 .. 1,
           RemovesPidFile(w, "leaving")
    PROVE  /\ worker' \in [Workers -> Worker]
           /\ worker'[w].life = "leaving"
           /\ worker'[w].removals = worker[w].removals + 1
           /\ \A x \in Workers \ {w} :
                 /\ worker'[x].life = worker[x].life
                 /\ worker'[x].removals = worker[x].removals
                 /\ worker'[x].doomed = worker[x].doomed
                 /\ worker'[x].orphaned = (worker[x].orphaned \/ Named(x))
<1>1. \A x \in Workers : Named(x) \in BOOLEAN
  BY DEF Named
<1>2. \A x \in Workers :
         worker'[x] = IF x = w
                      THEN [worker[w] EXCEPT !.life = "leaving", !.removals = @ + 1]
                      ELSE [worker[x] EXCEPT !.orphaned = @ \/ Named(x)]
  BY DEF RemovesPidFile
<1>3. worker'[w] \in Worker
  <2>1. PICK r \in Worker : r = worker[w] /\ r.removals + 1 \in 0 .. 2
    OBVIOUS
  <2>2. worker'[w] = [r EXCEPT !.life = "leaving", !.removals = r.removals + 1]
    BY <1>2, <2>1
  <2>3. QED  BY ONLY <2>1, <2>2 DEF Worker
<1>4. ASSUME NEW x \in Workers \ {w}
      PROVE  /\ worker'[x] \in Worker
             /\ worker'[x].orphaned = (worker[x].orphaned \/ Named(x))
  <2>1. PICK b \in BOOLEAN : b = (worker[x].orphaned \/ Named(x))
    BY <1>1
  <2>2. worker'[x] = [worker[x] EXCEPT !.orphaned = b]
    BY <1>2, <2>1
  <2>3. QED  BY <2>1, <2>2 DEF Worker
<1>5. worker' \in [Workers -> Worker]
  BY <1>3, <1>4 DEF RemovesPidFile
<1>6. QED  BY <1>2, <1>4, <1>5 DEF Worker

\* A step of a worker keeps the invariant.
LEMMA InvWorker ==
    ASSUME NEW w \in Workers, ServiceInv, WorkerNext(w)
    PROVE  ServiceInv'
<1> USE DEF ServiceInv, TypeOK, RemovalInv, PidInv, Becomes, Worker
<1>1. CASE Serve(w)
  BY <1>1 DEF Serve
<1>2. CASE ListenFails(w)
  BY <1>2 DEF ListenFails
<1>3. CASE Leave(w)
  <2>1. /\ worker' \in [Workers -> Worker] /\ RemovalInv'
    BY <1>3, RemovalKeeps DEF Leave
  <2>2. QED  BY <1>3, <2>1, RemovedKeeps DEF Leave, RemovesPidFile
<1>4. CASE RemoveAgain(w)
  <2>1. /\ worker' \in [Workers -> Worker] /\ RemovalInv'
    BY <1>4, RemovalKeeps DEF RemoveAgain
  <2>2. QED  BY <1>4, <2>1, RemovedKeeps DEF RemoveAgain, RemovesPidFile
<1>5. CASE Exit(w)
  BY <1>5 DEF Exit
<1>6. CASE Crash(w)
  BY <1>6 DEF Crash, Alive, Up
<1>7. CASE DeferRemoval(w) \/ GiveUp(w)
  BY <1>7 DEF DeferRemoval, GiveUp
<1>8. QED  BY <1>1, <1>2, <1>3, <1>4, <1>5, <1>6, <1>7 DEF WorkerNext

\* What the helpers of the commands do to the command c.
LEMMA Gone ==
    ASSUME NEW c \in Commands, command \in [Commands -> Command], Done(c)
    PROVE  /\ command' \in [Commands -> Command]
           /\ command'[c] = NoCommand
           /\ \A d \in Commands \ {c} : command'[d] = command[d]
  BY DEF Done, NoCommand, Command, Operations

\* Goto changes the place of c and nothing else of it.
LEMMA Went ==
    ASSUME NEW c \in Commands, command \in [Commands -> Command],
           NEW pc \in {"discard", "kill", "stat", "spawn", "killchild"},
           Goto(c, pc)
    PROVE  /\ command' \in [Commands -> Command]
           /\ command'[c].pc = pc /\ command'[c].pid = command[c].pid
           /\ command'[c].answer = command[c].answer
           /\ \A d \in Commands \ {c} : command'[d] = command[d]
  BY DEF Goto, Command

\* A command that is not there has no pid and no answer.
LEMMA Idle == /\ NoCommand.pc = "idle" /\ NoCommand.pid = NoPid
              /\ NoCommand.answer = "none"
  BY DEF NoCommand

\* A step of a command keeps it.
LEMMA InvCommand ==
    ASSUME NEW c \in Commands, ServiceInv, CommandNext(c)
    PROVE  ServiceInv'
<1> USE DEF ServiceInv, At
<1>1. /\ command \in [Commands -> Command] /\ worker \in [Workers -> Worker]
      /\ pidFile \in Workers \cup {"none", "empty"}
  BY DEF TypeOK
<1>2. ASSUME command' \in [Commands -> Command],
             \/ command'[c].pc \notin {"remove", "kill", "create", "write",
                                       "killchild"}
             \/ command'[c].pid \in Workers,
             \A d \in Commands \ {c} : /\ command'[d].pc = command[d].pc
                                       /\ command'[d].pid = command[d].pid,
             pidFile' \in Workers \cup {"none", "empty"},
             worker' = worker
      PROVE  ServiceInv'
  BY <1>2 DEF TypeOK, RemovalInv, PidInv
<1>3. CASE Give(c)
  <2>1. /\ command' \in [Commands -> Command]
        /\ command'[c].pc \in {"stat", "read"}
        /\ \A d \in Commands \ {c} : command'[d] = command[d]
    BY <1>1, <1>3 DEF Give, Command, Operations
  <2>2. QED  BY <1>1, <1>2, <1>3, <2>1 DEF Give
<1>4. CASE ReadPid(c)
  <2>1. CASE Done(c) \/ Goto(c, "stat") \/ Goto(c, "discard")
    BY <1>1, <1>2, <1>4, <2>1, Gone, Went, Idle DEF ReadPid
  <2>2. CASE /\ pidFile \in Workers
             /\ command' = [command EXCEPT ![c].pc = "remove",
                                           ![c].pid = pidFile]
    <3>1. /\ command' \in [Commands -> Command]
          /\ command'[c].pid = pidFile
          /\ \A d \in Commands \ {c} : command'[d] = command[d]
      BY <1>1, <2>2 DEF Command
    <3>2. QED  BY <1>1, <1>2, <1>4, <2>2, <3>1 DEF ReadPid
  <2>3. QED  BY <1>4, <2>1, <2>2 DEF ReadPid
<1>5. CASE ReadStatus(c)
  <2>1. /\ command' \in [Commands -> Command]
        /\ command'[c].pc = "report"
        /\ \A d \in Commands \ {c} : command'[d] = command[d]
    <3>1. PICK a \in {"active", "inactive"} :
             command' = [command EXCEPT ![c].pc = "report", ![c].answer = a]
      BY <1>5 DEF ReadStatus
    <3>2. QED  BY <1>1, <3>1 DEF Command
  <2>2. QED  BY <1>1, <1>2, <1>5, <2>1 DEF ReadStatus
<1>6. CASE Report(c)
  BY <1>1, <1>2, <1>6, Gone, Idle DEF Report
<1>7. CASE Discard(c)
  <2> DEFINE cmds == [command EXCEPT ![c].pc = "stat"]
  <2>1. /\ cmds \in [Commands -> Command] /\ cmds[c].pc = "stat"
        /\ \A d \in Commands \ {c} : cmds[d] = command[d]
    BY <1>1 DEF Command
  <2>2. command' = Removed(cmds) /\ worker' = worker /\ pidFile' = "none"
    BY <1>7 DEF Discard
  <2> HIDE DEF cmds
  <2>3. QED  BY <1>2, <2>1, <2>2, RemovedKeeps
<1>8. CASE RemovePidFile(c)
  <2> DEFINE cmds == [command EXCEPT ![c].pc = "kill"]
  <2>1. /\ cmds \in [Commands -> Command] /\ cmds[c].pid \in Workers
        /\ \A d \in Commands \ {c} : cmds[d] = command[d]
    BY <1>1, <1>8 DEF RemovePidFile, Command, PidInv
  <2>2. command' = Removed(cmds) /\ worker' = worker /\ pidFile' = "none"
    BY <1>8 DEF RemovePidFile
  <2> HIDE DEF cmds
  <2>3. QED  BY <1>2, <2>1, <2>2, RemovedKeeps
<1>9. ASSUME NEW w \in Workers,
             worker' = [worker EXCEPT ![w].doomed = worker'[w].doomed],
             worker'[w].doomed \in BOOLEAN,
             command' \in [Commands -> Command],
             PidInv', pidFile' = pidFile
      PROVE  ServiceInv'
  <2>1. /\ worker' \in [Workers -> Worker]
        /\ \A x \in Workers : /\ worker'[x].life = worker[x].life
                              /\ worker'[x].removals = worker[x].removals
    BY <1>1, <1>9 DEF Worker
  <2>2. QED  BY <1>1, <1>9, <2>1 DEF TypeOK, RemovalInv
<1>10. CASE KillWorker(c)
  <2> DEFINE w == command[c].pid
  <2>1. w \in Workers /\ pidFile' = pidFile
    BY <1>10 DEF KillWorker, PidInv
  <2>2. Goto(c, "stat") \/ Done(c)
    BY <1>10 DEF KillWorker
  <2>3. command' \in [Commands -> Command] /\ PidInv'
    BY <1>1, <2>2, Gone, Went, Idle DEF PidInv
  <2>4. CASE worker' = [worker EXCEPT ![w].doomed = TRUE]
    <3>1. worker'[w].doomed = TRUE
      BY <1>1, <2>1, <2>4 DEF Worker
    <3>2. QED  BY <1>9, <2>1, <2>3, <2>4, <3>1
  <2>5. CASE worker' = worker
    BY <1>1, <2>1, <2>3, <2>5 DEF TypeOK, RemovalInv
  <2>6. QED  BY <1>10, <2>4, <2>5 DEF KillWorker
<1>11. CASE StatPidFile(c)
  BY <1>1, <1>2, <1>11, Gone, Went, Idle DEF StatPidFile
<1>12. CASE Spawn(c)
  <2>1. PICK w \in Workers :
           /\ worker[w].life = "unborn"
           /\ Becomes(w, "new")
           /\ command' = [command EXCEPT ![c].pc = "create", ![c].pid = w]
    BY <1>12 DEF Spawn
  <2>2. command' \in [Commands -> Command] /\ PidInv'
    <3>1. /\ command' \in [Commands -> Command]
          /\ command'[c].pid = w
          /\ \A d \in Commands \ {c} : command'[d] = command[d]
      BY <1>1, <2>1 DEF Command
    <3>2. QED  BY <3>1 DEF PidInv
  <2>3. worker' \in [Workers -> Worker] /\ RemovalInv'
    BY <1>1, <2>1 DEF Becomes, Worker, RemovalInv
  <2>4. QED  BY <1>1, <1>12, <2>2, <2>3 DEF Spawn, TypeOK
<1>13. CASE SpawnFails(c)
  BY <1>1, <1>2, <1>13, Gone, Idle DEF SpawnFails
<1>14. CASE SavePidCreate(c)
  <2>1. /\ command' \in [Commands -> Command]
        /\ command'[c].pid = command[c].pid /\ command[c].pid \in Workers
        /\ \A d \in Commands \ {c} : command'[d] = command[d]
    BY <1>1, <1>14 DEF SavePidCreate, Command, PidInv
  <2>2. QED  BY <1>1, <1>2, <1>14, <2>1 DEF SavePidCreate
<1>15. CASE SavePidWrite(c)
  <2>1. command[c].pid \in Workers
    BY <1>15 DEF SavePidWrite, PidInv
  <2>2. QED  BY <1>1, <1>2, <1>15, <2>1, Gone, Idle DEF SavePidWrite
<1>16. CASE SavePidFails(c)
  <2>1. command[c].pid \in Workers
    BY <1>16 DEF SavePidFails, PidInv
  <2>2. QED  BY <1>1, <1>2, <1>16, <2>1, Went DEF SavePidFails
<1>17. CASE KillChild(c)
  <2>1. /\ command[c].pid \in Workers /\ pidFile' = pidFile
        /\ command' \in [Commands -> Command] /\ PidInv'
    BY <1>1, <1>17, Gone, Idle DEF KillChild, PidInv
  <2>2. worker'[command[c].pid].doomed = Alive(command[c].pid)
    BY <1>1, <1>17, <2>1 DEF KillChild, Worker
  <2>3. Alive(command[c].pid) \in BOOLEAN
    BY DEF Alive, Up
  <2>4. QED  BY <1>9, <1>17, <2>1, <2>2, <2>3 DEF KillChild
<1>18. QED
  BY <1>3, <1>4, <1>5, <1>6, <1>7, <1>8, <1>10, <1>11, <1>12, <1>13, <1>14,
     <1>15, <1>16, <1>17 DEF CommandNext

\* ServiceInvariant: the invariant holds throughout.
THEOREM ServiceInvariant == Spec => []ServiceInv
<1>1. ServiceInv /\ UNCHANGED vars => ServiceInv'
  BY DEF ServiceInv, TypeOK, RemovalInv, PidInv, vars
<1>2. ServiceInv /\ [Next]_vars => ServiceInv'
  BY <1>1, InvWorker, InvCommand DEF Next
<1>3. QED  BY InvInit, <1>2, PTL DEF Spec

\* TypeCorrect: no worker removes the pid file more than twice.
THEOREM TypeCorrect == Spec => []TypeOK
<1>1. ServiceInv => TypeOK
  BY DEF ServiceInv
<1>2. QED  BY <1>1, ServiceInvariant, PTL

-----------------------------------------------------------------------------
(* One command at a time *)

OneCommand == \E k : Commands = {k}

Busy == {"kill", "create", "write", "killchild"}

\* A worker takes a step that makes no worker up, and removes the file or leaves
\* it alone; the workers named there are orphaned when it is removed.
LEMMA WorkerKeepsNames ==
    ASSUME NEW w \in Workers, OneCommandInv, ServiceInv', WorkerNext(w)
    PROVE  OneCommandInv'
<1> USE DEF OneCommandInv
<1>1. /\ worker \in [Workers -> Worker] /\ command \in [Commands -> Command]
      /\ RemovalInv /\ PidInv
  BY DEF ServiceInv, TypeOK
<1>2. CASE Leave(w) \/ RemoveAgain(w)
  <2>1. RemovesPidFile(w, "leaving") /\ worker[w].removals \in 0 .. 1
    BY <1>1, <1>2 DEF Leave, RemoveAgain, RemovalInv
  <2>2. /\ ~Managed(w)'
        /\ \A x \in Workers \ {w} :
              /\ Managed(x)' = Managed(x)
              /\ worker[x].orphaned \/ Named(x) => worker'[x].orphaned
    BY <1>1, <2>1, RemovalKeeps DEF Managed, Up
  <2>3. /\ pidFile' = "none"
        /\ \A c \in Commands : /\ command'[c].pc = command[c].pc
                               /\ command'[c].pid = command[c].pid
                               /\ command'[c].answer = command[c].answer
    BY <1>1, <2>1, RemovedKeeps DEF RemovesPidFile
  <2>4. ASSUME NEW c \in Commands, command[c].pc = "write",
               NEW x \in Workers, x = command[c].pid, Managed(x)'
        PROVE  worker'[x].orphaned
    <3>1. x # w /\ Managed(x)
      BY <2>2, <2>4
    <3>2. worker[x].orphaned \/ Named(x)
      BY <2>4, <3>1 DEF FileInv, Named, At
    <3>3. QED  BY <2>2, <3>1, <3>2
  <2>5. FileInv'
    BY <1>1, <2>3, <2>4, PidAssumption DEF FileInv, At, PidInv, Managed, Up
  <2>6. NamedInv'
    BY <2>2, <2>3 DEF NamedInv, Named
  <2>7. QED  BY <2>5, <2>6
<1>3. ASSUME pidFile' = pidFile, command' = command,
             \A x \in Workers : /\ worker'[x].orphaned = worker[x].orphaned
                                /\ Managed(x)' => Managed(x)
      PROVE  OneCommandInv'
  <2>1. FileInv'
    <3>1. \A c \in Commands : command[c].pc = "write" => command[c].pid \in Workers
      BY <1>1 DEF PidInv
    <3>2. QED  BY <1>3, <3>1 DEF FileInv, At, Managed, Up
  <2>2. NamedInv'
    BY <1>3 DEF NamedInv, Managed, Up
  <2>3. QED  BY <2>1, <2>2
<1>4. CASE \/ DeferRemoval(w) \/ GiveUp(w) \/ Serve(w) \/ ListenFails(w)
           \/ Exit(w)
  BY <1>1, <1>3, <1>4 DEF DeferRemoval, GiveUp, Serve, ListenFails, Exit,
     Becomes, Worker, Managed, Up
<1>5. CASE Crash(w)
  BY <1>1, <1>3, <1>5 DEF Crash, Worker, Managed, Up
<1>6. QED  BY <1>2, <1>4, <1>5 DEF WorkerNext

\* A step of the command: the file and the names stay in order.
LEMMA CommandKeepsNames ==
    ASSUME NEW c \in Commands, Commands = {c}, OneCommandInv, ServiceInv',
           CommandNext(c)
    PROVE  OneCommandInv'
<1> USE DEF OneCommandInv, At
<1>1. /\ worker \in [Workers -> Worker] /\ command \in [Commands -> Command]
      /\ pidFile \in Workers \cup {"none", "empty"}
      /\ RemovalInv /\ PidInv
  BY DEF ServiceInv, TypeOK
<1>2. ASSUME worker' = worker
      PROVE  \A x \in Workers : /\ Managed(x)' = Managed(x)
                                /\ worker'[x].orphaned = worker[x].orphaned
  BY <1>2 DEF Managed, Up
\* A step that leaves the workers and the file alone and the command outside of
\* its busy part.
<1>3. ASSUME worker' = worker, pidFile' = pidFile,
             command[c].pc \notin Busy, FileInv'
      PROVE  NamedInv'
  BY <1>2, <1>3 DEF NamedInv, Busy
<1>4. CASE Done(c) /\ worker' = worker /\ pidFile' = pidFile
           /\ command[c].pc \notin Busy
  <2>1. FileInv'
    BY <1>1, <1>4, Gone, Idle DEF FileInv
  <2>2. QED  BY <1>3, <1>4, <2>1
<1>5. CASE Give(c)
  <2>1. /\ command'[c].pc \in {"stat", "read"}
        /\ command'[c].answer = command[c].answer
    BY <1>1, <1>5 DEF Give, Command
  <2>2. FileInv'
    BY <1>5, <2>1 DEF Give, FileInv
  <2>3. QED  BY <1>3, <1>5, <2>2 DEF Give, Busy
<1>6. CASE ReadPid(c)
  <2>1. CASE Goto(c, "stat") \/ (Goto(c, "discard") /\ pidFile = "empty")
    <3>1. FileInv'
      BY <1>1, <1>6, <2>1, Went DEF ReadPid, FileInv
    <3>2. QED  BY <1>3, <1>6, <3>1 DEF ReadPid, Busy
  <2>2. CASE /\ pidFile \in Workers
             /\ command' = [command EXCEPT ![c].pc = "remove",
                                           ![c].pid = pidFile]
    <3>1. /\ command'[c].pc = "remove" /\ command'[c].pid = pidFile
          /\ command'[c].answer = command[c].answer
      BY <1>1, <2>2 DEF Command
    <3>2. FileInv'
      BY <1>6, <3>1 DEF ReadPid, FileInv
    <3>3. QED  BY <1>3, <1>6, <3>2 DEF ReadPid, Busy
  <2>3. QED  BY <1>4, <1>6, <2>1, <2>2 DEF ReadPid, Busy
<1>7. CASE ReadStatus(c)
  <2>1. /\ command'[c].pc = "report"
        /\ command'[c].answer = IF pidFile \in Workers
                                THEN "active" ELSE "inactive"
    BY <1>1, <1>7 DEF ReadStatus, Command
  <2>2. FileInv'
    BY <1>7, <2>1 DEF ReadStatus, FileInv
  <2>3. QED  BY <1>3, <1>7, <2>2 DEF ReadStatus, Busy
<1>8. CASE Report(c) \/ SpawnFails(c)
  BY <1>4, <1>8 DEF Report, SpawnFails, Busy
<1>9. CASE Discard(c)
  <2>1. /\ command'[c].pc = "stat" /\ command'[c].answer = command[c].answer
        /\ pidFile' = "none" /\ worker' = worker
        /\ command[c].pc = "discard"
    <3> DEFINE cmds == [command EXCEPT ![c].pc = "stat"]
    <3>1. /\ cmds \in [Commands -> Command] /\ cmds[c].pc = "stat"
          /\ cmds[c].answer = command[c].answer
      BY <1>1 DEF Command
    <3>2. command' = Removed(cmds)
      BY <1>9 DEF Discard
    <3> HIDE DEF cmds
    <3>3. QED  BY <1>9, <3>1, <3>2, RemovedKeeps DEF Discard
  <2>2. FileInv'
    BY <2>1 DEF FileInv
  <2>3. NamedInv'
    BY <1>2, <2>1, PidAssumption DEF FileInv, NamedInv
  <2>4. QED  BY <2>2, <2>3
<1>10. CASE RemovePidFile(c)
  <2>1. /\ command'[c].pc = "kill" /\ command'[c].answer = command[c].answer
        /\ command'[c].pid = command[c].pid
        /\ pidFile' = "none" /\ worker' = worker
        /\ command[c].pc = "remove"
    <3> DEFINE cmds == [command EXCEPT ![c].pc = "kill"]
    <3>1. /\ cmds \in [Commands -> Command] /\ cmds[c].pc = "kill"
          /\ cmds[c].answer = command[c].answer
          /\ cmds[c].pid = command[c].pid
      BY <1>1 DEF Command
    <3>2. command' = Removed(cmds)
      BY <1>10 DEF RemovePidFile
    <3> HIDE DEF cmds
    <3>3. QED  BY <1>10, <3>1, <3>2, RemovedKeeps DEF RemovePidFile
  <2>2. FileInv'
    BY <2>1 DEF FileInv
  <2>3. NamedInv'
    BY <1>2, <2>1, PidAssumption DEF FileInv, NamedInv
  <2>4. QED  BY <2>2, <2>3
<1>11. CASE KillWorker(c)
  <2> PICK w \in Workers : w = command[c].pid
    BY <1>1, <1>11 DEF KillWorker, PidInv
  <2>1. /\ pidFile' = pidFile /\ command[c].pc = "kill"
        /\ pidFile = "none"
    BY <1>11 DEF KillWorker, FileInv
  <2>2. \/ Goto(c, "stat")
        \/ Done(c)
    BY <1>11 DEF KillWorker
  <2>3. FileInv'
    BY <1>1, <2>1, <2>2, Gone, Went, Idle DEF FileInv
  <2>4. /\ ~Managed(w)'
        /\ \A x \in Workers : /\ Managed(x)' => Managed(x)
                              /\ worker'[x].orphaned = worker[x].orphaned
    <3>1. CASE Alive(w) /\ worker' = [worker EXCEPT ![w].doomed = TRUE]
      BY <1>1, <2>1, <3>1 DEF Worker, Managed, Up
    <3>2. CASE ~Alive(w) /\ worker' = worker
      BY <3>2 DEF Managed, Alive, Up
    <3>3. QED  BY <1>11, <3>1, <3>2 DEF KillWorker
  <2>5. NamedInv'
    BY <2>1, <2>4, PidAssumption DEF NamedInv
  <2>6. QED  BY <2>3, <2>5
<1>12. CASE StatPidFile(c)
  <2>1. CASE Goto(c, "spawn") /\ pidFile = "none"
    <3>1. FileInv'
      BY <1>1, <1>12, <2>1, Went DEF StatPidFile, FileInv
    <3>2. QED  BY <1>3, <1>12, <3>1 DEF StatPidFile, Busy
  <2>2. QED  BY <1>4, <1>12, <2>1 DEF StatPidFile, Busy
<1>13. CASE Spawn(c)
  <2>1. PICK w \in Workers :
           /\ worker[w].life = "unborn"
           /\ Becomes(w, "new")
           /\ command' = [command EXCEPT ![c].pc = "create", ![c].pid = w]
    BY <1>13 DEF Spawn
  <2>2. /\ command'[c].pc = "create" /\ command'[c].pid = w
        /\ command'[c].answer = command[c].answer
    BY <1>1, <2>1 DEF Command
  <2>3. /\ \A x \in Workers : worker'[x].orphaned = worker[x].orphaned
        /\ \A x \in Workers \ {w} : Managed(x)' = Managed(x)
    BY <1>1, <2>1 DEF Becomes, Worker, Managed, Up
  <2>4. FileInv'
    BY <1>13, <2>2 DEF Spawn, FileInv
  <2>5. NamedInv'
    BY <1>13, <2>2, <2>3 DEF Spawn, NamedInv
  <2>6. QED  BY <2>4, <2>5
<1>14. CASE SavePidCreate(c)
  <2>1. /\ command'[c].pc = "write" /\ command'[c].pid = command[c].pid
        /\ command'[c].handle = TRUE
        /\ command'[c].answer = command[c].answer
    BY <1>1, <1>14 DEF SavePidCreate, Command
  <2>2. FileInv'
    BY <1>14, <2>1 DEF SavePidCreate, FileInv
  <2>3. NamedInv'
    BY <1>2, <1>14, <2>1, PidAssumption DEF SavePidCreate, FileInv, NamedInv
  <2>4. QED  BY <2>2, <2>3
<1>15. CASE SavePidWrite(c)
  <2>1. /\ pidFile' = IF command[c].handle THEN command[c].pid ELSE pidFile
        /\ worker' = worker /\ command[c].pc = "write"
        /\ command[c].pid \in Workers
    BY <1>1, <1>15 DEF SavePidWrite, PidInv
  <2>2. FileInv'
    BY <1>1, <1>15, Gone, Idle DEF SavePidWrite, FileInv
  <2>3. ~command[c].handle /\ Managed(command[c].pid)
           => worker[command[c].pid].orphaned
    BY <2>1 DEF FileInv
  <2>4. NamedInv'
    BY <1>2, <2>1, <2>3, PidAssumption DEF FileInv, NamedInv
  <2>5. QED  BY <2>2, <2>4
<1>16. CASE SavePidFails(c)
  <2>1. /\ command'[c].pc = "killchild" /\ command'[c].pid = command[c].pid
        /\ command'[c].answer = command[c].answer
    BY <1>1, <1>16, Went DEF SavePidFails
  <2>2. FileInv'
    BY <1>16, <2>1 DEF SavePidFails, FileInv
  <2>3. NamedInv'
    BY <1>2, <1>16, <2>1 DEF SavePidFails, NamedInv
  <2>4. QED  BY <2>2, <2>3
<1>17. CASE KillChild(c)
  <2> PICK w \in Workers : w = command[c].pid
    BY <1>1, <1>17 DEF KillChild, PidInv
  <2>1. /\ pidFile' = pidFile
        /\ pidFile \in {"none", "empty"}
        /\ worker' = [worker EXCEPT ![w].doomed = Alive(w)]
    BY <1>17 DEF KillChild, FileInv
  <2>2. FileInv'
    BY <1>1, <1>17, Gone, Idle DEF KillChild, FileInv
  <2>3. /\ ~Managed(w)'
        /\ \A x \in Workers : worker'[x].orphaned = worker[x].orphaned
        /\ \A x \in Workers \ {w} : Managed(x)' = Managed(x)
    BY <1>1, <2>1 DEF Worker, Managed, Alive, Up
  <2>4. NamedInv'
    BY <2>1, <2>3, PidAssumption DEF NamedInv
  <2>5. QED  BY <2>2, <2>4
<1>18. QED
  BY <1>5, <1>6, <1>7, <1>8, <1>9, <1>10, <1>11, <1>12, <1>13, <1>14, <1>15,
     <1>16, <1>17 DEF CommandNext

\* OneCommandInvariant: with one command at a time the pid file and the
\* workers stay in order.
THEOREM OneCommandInvariant ==
    ASSUME OneCommand
    PROVE  Spec => []OneCommandInv
<1>1. Init => OneCommandInv
  BY InvInit DEF Init, OneCommandInv, FileInv, NamedInv, NoCommand, Managed, Up,
                 At
<1>2. ServiceInv /\ [Next]_vars => ServiceInv'
  <2>1. ServiceInv /\ UNCHANGED vars => ServiceInv'
    BY DEF ServiceInv, TypeOK, RemovalInv, PidInv, vars
  <2>2. QED  BY <2>1, InvWorker, InvCommand DEF Next
<1>3. OneCommandInv /\ UNCHANGED vars => OneCommandInv'
  BY DEF OneCommandInv, ServiceInv, TypeOK, RemovalInv, PidInv, FileInv,
         NamedInv, Managed, Up, At, vars
<1>4. OneCommandInv /\ Next => OneCommandInv'
  <2> SUFFICES ASSUME OneCommandInv, Next  PROVE OneCommandInv'
    OBVIOUS
  <2>1. ServiceInv'
    BY <1>2 DEF OneCommandInv
  <2>2. ASSUME NEW c \in Commands, CommandNext(c)  PROVE OneCommandInv'
    <3>1. Commands = {c}
      BY OneCommand DEF OneCommand
    <3>2. QED  BY <2>1, <2>2, <3>1, CommandKeepsNames
  <2>3. QED  BY <2>1, <2>2, WorkerKeepsNames DEF Next
<1>5. QED  BY <1>1, <1>3, <1>4, PTL DEF Spec

-----------------------------------------------------------------------------
(* The properties of one command at a time *)

\* NoWorkerIsForgotten: between two commands the pid file names every worker
\* that is up, however many were started, killed and lost before, except for
\* the workers whose entry another worker removed as it left.
THEOREM NoWorkerIsForgotten ==
    ASSUME OneCommand
    PROVE  Spec => []LiveWorkerIsNamed
<1>1. OneCommandInv => LiveWorkerIsNamed
  BY OneCommand
     DEF OneCommand, OneCommandInv, NamedInv, LiveWorkerIsNamed, At
<1>2. QED  BY <1>1, OneCommandInvariant, PTL

\* StartsAreExclusive: the commands never leave two workers up, with the same
\* exception.
THEOREM StartsAreExclusive ==
    ASSUME OneCommand
    PROVE  Spec => []OneWorkerAtATime
<1>1. OneCommandInv => OneWorkerAtATime
  BY OneCommand, PidAssumption
     DEF OneCommand, OneCommandInv, FileInv, NamedInv, OneWorkerAtATime, At
<1>2. QED  BY <1>1, OneCommandInvariant, PTL

\* InactiveMeansNoWorker: a status that finds no active worker is right, with
\* the same exception.
THEOREM InactiveMeansNoWorker ==
    ASSUME OneCommand
    PROVE  Spec => []StatusDeniesOnlyTheDead
<1>1. OneCommandInv => StatusDeniesOnlyTheDead
  BY OneCommand DEF OneCommand, OneCommandInv, FileInv, NamedInv,
                    StatusDeniesOnlyTheDead, At
<1>2. QED  BY <1>1, OneCommandInvariant, PTL
=============================================================================
