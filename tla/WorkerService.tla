--------------------------- MODULE WorkerService ---------------------------
(***************************************************************************)
(* The commands start, stop, restart and status, the pid file they share   *)
(* with the workers, and the worker processes they start and kill.  A      *)
(* worker appears by its life only (see WorkerLife and WorkerProcess).     *)
(* The system is unix-like: the branches for Windows are left out.         *)
(***************************************************************************)
EXTENDS Integers, FiniteSets

CONSTANTS
    Workers,     \* bound: the worker processes ever started, as their pids
    Commands,    \* commands given at the same time
    NoPid        \* no process

ASSUME PidAssumption == NoPid \notin Workers /\ "none" \notin Workers
                                             /\ "empty" \notin Workers

VARIABLES
    pidFile,    \* "none", "empty", or the pid that the file holds
    worker,     \* the worker processes
    command     \* the commands

vars == <<pidFile, worker, command>>

-----------------------------------------------------------------------------
(* Types *)

Operations == {"start", "stop", "restart", "status"}

\* life: of a worker that is new the removal of the pid file is not deferred
\* yet.  doomed: SIGKILL was sent and the process is not dead yet.  orphaned:
\* history: another worker has removed the pid file that named this one.
Worker == [life : {"unborn", "new", "starting", "serving", "leaving", "exited",
                   "crashed"},
           removals : 0 .. 2, doomed : BOOLEAN, orphaned : BOOLEAN]

\* pid: the process a command deals with.  handle: the file that the command
\* has opened is still the one that the path names.  answer: what status says.
Command == [op : Operations \cup {"none"},
            pc : {"idle", "read", "discard", "remove", "kill", "stat", "spawn",
                  "create", "write", "killchild", "report"},
            pid : Workers \cup {NoPid}, handle : BOOLEAN,
            answer : {"none", "active", "inactive"}]

TypeOK == /\ pidFile \in Workers \cup {"none", "empty"}
          /\ worker \in [Workers -> Worker]
          /\ command \in [Commands -> Command]

Up(w) == worker[w].life \in {"new", "starting", "serving"}
Alive(w) == Up(w) \/ worker[w].life = "leaving"

-----------------------------------------------------------------------------
(* The pid file *)

\* os.Remove: a command that has the file open keeps a file without a name.
Removed(cmds) == [c \in Commands |-> [cmds[c] EXCEPT !.handle = FALSE]]

\* The worker x is in the file, or a start command is about to write it there.
Named(x) == \/ pidFile = x
            \/ \E c \in Commands : /\ command[c].pc = "write"
                                   /\ command[c].handle
                                   /\ command[c].pid = x

-----------------------------------------------------------------------------
(* The worker processes *)

Becomes(w, life) == worker' = [worker EXCEPT ![w].life = life]

\* The worker removes the pid file, whoever's pid is in it by now.
RemovesPidFile(w, life) ==
    /\ worker' = [x \in Workers |->
                     IF x = w
                     THEN [worker[w] EXCEPT !.life = life, !.removals = @ + 1]
                     ELSE [worker[x] EXCEPT !.orphaned = @ \/ Named(x)]]
    /\ pidFile' = "none"
    /\ command' = Removed(command)

\* From here on the end of the worker removes the pid file.
DeferRemoval(w) == /\ worker[w].life = "new"
                   /\ Becomes(w, "starting")
                   /\ UNCHANGED <<pidFile, command>>

\* The worker ends before that: the pid file stays.
GiveUp(w) == /\ worker[w].life = "new"
             /\ Becomes(w, "exited")
             /\ UNCHANGED <<pidFile, command>>

\* The port is free.
Serve(w) == /\ worker[w].life = "starting"
            /\ \A x \in Workers : worker[x].life # "serving"
            /\ Becomes(w, "serving")
            /\ UNCHANGED <<pidFile, command>>

\* log.Fatalf: another worker still has the port.
ListenFails(w) == /\ worker[w].life = "starting"
                  /\ \E x \in Workers \ {w} :
                        worker[x].life \in {"serving", "leaving"}
                  /\ Becomes(w, "crashed")
                  /\ UNCHANGED <<pidFile, command>>

\* An exit signal, or a failure of the initialization.
Leave(w) == /\ worker[w].life \in {"starting", "serving"}
            /\ RemovesPidFile(w, "leaving")

\* Mutant: the file is removed again and again.
RemoveForever(w) == /\ worker[w].life = "leaving"
                    /\ RemovesPidFile(w, "leaving")

\* The deferred function removes the file once more.
RemoveAgain(w) == /\ worker[w].life = "leaving" /\ worker[w].removals = 1
                  /\ RemovesPidFile(w, "leaving")

Exit(w) == /\ worker[w].life = "leaving"
           /\ Becomes(w, "exited")
           /\ UNCHANGED <<pidFile, command>>

\* A crash of its own, a signal while none is handled, or the SIGKILL that was
\* sent before.
Crash(w) == /\ Alive(w)
            /\ worker' = [worker EXCEPT ![w].life = "crashed",
                                        ![w].doomed = FALSE]
            /\ UNCHANGED <<pidFile, command>>

WorkerNext(w) == \/ DeferRemoval(w) \/ GiveUp(w)
                 \/ Serve(w) \/ ListenFails(w) \/ Leave(w) \/ RemoveAgain(w)
                 \/ Exit(w) \/ Crash(w)

-----------------------------------------------------------------------------
(* The commands *)

NoCommand == [op |-> "none", pc |-> "idle", pid |-> NoPid, handle |-> FALSE,
              answer |-> "none"]

At(c, pc) == command[c].pc = pc
Goto(c, pc) == command' = [command EXCEPT ![c].pc = pc]
Done(c) == command' = [command EXCEPT ![c] = NoCommand]

\* main: the command line selects the operation.
Give(c) ==
    /\ At(c, "idle")
    /\ \E op \in Operations :
          command' = [command EXCEPT
                         ![c].op = op,
                         ![c].pc = IF op = "start" THEN "stat" ELSE "read"]
    /\ UNCHANGED <<pidFile, worker>>

\* getPID, and what stop and restart do with its three results: without a file
\* stop has nothing to do and restart starts; a file without a pid makes stop
\* fail, and restart removes it.
ReadPid(c) ==
    /\ At(c, "read") /\ command[c].op # "status"
    /\ \/ /\ pidFile = "none"
          /\ IF command[c].op = "stop" THEN Done(c) ELSE Goto(c, "stat")
       \/ /\ pidFile = "empty"
          /\ IF command[c].op = "stop" THEN Done(c) ELSE Goto(c, "discard")
       \/ /\ pidFile \in Workers
          /\ command' = [command EXCEPT ![c].pc = "remove",
                                        ![c].pid = pidFile]
    /\ UNCHANGED <<pidFile, worker>>

\* checkWorkerService.  The signal 0 to a process that is gone makes
\* Process.Signal return an error of the package os, never the ESRCH that the
\* code compares it with: a pid in the file is an active worker.
ReadStatus(c) ==
    /\ At(c, "read") /\ command[c].op = "status"
    /\ command' = [command EXCEPT ![c].pc = "report",
                      ![c].answer = IF pidFile \in Workers
                                    THEN "active" ELSE "inactive"]
    /\ UNCHANGED <<pidFile, worker>>

Report(c) == At(c, "report") /\ Done(c) /\ UNCHANGED <<pidFile, worker>>

\* Restart removes a file without a pid and starts.
Discard(c) ==
    /\ At(c, "discard")
    /\ pidFile' = "none"
    /\ command' = Removed([command EXCEPT ![c].pc = "stat"])
    /\ UNCHANGED worker

\* Stop and restart remove the file before they kill the process.
RemovePidFile(c) ==
    /\ At(c, "remove")
    /\ pidFile' = "none"
    /\ command' = Removed([command EXCEPT ![c].pc = "kill"])
    /\ UNCHANGED worker

\* Mutant: the process gets a signal that it may ignore.
AskWorker(c) == At(c, "kill") /\ Done(c) /\ UNCHANGED <<pidFile, worker>>

\* SIGKILL to the process.  Its death is awaited by nobody: a restart goes on
\* to start a worker at once.  If the process is gone the command fails, and
\* restart starts nothing.
KillWorker(c) ==
    /\ At(c, "kill")
    /\ LET w == command[c].pid IN
          IF Alive(w)
          THEN /\ worker' = [worker EXCEPT ![w].doomed = TRUE]
               /\ IF command[c].op = "restart" THEN Goto(c, "stat") ELSE Done(c)
          ELSE Done(c) /\ UNCHANGED worker
    /\ UNCHANGED pidFile

\* Mutant: start does not look at the pid file.
StatNothing(c) ==
    /\ At(c, "stat")
    /\ Goto(c, "spawn")
    /\ UNCHANGED <<pidFile, worker>>

\* startWorkerService: nothing is started while the file exists.
StatPidFile(c) ==
    /\ At(c, "stat")
    /\ IF pidFile = "none" THEN Goto(c, "spawn") ELSE Done(c)
    /\ UNCHANGED <<pidFile, worker>>

Spawn(c) ==
    /\ At(c, "spawn")
    /\ \E w \in Workers :
          /\ worker[w].life = "unborn"
          /\ Becomes(w, "new")
          /\ command' = [command EXCEPT ![c].pc = "create", ![c].pid = w]
    /\ UNCHANGED pidFile

\* The log file cannot be opened or the process cannot be made.
SpawnFails(c) == At(c, "spawn") /\ Done(c) /\ UNCHANGED <<pidFile, worker>>

\* savePID creates the file, or truncates it,
SavePidCreate(c) ==
    /\ At(c, "create")
    /\ pidFile' = "empty"
    /\ command' = [command EXCEPT ![c].pc = "write", ![c].handle = TRUE]
    /\ UNCHANGED worker

\* then writes the pid, into a file that may have been removed meanwhile.
SavePidWrite(c) ==
    /\ At(c, "write")
    /\ pidFile' = IF command[c].handle THEN command[c].pid ELSE pidFile
    /\ Done(c)
    /\ UNCHANGED worker

SavePidFails(c) ==
    /\ command[c].pc \in {"create", "write"}
    /\ Goto(c, "killchild")
    /\ UNCHANGED <<pidFile, worker>>

\* Mutant: the worker whose pid could not be saved is left alone.
KeepChild(c) == At(c, "killchild") /\ Done(c) /\ UNCHANGED <<pidFile, worker>>

\* A worker whose pid could not be saved is killed.
KillChild(c) ==
    /\ At(c, "killchild")
    /\ worker' = [worker EXCEPT ![command[c].pid].doomed = Alive(command[c].pid)]
    /\ Done(c)
    /\ UNCHANGED pidFile

CommandNext(c) ==
    \/ Give(c) \/ ReadPid(c) \/ ReadStatus(c) \/ Report(c) \/ Discard(c)
    \/ RemovePidFile(c) \/ KillWorker(c) \/ StatPidFile(c) \/ Spawn(c)
    \/ SpawnFails(c) \/ SavePidCreate(c) \/ SavePidWrite(c) \/ SavePidFails(c)
    \/ KillChild(c)

-----------------------------------------------------------------------------
Init ==
    /\ pidFile = "none"
    /\ worker = [w \in Workers |->
                    [life |-> "unborn", removals |-> 0, doomed |-> FALSE,
                     orphaned |-> FALSE]]
    /\ command = [c \in Commands |-> NoCommand]

Next == \/ \E w \in Workers : WorkerNext(w)
        \/ \E c \in Commands : CommandNext(c)

Spec == Init /\ [][Next]_vars

-----------------------------------------------------------------------------
(* Properties *)

\* A worker that was started, not killed, and has not begun to end.
Managed(w) == Up(w) /\ ~worker[w].doomed

\* LiveWorkerIsNamed: between two commands, the pid file names every worker
\* that is up, so that stop, restart and status can find it.  The one way to
\* lose a worker is that an earlier one, which has not finished leaving, removes
\* the file that names it by now: a failed or half-done start, a restart, a
\* crash, and a worker that had left before it was named never do.
LiveWorkerIsNamed ==
    (\A c \in Commands : At(c, "idle"))
       => \A w \in Workers : Managed(w) => pidFile = w \/ worker[w].orphaned

\* OneWorkerAtATime: the commands never leave two workers up, unless one of
\* them has been cut off from its pid file in that way: a second start finds
\* the file of the first one.
OneWorkerAtATime ==
    \A w, x \in Workers :
       w # x /\ Managed(w) /\ Managed(x)
          => worker[w].orphaned \/ worker[x].orphaned

\* StatusDeniesOnlyTheDead: when status has found no active worker, no worker
\* is up that another worker has not cut off from its pid file.
StatusDeniesOnlyTheDead ==
    \A c \in Commands :
       command[c].answer = "inactive"
          => \A w \in Workers : Managed(w) => worker[w].orphaned

-----------------------------------------------------------------------------
(* The inductive invariant of the properties, for one command at a time *)

\* A worker has removed the file if and only if it has begun to leave.
RemovalInv ==
    \A w \in Workers :
       /\ worker[w].life \in {"unborn", "new", "starting", "serving"}
             => worker[w].removals = 0
       /\ worker[w].life = "leaving" => worker[w].removals \in 1 .. 2

\* A command that is about to use a process has one.
PidInv ==
    \A c \in Commands :
       command[c].pc \in {"remove", "kill", "create", "write", "killchild"}
          => command[c].pid \in Workers

ServiceInv == TypeOK /\ RemovalInv /\ PidInv

\* What the pid file may be at each place of the one command.
FileInv ==
    \A c \in Commands :
       /\ command[c].pc \in {"kill", "spawn", "create"} => pidFile = "none"
       /\ command[c].pc \in {"discard", "write", "killchild"}
             => pidFile \in {"none", "empty"}
       /\ At(c, "remove") => pidFile \in {"none", command[c].pid}
       /\ At(c, "write") /\ ~command[c].handle
             => worker[command[c].pid].orphaned \/ ~Managed(command[c].pid)
       /\ command[c].answer = "inactive"
             => At(c, "report") /\ pidFile \notin Workers

\* A worker that is up is in the file, or in the hands of the command, unless
\* another one has removed the file from under it.
NamedInv ==
    \A w \in Workers :
       Managed(w) => \/ pidFile = w
                     \/ worker[w].orphaned
                     \/ \E c \in Commands :
                           /\ command[c].pid = w
                           /\ command[c].pc \in {"kill", "create", "write",
                                                 "killchild"}

OneCommandInv == ServiceInv /\ FileInv /\ NamedInv
=============================================================================
