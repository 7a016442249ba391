----------------------------- MODULE Streaming -----------------------------
(***************************************************************************)
(* One long job and the websocket sessions that follow its output: where   *)
(* the output goes, the pipe between the process and the sessions, the     *)
(* claim of Job.isstreaming, and how a session learns of the end.          *)
(*                                                                         *)
(* The unit of output is a byte, since nothing keeps a line together: the  *)
(* process writes, the pipe is read and the file is written in chunks that *)
(* end anywhere, and only what a session sends is cut at newlines.  The    *)
(* bytes are numbered as the process writes them.  The queue, the map and  *)
(* the outcome of a run are the subject of JobsControl.                    *)
(***************************************************************************)
EXTENDS Admission, Sequences, FiniteSets

CONSTANTS
    Viewers,         \* the websocket sessions, each opened at most once
    MaxBytes,        \* bound: bytes the process writes
    Newlines,        \* those of them that end a line
    PipeCapacity     \* bytes that fit into the pipe

ASSUME StreamingAssumption == /\ MaxBytes \in Nat
                              /\ Newlines \subseteq 1 .. MaxBytes
                              /\ PipeCapacity \in Nat \ {0}

VARIABLES
    job,        \* the fields of the job that the sessions read
    stop,       \* TRUE: the one-place channel Job.stop holds a token
    executor,   \* where executeJob is; "none": it has not been called
    waiter,     \* the goroutine in cmd.Wait
    process,    \* the process of the job
    written,    \* number of bytes the process has written
    pipe,       \* its standard output: its end and the bytes in it
    file,       \* the file the output is dumped to
    viewer      \* the sessions

vars == <<job, stop, executor, waiter, process, written, pipe, file, viewer>>
engine == <<stop, executor, waiter, process, written>>

-----------------------------------------------------------------------------
(* Types *)

Byte == 1 .. MaxBytes

Job == [listed : BOOLEAN, stream : BOOLEAN, dump : BOOLEAN,
        iscompleted : BOOLEAN, isstreaming : BOOLEAN,
        outpipe : BOOLEAN, outstream : BOOLEAN]     \* these two: not nil

\* How a session ended: the message its client got, or why there was none.
Ends == {"none", "unknown", "notrunning", "busy", "completed", "error",
         "unexpected", "panic", "disconnected"}

\* A session: the chunk it has read and not yet written to the file, the bytes
\* its reader buffers, those it sent, those a failed write to the file took away,
\* and the error its reader met.
Viewer == [pc : {"idle", "completed?", "streaming?", "claim", "open", "read",
                 "tee", "release", "gone"},
           chunk : Seq(Byte), buf : Seq(Byte), sent : Seq(Byte),
           lost : Seq(Byte), err : {"none", "EOF", "closed", "disk"},
           end : Ends]

EndState == {"none", "open", "closed"}

TypeOK ==
    /\ job \in Job
    /\ stop \in BOOLEAN
    /\ executor \in {"none", "queued", "open", "start", "select", "complete",
                     "return", "gone"}
    /\ waiter \in {"none", "wait", "reaped", "send", "gone"}
    /\ process \in {"none", "running", "killed", "dead"}
    /\ written \in 0 .. MaxBytes
    /\ pipe \in [end : EndState, bytes : Seq(Byte)]
    /\ Len(pipe.bytes) <= PipeCapacity
    /\ file \in [end : EndState, bytes : Seq(Byte)]
    /\ viewer \in [Viewers -> Viewer]

-----------------------------------------------------------------------------
(* Scheduling *)

\* The handler lists the new job; others may find it from now on.
Register(output) ==
    /\ executor = "none" /\ ~job.listed
    /\ job' = [job EXCEPT !.listed = TRUE, !.stream = output.stream,
                          !.dump = output.dump]
    /\ UNCHANGED <<engine, pipe, file, viewer>>

ScheduleLongJobsWithStreaming ==
    \E single, dump \in BOOLEAN : Register(StreamingOutput(single, dump))

ScheduleLongJobsWithDumping == Register(DumpingOutput)

ApiScheduleJobs ==
    \E stream, dump \in BOOLEAN : Register(ApiOutput(TRUE, stream, dump))

\* globalJobsQueue <- job
Enqueue ==
    /\ executor = "none" /\ job.listed
    /\ executor' = "queued"
    /\ UNCHANGED <<job, stop, waiter, process, written, pipe, file, viewer>>

\* A user stops the job: iscompleted is read, then the token is sent.
StopJob ==
    /\ job.listed /\ ~job.iscompleted /\ ~stop
    /\ stop' = TRUE
    /\ UNCHANGED <<job, executor, waiter, process, written, pipe, file, viewer>>

-----------------------------------------------------------------------------
(* The executor *)

Piped == job.stream

Pickup ==
    /\ executor = "queued"
    /\ executor' = "open"
    /\ UNCHANGED <<job, stop, waiter, process, written, pipe, file, viewer>>

Opened(end, wanted) == IF wanted THEN "open" ELSE end
Closed(end) == IF end = "open" THEN "closed" ELSE end

\* Where the output goes: the pipe that one field or the other gives to the
\* sessions, the file, or nowhere.
ExecOpen ==
    /\ executor = "open"
    /\ executor' = "start"
    /\ job' = [job EXCEPT !.outpipe = job.stream /\ ~job.dump,
                          !.outstream = job.stream /\ job.dump]
    /\ pipe' = [pipe EXCEPT !.end = Opened(@, Piped)]
    /\ file' = [file EXCEPT !.end = Opened(@, job.dump)]
    /\ UNCHANGED <<stop, waiter, process, written, viewer>>

\* setFailedInfos: the pipe, the file or the process could not be made.  What
\* was open is closed, by cmd.Start and by the deferred call.
ExecFail ==
    /\ executor \in {"open", "start"}
    /\ executor' = "gone"
    /\ job' = [job EXCEPT !.iscompleted = TRUE]
    /\ pipe' = [pipe EXCEPT !.end = Closed(@)]
    /\ file' = [file EXCEPT !.end = Closed(@)]
    /\ UNCHANGED <<stop, waiter, process, written, viewer>>

ExecStart ==
    /\ executor = "start"
    /\ executor' = "select"
    /\ process' = "running"
    /\ waiter' = "wait"
    /\ UNCHANGED <<job, stop, written, pipe, file, viewer>>

\* cmd.Process.Kill(): the signal is sent, the process dies later.
Kill == process' = IF process = "running" THEN "killed" ELSE process

\* Mutant: the context of a long job has no deadline.
NeverTimeout == executor = "select" /\ UNCHANGED vars

\* case <-jobctx.Done()
ExecTimeout ==
    /\ executor = "select"
    /\ executor' = "complete"
    /\ Kill
    /\ UNCHANGED <<job, stop, waiter, written, pipe, file, viewer>>

\* case <-job.stop
ExecStop ==
    /\ executor = "select" /\ stop
    /\ stop' = FALSE
    /\ executor' = "complete"
    /\ Kill
    /\ UNCHANGED <<job, waiter, written, pipe, file, viewer>>

\* case err = <-done: the channel has no buffer, so both sides go on at once.
\* After another case has been chosen the waiter stays where it is for ever.
ExecDone ==
    /\ executor = "select" /\ waiter = "send"
    /\ executor' = "complete"
    /\ waiter' = "gone"
    /\ UNCHANGED <<job, stop, process, written, pipe, file, viewer>>

ExecComplete ==
    /\ executor = "complete"
    /\ executor' = "return"
    /\ job' = [job EXCEPT !.iscompleted = TRUE]
    /\ UNCHANGED <<stop, waiter, process, written, pipe, file, viewer>>

\* The deferred file.Close().
ExecReturn ==
    /\ executor = "return"
    /\ executor' = "gone"
    /\ file' = [file EXCEPT !.end = Closed(@)]
    /\ UNCHANGED <<job, stop, waiter, process, written, pipe, viewer>>

ExecutorNext == \/ Pickup \/ ExecOpen \/ ExecFail \/ ExecStart \/ ExecTimeout
                \/ ExecStop \/ ExecDone \/ ExecComplete \/ ExecReturn

-----------------------------------------------------------------------------
(* The process and cmd.Wait *)

Alive == process \in {"running", "killed"}

\* Mutant: the pipe takes any number of bytes.
WriteByteUnbounded ==
    /\ Alive /\ written < MaxBytes
    /\ written' = written + 1
    /\ pipe' = IF Piped THEN [pipe EXCEPT !.bytes = Append(@, written + 1)]
                        ELSE pipe
    /\ file' = IF job.dump /\ ~Piped
               THEN [file EXCEPT !.bytes = Append(@, written + 1)] ELSE file
    /\ UNCHANGED <<job, stop, executor, waiter, process, viewer>>

\* The process writes a byte: into the pipe when there is room, into the file
\* when that is its standard output, or to /dev/null.
WriteByte ==
    /\ Alive /\ written < MaxBytes
    /\ Piped => Len(pipe.bytes) < PipeCapacity
    /\ written' = written + 1
    /\ pipe' = IF Piped THEN [pipe EXCEPT !.bytes = Append(@, written + 1)]
                        ELSE pipe
    /\ file' = IF job.dump /\ ~Piped
               THEN [file EXCEPT !.bytes = Append(@, written + 1)] ELSE file
    /\ UNCHANGED <<job, stop, executor, waiter, process, viewer>>

\* The process ends by itself, or from the signal.
ProcessExit ==
    /\ process = "running"
    /\ process' = "dead"
    /\ UNCHANGED <<job, stop, executor, waiter, written, pipe, file, viewer>>

ProcessKilled ==
    /\ process = "killed"
    /\ process' = "dead"
    /\ UNCHANGED <<job, stop, executor, waiter, written, pipe, file, viewer>>

\* Mutant: the pipe is closed without waiting for the process.
WaitWithoutProcess ==
    /\ waiter = "wait"
    /\ waiter' = "reaped"
    /\ UNCHANGED <<job, stop, executor, process, written, pipe, file, viewer>>

\* cmd.Wait first waits for the process,
WaitProcess ==
    /\ waiter = "wait" /\ process = "dead"
    /\ waiter' = "reaped"
    /\ UNCHANGED <<job, stop, executor, process, written, pipe, file, viewer>>

\* then closes the end of the pipe that the sessions read, whatever is left in
\* it, and then returns.
WaitClosePipe ==
    /\ waiter = "reaped"
    /\ waiter' = "send"
    /\ pipe' = [pipe EXCEPT !.end = Closed(@)]
    /\ UNCHANGED <<job, stop, executor, process, written, file, viewer>>

ProcessNext == \/ WriteByte \/ ProcessExit \/ ProcessKilled
               \/ WaitProcess \/ WaitClosePipe

-----------------------------------------------------------------------------
(* The sessions: streamJob.  The job is long: the branch that turns short    *)
(* jobs away is not taken.  The count of fetches is kept in JobsControl.     *)

At(v, pc) == viewer[v].pc = pc
Goto(v, pc) == viewer' = [viewer EXCEPT ![v].pc = pc]
Finish(v, pc, end) ==
    viewer' = [viewer EXCEPT ![v].pc = pc, ![v].end = end]

Lookup(v) ==
    /\ At(v, "idle")
    /\ IF job.listed THEN Goto(v, "completed?") ELSE Finish(v, "gone", "unknown")
    /\ UNCHANGED <<job, engine, pipe, file>>

\* The two flags are read under job.lock.RLock(), and the lock is given back
\* before the claim takes it again.
CheckCompleted(v) ==
    /\ At(v, "completed?")
    /\ IF job.iscompleted THEN Finish(v, "gone", "notrunning")
                          ELSE Goto(v, "streaming?")
    /\ UNCHANGED <<job, engine, pipe, file>>

CheckStreaming(v) ==
    /\ At(v, "streaming?")
    /\ IF job.isstreaming THEN Finish(v, "gone", "busy") ELSE Goto(v, "claim")
    /\ UNCHANGED <<job, engine, pipe, file>>

Claim(v) ==
    /\ At(v, "claim")
    /\ job' = [job EXCEPT !.isstreaming = TRUE]
    /\ Goto(v, "open")
    /\ UNCHANGED <<engine, pipe, file>>

\* Mutant: the flag is released at the end of the handler, not by a defer.
OpenReaderWithoutDefer(v) ==
    /\ At(v, "open")
    /\ IF (IF job.dump THEN job.outstream ELSE job.outpipe)
       THEN Goto(v, "read") ELSE Finish(v, "gone", "panic")
    /\ UNCHANGED <<job, engine, pipe, file>>

\* Mutant: a late session is first given what the file has of the output.
OpenReaderReplays(v) ==
    /\ At(v, "open")
    /\ IF (IF job.dump THEN job.outstream ELSE job.outpipe)
       THEN viewer' = [viewer EXCEPT ![v].pc = "read", ![v].buf = file.bytes]
       ELSE Finish(v, "release", "panic")
    /\ UNCHANGED <<job, engine, pipe, file>>

\* A reader on the field that job.dump selects.  If it is nil, because no
\* executor has the job yet or the job is not streamed, the first read panics
\* and only the deferred release runs.
OpenReader(v) ==
    /\ At(v, "open")
    /\ IF (IF job.dump THEN job.outstream ELSE job.outpipe)
       THEN Goto(v, "read") ELSE Finish(v, "release", "panic")
    /\ UNCHANGED <<job, engine, pipe, file>>

HasLine(s) == \E i \in 1 .. Len(s) : s[i] \in Newlines

\* reader.ReadBytes('\n') reads on as long as it has no whole line and has met
\* no error.
ReadsOn(v) == At(v, "read") /\ viewer[v].err = "none" /\ ~HasLine(viewer[v].buf)

\* It reads some of what is in the pipe, into its buffer or, through the
\* TeeReader, into its buffer and the file.
ReadPipe(v) ==
    /\ ReadsOn(v)
    /\ pipe.end = "open"
    /\ \E k \in 1 .. Len(pipe.bytes) :
          /\ viewer' = IF job.dump
                       THEN [viewer EXCEPT
                                ![v].chunk = SubSeq(pipe.bytes, 1, k),
                                ![v].pc = "tee"]
                       ELSE [viewer EXCEPT
                                ![v].buf = @ \o SubSeq(pipe.bytes, 1, k)]
          /\ pipe' = [pipe EXCEPT
                         !.bytes = SubSeq(@, k + 1, Len(pipe.bytes))]
    /\ UNCHANGED <<job, engine, file>>

\* io.TeeReader writes what it has read to the file before it hands it on.
TeeWrite(v) ==
    /\ At(v, "tee")
    /\ file.end = "open"
    /\ file' = [file EXCEPT !.bytes = @ \o viewer[v].chunk]
    /\ viewer' = [viewer EXCEPT ![v].pc = "read", ![v].chunk = <<>>,
                                ![v].buf = @ \o viewer[v].chunk]
    /\ UNCHANGED <<job, engine, pipe>>

\* Mutant: what could not be written to the file is handed on all the same.
TeeIgnoresErrors(v) ==
    /\ At(v, "tee")
    /\ viewer' = [viewer EXCEPT ![v].pc = "read", ![v].chunk = <<>>,
                                ![v].buf = @ \o viewer[v].chunk]
    /\ UNCHANGED <<job, engine, pipe, file>>

\* The write fails: the executor has closed the file and nothing is written, or
\* the disk has no room for all of it.  What was written is handed on with the
\* error, the rest is gone.
TeeWriteFails(v) ==
    /\ At(v, "tee")
    /\ \E n \in 0 .. Len(viewer[v].chunk) - 1 :
          LET done == SubSeq(viewer[v].chunk, 1, n)
              rest == SubSeq(viewer[v].chunk, n + 1, Len(viewer[v].chunk))
          IN  /\ file.end # "open" => n = 0
              /\ file' = [file EXCEPT !.bytes = @ \o done]
              /\ viewer' = [viewer EXCEPT
                    ![v].pc = "read", ![v].chunk = <<>>, ![v].buf = @ \o done,
                    ![v].lost = rest,
                    ![v].err = IF file.end = "open" THEN "disk" ELSE "closed"]
    /\ UNCHANGED <<job, engine, pipe>>

\* Mutant: a session stops when the job is completed, whatever the pipe holds.
ReadEndCompleted(v) ==
    /\ ReadsOn(v)
    /\ \/ pipe.end = "closed"
       \/ job.iscompleted
       \/ process = "dead" /\ pipe.bytes = <<>>
    /\ viewer' = [viewer EXCEPT ![v].err =
                     IF pipe.end = "closed" THEN "closed" ELSE "EOF"]
    /\ UNCHANGED <<job, engine, pipe, file>>

\* Mutant: a reader of a closed pipe tries again.
ReadEndRetries(v) ==
    /\ ReadsOn(v)
    /\ pipe.end = "open" /\ process = "dead" /\ pipe.bytes = <<>>
    /\ viewer' = [viewer EXCEPT ![v].err = "EOF"]
    /\ UNCHANGED <<job, engine, pipe, file>>

\* A read of the closed end fails; a read of the empty pipe of a dead process
\* is the end of the file.
ReadEnd(v) ==
    /\ ReadsOn(v)
    /\ \/ pipe.end = "closed"
       \/ process = "dead" /\ pipe.bytes = <<>>
    /\ viewer' = [viewer EXCEPT ![v].err =
                     IF pipe.end = "closed" THEN "closed" ELSE "EOF"]
    /\ UNCHANGED <<job, engine, pipe, file>>

\* ReadBytes returns the error, after the whole lines; the part of a line that
\* comes with it is dropped.  The three branches on the error and on
\* iscompleted, which is read without the lock.
ReportEnd(v) ==
    /\ At(v, "read") /\ viewer[v].err # "none" /\ ~HasLine(viewer[v].buf)
    /\ Finish(v, "release",
              CASE viewer[v].err = "EOF" /\ job.iscompleted  -> "completed"
                [] viewer[v].err # "EOF" /\ ~job.iscompleted -> "error"
                [] OTHER                                     -> "unexpected")
    /\ UNCHANGED <<job, engine, pipe, file>>

\* The first line of the buffer is sent.
WriteMessage(v) ==
    /\ At(v, "read")
    /\ \E n \in 1 .. Len(viewer[v].buf) :
          /\ viewer[v].buf[n] \in Newlines
          /\ ~HasLine(SubSeq(viewer[v].buf, 1, n - 1))
          /\ viewer' = [viewer EXCEPT
                           ![v].sent = @ \o SubSeq(viewer[v].buf, 1, n),
                           ![v].buf = SubSeq(@, n + 1, Len(viewer[v].buf))]
    /\ UNCHANGED <<job, engine, pipe, file>>

\* The client is gone: what the reader has buffered is lost with it.
WriteMessageFails(v) ==
    /\ At(v, "read") /\ HasLine(viewer[v].buf)
    /\ Finish(v, "release", "disconnected")
    /\ UNCHANGED <<job, engine, pipe, file>>

\* The deferred function.
Release(v) ==
    /\ At(v, "release")
    /\ job' = [job EXCEPT !.isstreaming = FALSE]
    /\ Goto(v, "gone")
    /\ UNCHANGED <<engine, pipe, file>>

ViewerNext(v) ==
    \/ Lookup(v) \/ CheckCompleted(v) \/ CheckStreaming(v) \/ Claim(v)
    \/ OpenReader(v) \/ ReadPipe(v) \/ TeeWrite(v) \/ TeeWriteFails(v)
    \/ ReadEnd(v) \/ ReportEnd(v) \/ WriteMessage(v) \/ WriteMessageFails(v)
    \/ Release(v)

-----------------------------------------------------------------------------
Init ==
    /\ job = [listed |-> FALSE, stream |-> FALSE, dump |-> FALSE,
              iscompleted |-> FALSE, isstreaming |-> FALSE,
              outpipe |-> FALSE, outstream |-> FALSE]
    /\ stop = FALSE
    /\ executor = "none"
    /\ waiter = "none"
    /\ process = "none"
    /\ written = 0
    /\ pipe = [end |-> "none", bytes |-> <<>>]
    /\ file = [end |-> "none", bytes |-> <<>>]
    /\ viewer = [v \in Viewers |->
                    [pc |-> "idle", chunk |-> <<>>, buf |-> <<>>, sent |-> <<>>,
                     lost |-> <<>>, err |-> "none", end |-> "none"]]

Next ==
    \/ ScheduleLongJobsWithStreaming \/ ScheduleLongJobsWithDumping
    \/ ApiScheduleJobs \/ Enqueue \/ StopJob
    \/ ExecutorNext \/ ProcessNext
    \/ \E v \in Viewers : ViewerNext(v)

Spec == Init /\ [][Next]_vars

(***************************************************************************)
(* Fairness.  Every goroutine that can run runs, and a killed process dies. *)
(* A process need not write or end by itself and nobody need stop the job,  *)
(* but its timeout fires.  A client that is sent a line takes it or is      *)
(* found gone; no client has to open a session.                             *)
(***************************************************************************)
RunSteps == \/ Enqueue \/ Pickup \/ ExecOpen \/ ExecStart \/ ExecTimeout
            \/ ExecComplete \/ ExecReturn

SessionSteps(v) ==
    \/ CheckCompleted(v) \/ CheckStreaming(v) \/ Claim(v)
    \/ OpenReader(v) \/ ReadPipe(v) \/ TeeWrite(v) \/ TeeWriteFails(v)
    \/ ReadEnd(v) \/ ReportEnd(v) \/ WriteMessage(v) \/ Release(v)

Fairness ==
    /\ WF_vars(RunSteps)
    /\ WF_vars(ProcessKilled \/ WaitProcess \/ WaitClosePipe)
    /\ \A v \in Viewers : WF_vars(SessionSteps(v))

FairSpec == Spec /\ Fairness

-----------------------------------------------------------------------------
(* Properties *)

Bytes(s) == {s[i] : i \in 1 .. Len(s)}

Increasing(s) == \A i, k \in 1 .. Len(s) : i < k => s[i] < s[k]

\* The sessions that have claimed the stream and not released it.
Streaming == {v \in Viewers :
                 viewer[v].pc \in {"open", "read", "tee", "release"}}

\* FlagHasStreamer: Job.isstreaming is set only while a session streams, so no
\* way out of streamJob, a panic or a lost client included, locks the others
\* out for ever.
FlagHasStreamer == job.isstreaming => Streaming # {}

\* SessionsSplitTheOutput: whatever sessions follow or overlap each other, each
\* client gets its bytes in the order they were written, and no byte is sent
\* twice, not even to two clients.
SessionsSplitTheOutput ==
    /\ \A v \in Viewers : Increasing(viewer[v].sent)
    /\ \A v, w \in Viewers :
          v # w => Bytes(viewer[v].sent) \cap Bytes(viewer[w].sent) = {}

\* What session v has taken out of the pipe and still has or has sent, in this
\* order, and with what a failed write took from it.
Kept(v) == viewer[v].sent \o viewer[v].buf \o viewer[v].chunk
Received(v) == Bytes(Kept(v)) \cup Bytes(viewer[v].lost)

\* The bytes of the whole lines that were written.
InWholeLines == {n \in 1 .. written : \E m \in Newlines : n <= m /\ m <= written}

\* CompletedMeansAll: when a client reads "Job completed. No more stream.",
\* every byte the process wrote has reached a session, none is left in the pipe;
\* and a client that no other session has taken bytes from was sent every line,
\* whatever chunks they came in.
CompletedMeansAll ==
    \A v \in Viewers :
       viewer[v].end = "completed"
          => /\ 1 .. written \subseteq UNION {Received(w) : w \in Viewers}
             /\ (\A w \in Viewers \ {v} : Received(w) = {})
                   => InWholeLines \subseteq Bytes(viewer[v].sent)

\* SentIsDumped: a job that is streamed and dumped has in its file every byte
\* that any client got, although a write may fail half-way and the executor may
\* close the file at any moment.
SentIsDumped ==
    job.stream /\ job.dump
       => \A v \in Viewers : Bytes(viewer[v].sent) \subseteq Bytes(file.bytes)

\* NoFalseEnd: a session is told of an end or of an error of the stream only
\* when the process has ended or is about to (the job is completed by then);
\* with one exception, which the message to the client allows for: the file it
\* was dumped to could not be written.
NoFalseEnd ==
    \A v \in Viewers :
       viewer[v].end \in {"completed", "error", "unexpected"}
          => \/ process # "running"
             \/ /\ viewer[v].end = "error" /\ viewer[v].err = "disk"
                /\ job.dump

\* The inductive invariant of NoFalseEnd: what holds before the process has
\* ended, of the executor, of the ends of the pipe and the file, and of how far
\* a session can be.
NotMade == executor \in {"none", "queued", "open"}
NotEnded == executor \in {"none", "queued", "open", "start"}
               \/ process = "running"

ExecutorInv ==
    /\ executor \in {"none", "queued", "open", "start"}
          => process = "none" /\ waiter = "none"
    /\ process = "running" => executor = "select" /\ waiter = "wait"
    /\ waiter \in {"reaped", "send", "gone"} => process = "dead"
    /\ NotMade => ~job.outpipe /\ ~job.outstream
    /\ NotEnded => /\ pipe.end # "closed" /\ file.end # "closed"
                   /\ ~job.iscompleted
    /\ NotEnded /\ ~NotMade /\ job.dump => file.end = "open"
    /\ job.listed \/ executor = "none"

\* What a session may have met before the process has ended.
EndsInTime(v) ==
    /\ viewer[v].err \in {"none", "disk"}
    /\ viewer[v].end \notin {"completed", "unexpected"}
    /\ viewer[v].end = "error" => viewer[v].err = "disk"

SessionInv ==
    \A v \in Viewers :
       /\ viewer[v].pc \notin {"idle", "gone"} => job.listed
       /\ viewer[v].pc \in {"read", "tee"} => ~NotMade
       /\ viewer[v].pc = "tee" \/ viewer[v].err = "disk"
             => job.dump /\ job.listed
       /\ NotEnded => EndsInTime(v)

StreamInv == TypeOK /\ FlagHasStreamer /\ ExecutorInv /\ SessionInv

\* The inductive invariant of the properties about bytes.  The bytes have
\* numbers, so one number says which of them left the pipe: each of those is
\* with one session, and each session passes its bytes on in order.
Taken == written - Len(pipe.bytes)

PipeInv ==
    /\ Taken >= 0
    /\ \A i \in 1 .. Len(pipe.bytes) : pipe.bytes[i] = Taken + i
    /\ ~job.stream => pipe.bytes = <<>>
    /\ process = "none" => written = 0
    /\ job.outpipe \/ job.outstream => job.stream

InOrder(v) ==
    /\ Received(v) \subseteq 1 .. Taken
    /\ Increasing(Kept(v))
    /\ viewer[v].pc # "tee" => viewer[v].chunk = <<>>
    /\ viewer[v].pc = "tee" => viewer[v].err = "none"
    /\ viewer[v].err \in {"none", "EOF"} => viewer[v].lost = <<>>

KnowsTheEnd(v) ==
    /\ viewer[v].pc \in {"read", "tee"} \/ viewer[v].err # "none" => job.stream
    /\ viewer[v].err = "EOF" => process = "dead" /\ pipe.bytes = <<>>
    /\ viewer[v].end = "completed"
          => /\ viewer[v].err = "EOF" /\ ~HasLine(viewer[v].buf)
             /\ viewer[v].pc \in {"release", "gone"}

Dumped(v) ==
    job.stream /\ job.dump
       => Bytes(viewer[v].sent) \cup Bytes(viewer[v].buf) \subseteq Bytes(file.bytes)

NoByteTwice == \A v, w \in Viewers : v # w => Received(v) \cap Received(w) = {}

NoByteLost == job.stream => 1 .. Taken \subseteq UNION {Received(v) : v \in Viewers}

\* BytesInv: each byte that left the pipe is with one session or was lost with
\* one, in order, dumped before it is passed on, and streamJob knows of the end
\* only when the process is dead and the pipe empty.
BytesInv == /\ PipeInv /\ NoByteTwice /\ NoByteLost
            /\ \A v \in Viewers : InOrder(v) /\ KnowsTheEnd(v) /\ Dumped(v)

\* StreamsEnd: a session that has claimed the stream ends at last, by itself:
\* no pipe that stays silent, empty or closed holds it for ever.
StreamsEnd == \A v \in Viewers : At(v, "open") ~> At(v, "gone")

\* JobEnds: a job that was scheduled completes, also when nobody reads its
\* output and its process waits for ever in front of a full pipe.
JobEnds == job.listed ~> job.iscompleted
=============================================================================
