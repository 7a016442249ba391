-------------------------- MODULE InstantExecutor --------------------------
(***************************************************************************)
(* One request that executes a command at once and streams its output: the *)
(* handler, the goroutine that reads the output, the process, and the      *)
(* unbuffered channel done between the two goroutines.  Both write to the  *)
(* response, which is not made for that, and the reader may outlive the    *)
(* handler.                                                                *)
(*                                                                         *)
(* The unit of output is a line; the lines are numbered as the process     *)
(* writes them to its standard output.  The handler sets Stderr to Stdout  *)
(* while Stdout is nil: what the process writes to its standard error goes *)
(* to the null device and is not modelled.                                 *)
(***************************************************************************)
EXTENDS Integers, Sequences

CONSTANTS
    Timeouts,       \* the timeouts a request may ask for; 0: none
    MaxLines,       \* bound: lines the process writes to its standard output
    PipeCapacity    \* lines that fit into the pipe

ASSUME InstantAssumption == /\ Timeouts \subseteq Nat
                            /\ MaxLines \in Nat
                            /\ PipeCapacity \in Nat \ {0}

VARIABLES
    handler,    \* instantCommandExecutor; "crashed": the worker is gone
    limit,      \* the deadline of the context, in seconds; 0: none
    ctx,        \* the context of the request
    reader,     \* the goroutine that reads the output
    buf,        \* the lines in the buffer of its scanner
    answer,     \* what was written to the response
    damaged,    \* a write has met another one, or the end of the handler
    process,    \* the command
    overlong,   \* a line that exceeds the scanner's buffer; 0: there is none
    percent,    \* a line with a percent sign in it; 0: there is none
    written,    \* number of lines the process has written
    pipe        \* its standard output: the end the reader has, and the lines

vars == <<handler, limit, ctx, reader, buf, answer, damaged, process, overlong,
          percent, written, pipe>>
asked == <<limit, overlong, percent>>
response == <<answer, damaged>>

Line == 1 .. MaxLines

\* A line is used as a format: without operands each verb in it comes out as
\* something else.  -n is line n so mangled.
Formatted(n) == IF n = percent THEN -n ELSE n
Notice == 0    \* the text that tells the client of the timeout
Text == -MaxLines .. MaxLines

TypeOK ==
    /\ handler \in {"none", "pipe", "start", "select", "notice", "kill", "wait",
                    "gone", "crashed"}
    /\ limit \in Nat
    /\ ctx \in {"live", "deadline", "cancelled"}
    /\ reader \in {"none", "scan", "write", "send", "gone"}
    /\ buf \in Seq(Line) /\ Len(buf) <= PipeCapacity
    /\ answer \in Seq(Text)
    /\ damaged \in BOOLEAN
    /\ process \in {"none", "running", "killed", "dead"}
    /\ overlong \in 0 .. MaxLines /\ percent \in 0 .. MaxLines
    /\ written \in 0 .. MaxLines
    /\ pipe \in [end : {"none", "open", "closed"}, lines : Seq(Line)]
    /\ Len(pipe.lines) <= PipeCapacity

-----------------------------------------------------------------------------
(* The handler *)

\* The request comes in with a command.  The timeout is given in minutes to
\* the context.
Begin ==
    /\ handler = "none"
    /\ handler' = "pipe"
    /\ \E timeout \in Timeouts : limit' = 60 * timeout
    /\ overlong' \in 0 .. MaxLines /\ percent' \in 0 .. MaxLines
    /\ UNCHANGED <<ctx, reader, buf, response, process, written, pipe>>

\* The pipe is made and the reader starts before the process does.
StartReader ==
    /\ handler = "pipe"
    /\ handler' = "start"
    /\ reader' = "scan"
    /\ pipe' = [pipe EXCEPT !.end = "open"]
    /\ UNCHANGED <<asked, ctx, buf, response, process, written>>

\* The error of StdoutPipe is dropped: without a pipe the scanner has a nil
\* reader, and its goroutine panics, which ends the worker.
PipeFails ==
    /\ handler = "pipe"
    /\ handler' = "crashed"
    /\ UNCHANGED <<asked, ctx, reader, buf, response, process, written, pipe>>

\* cmd.Start, which fails once the context is done.  The status 200 that is set
\* then is the one that a first line of the reader sets, too.
Start ==
    /\ handler = "start" /\ ctx = "live"
    /\ handler' = "select"
    /\ process' = "running"
    /\ UNCHANGED <<asked, ctx, reader, buf, response, written, pipe>>

\* The handler says so, alone, and returns; cmd.Start has closed the pipe.
StartFails ==
    /\ handler = "start"
    /\ handler' = "gone"
    /\ pipe' = [pipe EXCEPT !.end = "closed"]
    /\ UNCHANGED <<asked, ctx, reader, buf, response, process, written>>

Deadline ==
    /\ limit > 0 /\ ctx = "live"
    /\ handler \in {"pipe", "start", "select", "notice", "kill", "wait"}
    /\ ctx' = "deadline"
    /\ UNCHANGED <<asked, handler, reader, buf, response, process, written, pipe>>

\* The client goes away.
Cancel ==
    /\ ctx = "live"
    /\ handler \in {"pipe", "start", "select", "notice", "kill", "wait"}
    /\ ctx' = "cancelled"
    /\ UNCHANGED <<asked, handler, reader, buf, response, process, written, pipe>>

\* case <-ctx.Done(): a deadline is told to the client, a client that is gone
\* is not told anything.
TakeContext ==
    /\ handler = "select" /\ ctx # "live"
    /\ handler' = IF ctx = "deadline" THEN "notice" ELSE "kill"
    /\ UNCHANGED <<asked, ctx, reader, buf, response, process, written, pipe>>

\* The notice is written.  If the reader is in a write of its own, both are in
\* the same buffer at once: the answer may come out whole by chance, it may be
\* garbled, and a goroutine that panics in it takes the worker down.
EndNotice ==
    /\ handler = "notice"
    /\ \/ /\ handler' = "kill"
          /\ answer' = Append(answer, Notice)
          /\ UNCHANGED damaged
       \/ /\ reader = "write"
          /\ handler' \in {"kill", "crashed"}
          /\ damaged' = TRUE
          /\ UNCHANGED answer
    /\ UNCHANGED <<asked, ctx, reader, buf, process, written, pipe>>

KillProcess ==
    /\ handler = "kill"
    /\ handler' = "wait"
    /\ process' = IF process = "running" THEN "killed" ELSE process
    /\ UNCHANGED <<asked, ctx, reader, buf, response, written, pipe>>

\* Mutant: the handler waits for the command at once, not for its output.
TakeExit ==
    /\ handler = "select" /\ process = "dead"
    /\ handler' = "wait"
    /\ UNCHANGED <<asked, ctx, reader, buf, response, process, written, pipe>>

\* case <-done: both sides go on at once.
TakeDone ==
    /\ handler = "select" /\ reader = "send"
    /\ handler' = "wait"
    /\ reader' = "gone"
    /\ UNCHANGED <<asked, ctx, buf, response, process, written, pipe>>

\* Mutant: the handler waits until its reader has left, too.
WaitForReader ==
    /\ handler = "wait" /\ process = "dead" /\ reader = "gone"
    /\ handler' = "gone"
    /\ pipe' = [pipe EXCEPT !.end = "closed"]
    /\ UNCHANGED <<asked, ctx, reader, buf, response, process, written>>

\* cmd.Wait waits for the process and closes the pipe.
Wait ==
    /\ handler = "wait" /\ process = "dead"
    /\ handler' = "gone"
    /\ pipe' = [pipe EXCEPT !.end = "closed"]
    /\ UNCHANGED <<asked, ctx, reader, buf, response, process, written>>

HandlerNext == \/ Begin \/ StartReader \/ PipeFails \/ Start \/ StartFails
               \/ Deadline \/ Cancel \/ TakeContext \/ EndNotice \/ KillProcess
               \/ TakeDone \/ Wait

-----------------------------------------------------------------------------
(* The reader: bufio.Scanner fills its buffer and hands out lines *)

ScanFill ==
    /\ handler # "crashed"
    /\ reader = "scan" /\ buf = <<>> /\ pipe.end = "open"
    /\ \E k \in 1 .. Len(pipe.lines) :
          /\ buf' = SubSeq(pipe.lines, 1, k)
          /\ pipe' = [pipe EXCEPT !.lines = SubSeq(@, k + 1, Len(@))]
    /\ UNCHANGED <<asked, handler, ctx, reader, response, process, written>>

\* A line goes to fmt.Fprintf,
ScanLine ==
    /\ handler # "crashed"
    /\ reader = "scan" /\ buf # <<>> /\ Head(buf) # overlong
    /\ reader' = "write"
    /\ UNCHANGED <<asked, handler, ctx, buf, response, process, written, pipe>>

\* which writes it to the response and flushes.  When the handler is in its own
\* write, see EndNotice; when it has returned, the response is not its any more:
\* the line is lost or comes up in another answer, or the write panics.
WriteResponse ==
    /\ reader = "write"
    /\ reader' = "scan"
    /\ buf' = Tail(buf)
    /\ \/ /\ handler \notin {"gone", "crashed"}
          /\ answer' = Append(answer, Formatted(Head(buf)))
          /\ UNCHANGED <<handler, damaged>>
       \/ /\ handler \in {"notice", "gone"}
          /\ handler' \in {handler, "crashed"}
          /\ damaged' = TRUE
          /\ UNCHANGED answer
    /\ UNCHANGED <<asked, ctx, process, written, pipe>>

\* Scan returns FALSE for a line that its buffer cannot hold, as it does at
\* the end of the output; nobody asks the scanner which of the two it was.
ScanOverlong ==
    /\ handler # "crashed"
    /\ reader = "scan" /\ buf # <<>> /\ Head(buf) = overlong
    /\ reader' = "send"
    /\ UNCHANGED <<asked, handler, ctx, buf, response, process, written, pipe>>

\* Mutant: an empty pipe is taken for the end.
ScanEndEarly ==
    /\ handler # "crashed"
    /\ reader = "scan" /\ buf = <<>>
    /\ pipe.end = "closed" \/ pipe.lines = <<>>
    /\ reader' = "send"
    /\ UNCHANGED <<asked, handler, ctx, buf, response, process, written, pipe>>

ScanEnd ==
    /\ handler # "crashed"
    /\ reader = "scan" /\ buf = <<>>
    /\ pipe.end = "closed" \/ (process = "dead" /\ pipe.lines = <<>>)
    /\ reader' = "send"
    /\ UNCHANGED <<asked, handler, ctx, buf, response, process, written, pipe>>

ReaderNext == ScanFill \/ ScanLine \/ WriteResponse \/ ScanOverlong \/ ScanEnd

-----------------------------------------------------------------------------
(* The process *)

\* Mutant: the pipe takes any number of lines.
WriteLineUnbounded ==
    /\ process \in {"running", "killed"} /\ written < MaxLines
    /\ written' = written + 1
    /\ pipe' = [pipe EXCEPT !.lines = Append(@, written + 1)]
    /\ UNCHANGED <<asked, handler, ctx, reader, buf, response, process>>

WriteLine ==
    /\ process \in {"running", "killed"} /\ written < MaxLines
    /\ Len(pipe.lines) < PipeCapacity
    /\ written' = written + 1
    /\ pipe' = [pipe EXCEPT !.lines = Append(@, written + 1)]
    /\ UNCHANGED <<asked, handler, ctx, reader, buf, response, process>>

\* It ends by itself or from the signal.  The context kills it as well, also
\* when the handler is past its select.
ProcessExit ==
    /\ process \in {"running", "killed"}
    /\ process' = "dead"
    /\ UNCHANGED <<asked, handler, ctx, reader, buf, response, written, pipe>>

ContextKills ==
    /\ ctx # "live" /\ process = "running"
    /\ process' = "killed"
    /\ UNCHANGED <<asked, handler, ctx, reader, buf, response, written, pipe>>

ProcessNext == WriteLine \/ ProcessExit \/ ContextKills

-----------------------------------------------------------------------------
Init ==
    /\ handler = "none"
    /\ limit = 0
    /\ ctx = "live"
    /\ reader = "none"
    /\ buf = <<>>
    /\ answer = <<>> /\ damaged = FALSE
    /\ process = "none"
    /\ overlong = 0 /\ percent = 0
    /\ written = 0
    /\ pipe = [end |-> "none", lines |-> <<>>]

Next == HandlerNext \/ ReaderNext \/ ProcessNext

Spec == Init /\ [][Next]_vars

(***************************************************************************)
(* Fairness.  Both goroutines run when they can, a client takes what it is *)
(* sent or is gone, the context kills and a killed process dies.  A        *)
(* process need not write or end by itself.                                *)
(***************************************************************************)
Fairness ==
    /\ WF_vars(StartReader \/ Start \/ StartFails \/ TakeContext \/ EndNotice
               \/ KillProcess \/ TakeDone \/ Wait)
    /\ WF_vars(ReaderNext)
    /\ WF_vars(ContextKills)
    /\ WF_vars(process = "killed" /\ ProcessExit)

FairSpec == Spec /\ Fairness

-----------------------------------------------------------------------------
(* Properties *)

\* UncutIsClean: as long as neither the deadline nor the client has ended the
\* context, the two goroutines never write to the response at once and none
\* writes to it after the handler has returned, although nothing but the channel
\* done keeps them apart.
UncutIsClean == ctx = "live" => ~damaged

\* UncutIsComplete: when the handler returns from a command that was started
\* and that neither its timeout nor the client nor an overlong line cut off,
\* the client has got all of its standard output, each line once and in order;
\* only a line with a percent sign is not what the command wrote.
UncutIsComplete ==
    handler = "gone" /\ process # "none" /\ ctx = "live" /\ overlong = 0
       => answer = [n \in 1 .. written |-> Formatted(n)]

\* The lines of s are numbered from n + 1 on.
Numbered(s, n) == \A i \in 1 .. Len(s) : s[i] = n + i

\* The inductive invariant of the two.  Each line has left the reader, or is in
\* its buffer or in the pipe, in the order of its number.  Until the context
\* ends, what has left the reader is the answer, and the reader leaves only
\* when it has sent all lines up to the overlong one.
left == written - (Len(buf) + Len(pipe.lines))

LinesInv ==
    /\ left \in Nat
    /\ Numbered(buf, left)
    /\ Numbered(pipe.lines, left + Len(buf))
    /\ ctx = "live" => /\ ~damaged
                       /\ Len(answer) = left
                       /\ \A i \in 1 .. Len(answer) : answer[i] = Formatted(i)

HandlerInv ==
    /\ handler = "none" => overlong = 0 /\ percent = 0
    /\ handler \in {"none", "pipe"} => reader = "none"
    /\ handler \in {"none", "pipe", "start"} => process = "none"
    /\ handler \in {"select", "notice", "kill", "wait"} => process # "none"
    /\ handler \in {"notice", "kill"} => ctx # "live"
    /\ pipe.end = "closed" => handler \in {"gone", "crashed"}

Started == ctx = "live" /\ process # "none"

ReaderInv ==
    /\ Started /\ overlong = 0 /\ reader \in {"send", "gone"}
          => process = "dead" /\ buf = <<>> /\ pipe.lines = <<>>
    /\ Started /\ handler \in {"wait", "gone"} => reader = "gone"
    /\ reader = "write" => buf # <<>>
    /\ process = "none" => written = 0
    /\ process = "none" /\ handler # "gone" => reader \in {"none", "scan"}

InstantInv == TypeOK /\ LinesInv /\ HandlerInv /\ ReaderInv

\* HandlerReturns: the handler returns after its context is done, and after
\* the process has ended by itself, wherever the reader is.
HandlerReturns ==
    ctx # "live" \/ process = "dead" ~> handler \in {"gone", "crashed"}
=============================================================================
