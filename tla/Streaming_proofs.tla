------------------------- MODULE Streaming_proofs --------------------------
(***************************************************************************)
(* Proofs about Streaming, for any set of sessions, any number of bytes    *)
(* and any capacity of the pipe.                                           *)
(***************************************************************************)
EXTENDS Streaming, SequenceTheorems, TLAPS

-----------------------------------------------------------------------------
(* Sequences *)

\* A sequence is cut in two after its first n elements.
LEMMA CutAt ==
    ASSUME NEW S, NEW s \in Seq(S), NEW n \in 0 .. Len(s)
    PROVE  /\ SubSeq(s, 1, n) \in Seq(S)
           /\ SubSeq(s, n + 1, Len(s)) \in Seq(S)
           /\ Len(SubSeq(s, n + 1, Len(s))) = Len(s) - n
           /\ s = SubSeq(s, 1, n) \o SubSeq(s, n + 1, Len(s))
<1>1. /\ Len(s) \in Nat /\ n \in Nat
      /\ \A i \in 1 .. Len(s) : s[i] \in S
  BY LenProperties, ElementOfSeq
<1>2. \A i \in 1 .. n : s[i] \in S
  BY <1>1
<1>3. \A i \in n + 1 .. Len(s) : s[i] \in S
  BY <1>1
<1>4. SubSeq(s, 1, n) \in Seq(S)
  BY <1>1, <1>2, SubSeqProperties
<1>5. /\ SubSeq(s, n + 1, Len(s)) \in Seq(S)
      /\ Len(SubSeq(s, n + 1, Len(s))) = Len(s) - n
  BY <1>1, <1>3, SubSeqProperties
<1>6. SubSeq(s, 1, n) \o SubSeq(s, n + 1, Len(s)) = SubSeq(s, 1, Len(s))
  <2>1. /\ 1 \in 1 .. Len(s) + 1 /\ n \in 1 - 1 .. Len(s)
        /\ Len(s) \in n .. Len(s)
    BY <1>1
  <2>2. QED  BY <2>1, ConcatAdjacentSubSeq
<1>7. QED  BY <1>4, <1>5, <1>6, SubSeqFull

\* Three sequences are put together from either side.
LEMMA InAnyOrder ==
    \A s, t, u \in Seq(Int) : (s \o t) \o u = s \o (t \o u)
  BY ConcatAssociative

-----------------------------------------------------------------------------
(* The invariant *)

\* A step that leaves the sessions alone keeps the claim of the stream, as long
\* as it does not set the flag.
LEMMA StreamingKept ==
    ASSUME FlagHasStreamer, viewer' = viewer,
           job'.isstreaming => job.isstreaming
    PROVE  FlagHasStreamer'
  BY DEF FlagHasStreamer, Streaming

\* The initial states are in the invariant.
LEMMA InvInit == Init => StreamInv
<1> SUFFICES ASSUME Init  PROVE StreamInv
  OBVIOUS
<1>1. <<>> \in Seq(Byte) /\ Len(<<>>) = 0
  BY EmptySeq
<1>2. job \in Job
  BY DEF Init, Job
<1>3. pipe \in [end : EndState, bytes : Seq(Byte)] /\ Len(pipe.bytes) = 0
  BY <1>1 DEF Init, EndState
<1>4. file \in [end : EndState, bytes : Seq(Byte)]
  BY <1>1 DEF Init, EndState
<1>5. viewer \in [Viewers -> Viewer]
  BY <1>1 DEF Init, Viewer, Ends
<1>6. TypeOK
  <2>1. /\ stop = FALSE /\ executor = "none" /\ waiter = "none"
        /\ process = "none" /\ written = 0
    BY DEF Init
  <2>2. Len(pipe.bytes) <= PipeCapacity
    BY <1>3, StreamingAssumption
  <2>3. written \in 0 .. MaxBytes
    BY <2>1, StreamingAssumption
  <2>4. QED  BY ONLY <1>2, <1>3, <1>4, <1>5, <2>1, <2>2, <2>3 DEF TypeOK
<1>7. FlagHasStreamer /\ ExecutorInv /\ SessionInv
  BY DEF Init, FlagHasStreamer, ExecutorInv, SessionInv, NotMade, NotEnded,
          EndsInTime
<1>8. QED  BY <1>6, <1>7 DEF StreamInv

\* A request that schedules the job keeps it.
LEMMA InvRegister ==
    ASSUME NEW output \in Output, StreamInv, Register(output)
    PROVE  StreamInv'
<1> USE DEF StreamInv, Register, engine
<1>1. TypeOK'
  BY DEF TypeOK, Job, Output
<1>2. FlagHasStreamer'
  BY StreamingKept DEF TypeOK, Job
<1>3. ExecutorInv'
  BY DEF TypeOK, Job, ExecutorInv, NotMade, NotEnded
<1>4. SessionInv'
  BY DEF TypeOK, Job, SessionInv, NotMade, NotEnded, EndsInTime
<1>5. QED  BY <1>1, <1>2, <1>3, <1>4

\* So does a step of the executor.
LEMMA InvExecutor == StreamInv /\ ExecutorNext => StreamInv'
<1> SUFFICES ASSUME StreamInv, ExecutorNext  PROVE StreamInv'
  OBVIOUS
<1> USE DEF StreamInv
<1>1. job'.isstreaming = job.isstreaming /\ viewer' = viewer
  BY DEF ExecutorNext, TypeOK, Job, Pickup, ExecOpen, ExecFail, ExecStart,
         ExecTimeout, ExecStop, ExecDone, ExecComplete, ExecReturn
<1>2. FlagHasStreamer'
  BY <1>1, StreamingKept
<1> USE DEF TypeOK, Job, EndState, Opened, Closed, Kill, Piped, ExecutorInv,
            SessionInv, NotMade, NotEnded, EndsInTime
<1>3. CASE Pickup
  BY <1>2, <1>3 DEF Pickup
<1>4. CASE ExecOpen
  BY <1>2, <1>4 DEF ExecOpen
<1>5. CASE ExecFail
  BY <1>2, <1>5 DEF ExecFail
<1>6. CASE ExecStart
  BY <1>2, <1>6 DEF ExecStart
<1>7. CASE ExecTimeout
  BY <1>2, <1>7 DEF ExecTimeout
<1>8. CASE ExecStop
  <2>1. TypeOK'
    BY <1>8 DEF ExecStop
  <2>2. ExecutorInv' /\ SessionInv'
    BY <1>8 DEF ExecStop
  <2>3. QED  BY <1>2, <2>1, <2>2
<1>9. CASE ExecDone
  BY <1>2, <1>9 DEF ExecDone
<1>10. CASE ExecComplete
  BY <1>2, <1>10 DEF ExecComplete
<1>11. CASE ExecReturn
  BY <1>2, <1>11 DEF ExecReturn
<1>12. QED
  BY <1>3, <1>4, <1>5, <1>6, <1>7, <1>8, <1>9, <1>10, <1>11 DEF ExecutorNext

\* So does a step of the process or of the goroutine that waits for it.
LEMMA InvProcess == StreamInv /\ ProcessNext => StreamInv'
<1> SUFFICES ASSUME StreamInv, ProcessNext  PROVE StreamInv'
  OBVIOUS
<1> USE DEF StreamInv
<1>1. job' = job /\ viewer' = viewer
  BY DEF ProcessNext, WriteByte, ProcessExit, ProcessKilled, WaitProcess,
         WaitClosePipe
<1>2. FlagHasStreamer'
  BY <1>1, StreamingKept
<1>3. CASE WriteByte
  <2>1. written + 1 \in Byte /\ written' \in 0 .. MaxBytes
    BY <1>3, StreamingAssumption DEF WriteByte, TypeOK, Byte
  <2>2. pipe' \in [end : EndState, bytes : Seq(Byte)]
        /\ Len(pipe'.bytes) <= PipeCapacity /\ pipe'.end = pipe.end
    <3>1. CASE Piped
      <4>1. /\ Len(pipe.bytes) < PipeCapacity
            /\ pipe' = [pipe EXCEPT !.bytes = Append(@, written + 1)]
        BY <1>3, <3>1 DEF WriteByte
      <4>2. /\ Append(pipe.bytes, written + 1) \in Seq(Byte)
            /\ Len(Append(pipe.bytes, written + 1)) = Len(pipe.bytes) + 1
            /\ Len(pipe.bytes) \in Nat
        BY <2>1 DEF TypeOK
      <4>3. /\ pipe' \in [end : EndState, bytes : Seq(Byte)]
            /\ pipe'.bytes = Append(pipe.bytes, written + 1)
            /\ pipe'.end = pipe.end
        BY <4>1, <4>2 DEF TypeOK
      <4>4. QED  BY <4>1, <4>2, <4>3, StreamingAssumption
    <3>2. CASE ~Piped
      BY <1>3, <3>2 DEF WriteByte, TypeOK
    <3>3. QED  BY <3>1, <3>2
  <2>3. file' \in [end : EndState, bytes : Seq(Byte)] /\ file'.end = file.end
    <3>1. Append(file.bytes, written + 1) \in Seq(Byte)
      BY <2>1 DEF TypeOK
    <3>2. QED  BY <1>3, <3>1 DEF WriteByte, TypeOK
  <2>4. TypeOK'
    BY <1>3, <2>1, <2>2, <2>3 DEF WriteByte, TypeOK
  <2>5. ExecutorInv' /\ SessionInv'
    BY <1>3, <2>2, <2>3
       DEF WriteByte, ExecutorInv, SessionInv, NotMade, NotEnded,
          EndsInTime
  <2>6. QED  BY <1>2, <2>4, <2>5
<1> USE DEF TypeOK, EndState, Closed, ExecutorInv, SessionInv, NotMade,
            NotEnded, EndsInTime
<1>4. CASE ProcessExit
  BY <1>2, <1>4 DEF ProcessExit
<1>5. CASE ProcessKilled
  BY <1>2, <1>5 DEF ProcessKilled
<1>6. CASE WaitProcess
  BY <1>2, <1>6 DEF WaitProcess
<1>7. CASE WaitClosePipe
  BY <1>2, <1>7 DEF WaitClosePipe
<1>8. QED  BY <1>3, <1>4, <1>5, <1>6, <1>7 DEF ProcessNext

\* The session v takes a step, and it holds the claim afterwards, or it did not
\* hold it and the flag is as before, or the flag is not set.
LEMMA ClaimKept ==
    ASSUME NEW v \in Viewers, FlagHasStreamer,
           \A w \in Viewers \ {v} : viewer'[w] = viewer[w],
           \/ v \in Streaming'
           \/ v \notin Streaming /\ job'.isstreaming = job.isstreaming
           \/ ~job'.isstreaming
    PROVE  FlagHasStreamer'
<1>1. CASE v \in Streaming' \/ ~job'.isstreaming
  BY <1>1 DEF FlagHasStreamer
<1>2. CASE v \notin Streaming /\ job'.isstreaming = job.isstreaming
  BY <1>2 DEF FlagHasStreamer, Streaming
<1>3. QED  BY <1>1, <1>2

\* What a step of session v leaves alone: the other sessions, of the job all but
\* the flag, and the ends of the pipe and of the file.
OnlySession(v) == /\ viewer' \in [Viewers -> Viewer]
                  /\ \A w \in Viewers \ {v} : viewer'[w] = viewer[w]

JobKept == /\ job' \in Job
           /\ job'.listed = job.listed /\ job'.dump = job.dump
           /\ job'.outpipe = job.outpipe /\ job'.outstream = job.outstream
           /\ job'.iscompleted = job.iscompleted

EndsKept ==
    /\ pipe' \in [end : EndState, bytes : Seq(Byte)] /\ pipe'.end = pipe.end
    /\ Len(pipe'.bytes) <= PipeCapacity
    /\ file' \in [end : EndState, bytes : Seq(Byte)] /\ file'.end = file.end

Claimed == {"open", "read", "tee", "release"}

\* A step of one session that keeps the engine keeps the invariant, if it goes
\* to a place where it may be.
LEMMA SessionStep ==
    ASSUME NEW v \in Viewers, StreamInv, UNCHANGED engine,
           OnlySession(v), JobKept, EndsKept,
           viewer'[v].pc \notin {"idle", "gone"} => job.listed,
           viewer'[v].pc \in {"read", "tee"} => ~NotMade,
           viewer'[v].pc = "tee" \/ viewer'[v].err = "disk"
              => job.dump /\ job.listed,
           NotEnded => EndsInTime(v)',
           \/ viewer'[v].pc \in Claimed
           \/ viewer[v].pc \notin Claimed /\ job'.isstreaming = job.isstreaming
           \/ ~job'.isstreaming
    PROVE  StreamInv'
<1> USE DEF StreamInv, engine, OnlySession, JobKept, EndsKept
<1>1. TypeOK'
  BY DEF TypeOK
<1>2. FlagHasStreamer'
  <2>1. \/ v \in Streaming'
        \/ v \notin Streaming /\ job'.isstreaming = job.isstreaming
        \/ ~job'.isstreaming
    BY DEF Streaming, Claimed
  <2>2. QED  BY <2>1, ClaimKept
<1>3. ExecutorInv'
  BY DEF ExecutorInv, NotMade, NotEnded
<1>4. SessionInv'
  BY DEF SessionInv, NotMade, NotEnded, EndsInTime
<1>5. QED  BY <1>1, <1>2, <1>3, <1>4

\* A session moves on, and its end, if it gets one, is not that of the output.
LEMMA SessionMoves ==
    ASSUME NEW v \in Viewers, StreamInv, UNCHANGED <<engine, pipe, file>>,
           JobKept, OnlySession(v), viewer[v].pc # "gone",
           viewer'[v].pc = "gone" \/ job.listed,
           viewer'[v].pc \in {"read", "tee"} => ~NotMade,
           viewer'[v].pc # "tee", viewer'[v].err = viewer[v].err,
           \/ viewer'[v].end = viewer[v].end
           \/ viewer'[v].end \notin {"completed", "error", "unexpected"},
           \/ viewer'[v].pc \in Claimed
           \/ viewer[v].pc \notin Claimed /\ job'.isstreaming = job.isstreaming
           \/ ~job'.isstreaming
    PROVE  StreamInv'
<1>1. EndsKept
  BY DEF StreamInv, TypeOK, EndsKept
<1>2. /\ NotEnded => EndsInTime(v)
      /\ viewer[v].err = "disk" => job.dump /\ job.listed
  BY DEF StreamInv, SessionInv
<1>3. NotEnded => EndsInTime(v)'
  BY <1>2 DEF EndsInTime
<1>4. QED  BY <1>1, <1>2, <1>3, SessionStep

\* What Goto and Finish do to the session v.
LEMMA Moved ==
    ASSUME NEW v \in Viewers, viewer \in [Viewers -> Viewer],
           NEW pc \in {"completed?", "streaming?", "claim", "read", "release",
                       "gone"}
    PROVE  /\ Goto(v, pc) => /\ OnlySession(v)
                             /\ viewer'[v].pc = pc
                             /\ viewer'[v].end = viewer[v].end
                             /\ viewer'[v].err = viewer[v].err
           /\ \A end \in Ends : Finish(v, pc, end)
                                   => /\ OnlySession(v)
                                      /\ viewer'[v].pc = pc
                                      /\ viewer'[v].end = end
                                      /\ viewer'[v].err = viewer[v].err
<1> USE DEF OnlySession, Viewer
<1>1. ASSUME Goto(v, pc)
      PROVE  /\ OnlySession(v)
             /\ viewer'[v].pc = pc /\ viewer'[v].end = viewer[v].end
             /\ viewer'[v].err = viewer[v].err
  BY <1>1 DEF Goto
<1>2. ASSUME NEW end \in Ends, Finish(v, pc, end)
      PROVE  /\ OnlySession(v) /\ viewer'[v].pc = pc /\ viewer'[v].end = end
             /\ viewer'[v].err = viewer[v].err
  BY <1>2 DEF Finish
<1>3. QED  BY <1>1, <1>2

\* So does a step of a session.
LEMMA InvViewer ==
    ASSUME NEW v \in Viewers, StreamInv, ViewerNext(v)
    PROVE  StreamInv'
<1>1. /\ viewer[v] \in Viewer /\ viewer \in [Viewers -> Viewer]
      /\ job \in Job /\ pipe \in [end : EndState, bytes : Seq(Byte)]
      /\ Len(pipe.bytes) <= PipeCapacity
      /\ file \in [end : EndState, bytes : Seq(Byte)]
  BY DEF StreamInv, TypeOK
<1>2. /\ viewer[v].pc \notin {"idle", "gone"} => job.listed
      /\ viewer[v].pc \in {"read", "tee"} => ~NotMade
      /\ viewer[v].pc = "tee" \/ viewer[v].err = "disk"
            => job.dump /\ job.listed
      /\ NotEnded => EndsInTime(v)
      /\ NotMade => ~job.outpipe /\ ~job.outstream
  BY DEF StreamInv, SessionInv, ExecutorInv
<1>3. UNCHANGED job => JobKept
  BY <1>1 DEF JobKept
<1> USE DEF At, Claimed
<1>4. CASE Lookup(v)
  <2>1. /\ OnlySession(v) /\ viewer[v].pc = "idle"
        /\ viewer'[v].pc \in {"completed?", "gone"}
        /\ viewer'[v].pc = "gone" \/ job.listed
        /\ viewer'[v].end \in {viewer[v].end, "unknown"}
        /\ viewer'[v].err = viewer[v].err
    <3>1. \/ Goto(v, "completed?") /\ job.listed
          \/ Finish(v, "gone", "unknown")
      BY <1>4 DEF Lookup
    <3>2. QED  BY <1>1, <1>4, <3>1, Moved DEF Lookup, Ends
  <2>2. QED  BY <1>3, <1>4, <2>1, SessionMoves DEF Lookup
<1>5. CASE CheckCompleted(v)
  <2>1. /\ OnlySession(v) /\ viewer[v].pc = "completed?"
        /\ viewer'[v].pc \in {"streaming?", "gone"}
        /\ viewer'[v].end \in {viewer[v].end, "notrunning"}
        /\ viewer'[v].err = viewer[v].err
    <3>1. \/ Goto(v, "streaming?")
          \/ Finish(v, "gone", "notrunning")
      BY <1>5 DEF CheckCompleted
    <3>2. QED  BY <1>1, <1>5, <3>1, Moved DEF CheckCompleted, Ends
  <2>2. QED  BY <1>2, <1>3, <1>5, <2>1, SessionMoves DEF CheckCompleted
<1>6. CASE CheckStreaming(v)
  <2>1. /\ OnlySession(v) /\ viewer[v].pc = "streaming?"
        /\ viewer'[v].pc \in {"claim", "gone"}
        /\ viewer'[v].end \in {viewer[v].end, "busy"}
        /\ viewer'[v].err = viewer[v].err
    <3>1. \/ Goto(v, "claim")
          \/ Finish(v, "gone", "busy")
      BY <1>6 DEF CheckStreaming
    <3>2. QED  BY <1>1, <1>6, <3>1, Moved DEF CheckStreaming, Ends
  <2>2. QED  BY <1>2, <1>3, <1>6, <2>1, SessionMoves DEF CheckStreaming
<1>7. CASE Claim(v)
  <2>1. /\ OnlySession(v) /\ viewer[v].pc = "claim"
        /\ viewer'[v].pc = "open" /\ viewer'[v].end = viewer[v].end
        /\ viewer'[v].err = viewer[v].err
    BY <1>1, <1>7 DEF Claim, Goto, OnlySession, Viewer
  <2>2. JobKept
    BY <1>1, <1>7 DEF Claim, JobKept, Job
  <2>3. QED  BY <1>2, <1>7, <2>1, <2>2, SessionMoves DEF Claim
<1>8. CASE OpenReader(v)
  <2>1. /\ OnlySession(v) /\ viewer[v].pc = "open"
        /\ viewer'[v].pc \in {"read", "release"}
        /\ viewer'[v].pc = "read" => job.outpipe \/ job.outstream
        /\ viewer'[v].end \in {viewer[v].end, "panic"}
        /\ viewer'[v].err = viewer[v].err
    <3>1. \/ Goto(v, "read") /\ (job.outpipe \/ job.outstream)
          \/ Finish(v, "release", "panic")
      BY <1>8 DEF OpenReader
    <3>2. QED  BY <1>1, <1>8, <3>1, Moved DEF OpenReader, Ends
  <2>2. QED  BY <1>2, <1>3, <1>8, <2>1, SessionMoves DEF OpenReader
<1>9. CASE ReadPipe(v)
  <2>1. PICK k \in 1 .. Len(pipe.bytes) :
           /\ viewer' = IF job.dump
                        THEN [viewer EXCEPT
                                 ![v].chunk = SubSeq(pipe.bytes, 1, k),
                                 ![v].pc = "tee"]
                        ELSE [viewer EXCEPT
                                 ![v].buf = @ \o SubSeq(pipe.bytes, 1, k)]
           /\ pipe' = [pipe EXCEPT !.bytes = SubSeq(@, k + 1, Len(pipe.bytes))]
    BY <1>9 DEF ReadPipe
  <2>2. /\ pipe.bytes \in Seq(Byte) /\ Len(pipe.bytes) \in Nat
        /\ k \in 0 .. Len(pipe.bytes) /\ viewer[v].buf \in Seq(Byte)
    BY <1>1 DEF Viewer
  <2>3. PICK first \in Seq(Byte) : first = SubSeq(pipe.bytes, 1, k)
    BY <2>2, CutAt
  <2>4. /\ SubSeq(pipe.bytes, k + 1, Len(pipe.bytes)) \in Seq(Byte)
        /\ Len(SubSeq(pipe.bytes, k + 1, Len(pipe.bytes))) <= Len(pipe.bytes)
    BY <2>2, CutAt
  <2>5. viewer[v].pc = "read" /\ viewer[v].err = "none"
    BY <1>9 DEF ReadPipe, ReadsOn
  <2>6. /\ OnlySession(v)
        /\ viewer'[v].pc = IF job.dump THEN "tee" ELSE "read"
        /\ viewer'[v].end = viewer[v].end /\ viewer'[v].err = viewer[v].err
    <3>1. CASE job.dump
      <4>1. viewer' = [viewer EXCEPT ![v].chunk = first, ![v].pc = "tee"]
        BY <2>1, <2>3, <3>1
      <4>2. QED  BY <1>1, <2>3, <3>1, <4>1 DEF OnlySession, Viewer
    <3>2. CASE ~job.dump
      <4>1. viewer[v].buf \o first \in Seq(Byte)
        BY <2>2, <2>3, ConcatProperties
      <4>2. viewer' = [viewer EXCEPT ![v].buf = viewer[v].buf \o first]
        BY <1>1, <2>1, <2>3, <3>2 DEF Viewer
      <4>3. QED  BY <1>1, <2>5, <3>2, <4>1, <4>2 DEF OnlySession, Viewer
    <3>3. QED  BY <3>1, <3>2
  <2>7. EndsKept
    <3>1. /\ pipe' \in [end : EndState, bytes : Seq(Byte)]
          /\ pipe'.end = pipe.end
          /\ pipe'.bytes = SubSeq(pipe.bytes, k + 1, Len(pipe.bytes))
      BY <1>1, <2>1, <2>4
    <3>2. Len(pipe'.bytes) <= PipeCapacity
      BY <1>1, <2>2, <2>4, <3>1, LenProperties, StreamingAssumption
    <3>3. QED  BY <1>1, <1>9, <3>1, <3>2 DEF EndsKept, ReadPipe
  <2>8. NotEnded => EndsInTime(v)'
    BY <1>2, <2>6 DEF EndsInTime
  <2>9. QED
    BY <1>2, <1>3, <1>9, <2>5, <2>6, <2>7, <2>8, SessionStep DEF ReadPipe
<1>10. CASE TeeWrite(v)
  <2>1. /\ viewer[v].buf \o viewer[v].chunk \in Seq(Byte) /\ <<>> \in Seq(Byte)
        /\ file.bytes \o viewer[v].chunk \in Seq(Byte)
    BY <1>1, ConcatProperties, EmptySeq DEF Viewer
  <2>2. /\ OnlySession(v) /\ viewer[v].pc = "tee" /\ viewer'[v].pc = "read"
        /\ viewer'[v].end = viewer[v].end /\ viewer'[v].err = viewer[v].err
    <3>1. viewer' = [viewer EXCEPT ![v] =
                       [viewer[v] EXCEPT !.pc = "read", !.chunk = <<>>,
                          !.buf = viewer[v].buf \o viewer[v].chunk]]
      BY <1>1, <1>10 DEF TeeWrite
    <3>2. [viewer[v] EXCEPT !.pc = "read", !.chunk = <<>>,
              !.buf = viewer[v].buf \o viewer[v].chunk] \in Viewer
      BY <1>1, <2>1 DEF Viewer
    <3>3. QED  BY <1>1, <1>10, <3>1, <3>2 DEF TeeWrite, OnlySession, Viewer
  <2>3. EndsKept
    <3>1. /\ file' = [file EXCEPT !.bytes = file.bytes \o viewer[v].chunk]
          /\ UNCHANGED pipe
      BY <1>10 DEF TeeWrite
    <3>2. file' \in [end : EndState, bytes : Seq(Byte)] /\ file'.end = file.end
      BY <1>1, <2>1, <3>1
    <3>3. QED  BY <1>1, <3>1, <3>2 DEF EndsKept
  <2>4. NotEnded => EndsInTime(v)'
    BY <1>2, <2>2 DEF EndsInTime
  <2>5. QED  BY <1>2, <1>3, <1>10, <2>2, <2>3, <2>4, SessionStep DEF TeeWrite
<1>11. CASE TeeWriteFails(v)
  <2>1. PICK n \in 0 .. Len(viewer[v].chunk) - 1 :
           LET done == SubSeq(viewer[v].chunk, 1, n)
               rest == SubSeq(viewer[v].chunk, n + 1, Len(viewer[v].chunk))
           IN  /\ file.end # "open" => n = 0
               /\ file' = [file EXCEPT !.bytes = @ \o done]
               /\ viewer' = [viewer EXCEPT
                     ![v].pc = "read", ![v].chunk = <<>>, ![v].buf = @ \o done,
                     ![v].lost = rest,
                     ![v].err = IF file.end = "open" THEN "disk" ELSE "closed"]
    BY <1>11 DEF TeeWriteFails
  <2>2. PICK done \in Seq(Byte), rest \in Seq(Byte) :
           /\ done = SubSeq(viewer[v].chunk, 1, n)
           /\ rest = SubSeq(viewer[v].chunk, n + 1, Len(viewer[v].chunk))
    <3>1. viewer[v].chunk \in Seq(Byte) /\ n \in 0 .. Len(viewer[v].chunk)
      BY <1>1 DEF Viewer
    <3>2. QED  BY <3>1, CutAt
  <2>3. /\ viewer[v].buf \o done \in Seq(Byte) /\ <<>> \in Seq(Byte)
        /\ file.bytes \o done \in Seq(Byte)
    BY <1>1, <2>2, ConcatProperties, EmptySeq DEF Viewer
  <2>4. PICK err \in {"disk", "closed"} :
           err = IF file.end = "open" THEN "disk" ELSE "closed"
    OBVIOUS
  <2>5. /\ OnlySession(v) /\ viewer[v].pc = "tee" /\ viewer'[v].pc = "read"
        /\ viewer'[v].end = viewer[v].end /\ viewer'[v].err = err
    <3>1. viewer' = [viewer EXCEPT ![v] =
                       [viewer[v] EXCEPT !.pc = "read", !.chunk = <<>>,
                          !.buf = viewer[v].buf \o done, !.lost = rest,
                          !.err = err]]
      BY <1>1, <2>1, <2>2, <2>4
    <3>2. [viewer[v] EXCEPT !.pc = "read", !.chunk = <<>>,
              !.buf = viewer[v].buf \o done, !.lost = rest, !.err = err]
             \in Viewer
      BY <1>1, <2>2, <2>3, <2>4 DEF Viewer
    <3>3. QED  BY <1>1, <1>11, <3>1, <3>2 DEF TeeWriteFails, OnlySession, Viewer
  <2>6. EndsKept
    <3>1. /\ file' = [file EXCEPT !.bytes = file.bytes \o done]
          /\ UNCHANGED pipe
      BY <1>11, <2>1, <2>2 DEF TeeWriteFails
    <3>2. file' \in [end : EndState, bytes : Seq(Byte)] /\ file'.end = file.end
      BY <1>1, <2>3, <3>1
    <3>3. QED  BY <1>1, <3>1, <3>2 DEF EndsKept
  <2>7. NotEnded => EndsInTime(v)'
    <3>1. NotEnded => file.end = "open"
      BY <1>2, <2>5 DEF StreamInv, ExecutorInv
    <3>2. QED  BY <1>2, <2>4, <2>5, <3>1 DEF EndsInTime
  <2>8. QED
    BY <1>2, <1>3, <1>11, <2>5, <2>6, <2>7, SessionStep DEF TeeWriteFails
<1>12. CASE ReadEnd(v)
  <2>1. /\ OnlySession(v) /\ viewer[v].pc = "read" /\ viewer'[v].pc = "read"
        /\ viewer'[v].end = viewer[v].end
        /\ viewer'[v].err \in {"closed", "EOF"}
    BY <1>1, <1>12 DEF ReadEnd, ReadsOn, OnlySession, Viewer
  <2>2. ~NotEnded
    BY <1>2, <1>12, <2>1 DEF ReadEnd, StreamInv, ExecutorInv, NotMade, NotEnded
  <2>3. EndsKept
    BY <1>1, <1>12 DEF ReadEnd, EndsKept
  <2>4. QED  BY <1>2, <1>3, <1>12, <2>1, <2>2, <2>3, SessionStep DEF ReadEnd
<1>13. CASE ReportEnd(v)
  <2>1. PICK end \in {"completed", "error", "unexpected"} :
           /\ Finish(v, "release", end)
           /\ viewer[v].err # "EOF" /\ ~job.iscompleted => end = "error"
    BY <1>13 DEF ReportEnd
  <2>2. /\ OnlySession(v) /\ viewer[v].pc = "read" /\ viewer[v].err # "none"
        /\ viewer'[v].pc = "release" /\ viewer'[v].end = end
        /\ viewer'[v].err = viewer[v].err
    BY <1>1, <1>13, <2>1, Moved DEF ReportEnd, Ends
  <2>3. EndsKept
    BY <1>1, <1>13 DEF ReportEnd, EndsKept
  <2>4. NotEnded => EndsInTime(v)'
    <3>1. NotEnded => ~job.iscompleted
      BY DEF StreamInv, ExecutorInv
    <3>2. QED  BY <1>2, <2>1, <2>2, <3>1 DEF EndsInTime
  <2>5. QED  BY <1>2, <1>3, <1>13, <2>2, <2>3, <2>4, SessionStep DEF ReportEnd
<1>14. CASE WriteMessage(v)
  <2>1. PICK n \in 1 .. Len(viewer[v].buf) :
           viewer' = [viewer EXCEPT
                         ![v].sent = @ \o SubSeq(viewer[v].buf, 1, n),
                         ![v].buf = SubSeq(@, n + 1, Len(viewer[v].buf))]
    BY <1>14 DEF WriteMessage
  <2>2. PICK line \in Seq(Byte), rest \in Seq(Byte) :
           /\ line = SubSeq(viewer[v].buf, 1, n)
           /\ rest = SubSeq(viewer[v].buf, n + 1, Len(viewer[v].buf))
    <3>1. viewer[v].buf \in Seq(Byte) /\ n \in 0 .. Len(viewer[v].buf)
      BY <1>1 DEF Viewer
    <3>2. QED  BY <3>1, CutAt
  <2>3. viewer[v].sent \o line \in Seq(Byte)
    BY <1>1, <2>2, ConcatProperties DEF Viewer
  <2>4. /\ OnlySession(v) /\ viewer[v].pc = "read" /\ viewer'[v].pc = "read"
        /\ viewer'[v].end = viewer[v].end /\ viewer'[v].err = viewer[v].err
    <3>1. viewer' = [viewer EXCEPT ![v] =
                       [viewer[v] EXCEPT !.sent = viewer[v].sent \o line,
                                         !.buf = rest]]
      BY <1>1, <2>1, <2>2
    <3>2. [viewer[v] EXCEPT !.sent = viewer[v].sent \o line, !.buf = rest]
             \in Viewer
      BY <1>1, <2>2, <2>3 DEF Viewer
    <3>3. QED  BY <1>1, <1>14, <3>1, <3>2 DEF WriteMessage, OnlySession, Viewer
  <2>5. QED  BY <1>2, <1>3, <1>14, <2>4, SessionMoves DEF WriteMessage
<1>15. CASE WriteMessageFails(v)
  <2>1. /\ OnlySession(v) /\ viewer[v].pc = "read"
        /\ viewer'[v].pc = "release" /\ viewer'[v].end = "disconnected"
        /\ viewer'[v].err = viewer[v].err
    BY <1>1, <1>15, Moved DEF WriteMessageFails, Ends
  <2>2. QED  BY <1>2, <1>3, <1>15, <2>1, SessionMoves DEF WriteMessageFails
<1>16. CASE Release(v)
  <2>1. /\ OnlySession(v) /\ viewer[v].pc = "release"
        /\ viewer'[v].pc = "gone" /\ viewer'[v].end = viewer[v].end
        /\ viewer'[v].err = viewer[v].err
    BY <1>1, <1>16, Moved DEF Release
  <2>2. JobKept /\ ~job'.isstreaming
    BY <1>1, <1>16 DEF Release, JobKept, Job
  <2>3. QED  BY <1>2, <1>16, <2>1, <2>2, SessionMoves DEF Release
<1>17. QED
  BY <1>4, <1>5, <1>6, <1>7, <1>8, <1>9, <1>10, <1>11, <1>12, <1>13, <1>14,
     <1>15, <1>16 DEF ViewerNext

\* Every other step.
LEMMA InvStep == StreamInv /\ [Next]_vars => StreamInv'
<1> SUFFICES ASSUME StreamInv, [Next]_vars  PROVE StreamInv'
  OBVIOUS
<1>1. CASE \/ ScheduleLongJobsWithStreaming \/ ScheduleLongJobsWithDumping
           \/ ApiScheduleJobs
  <2>1. \E output \in Output : Register(output)
    BY <1>1 DEF ScheduleLongJobsWithStreaming, ScheduleLongJobsWithDumping,
                ApiScheduleJobs, StreamingOutput, DumpingOutput, ApiOutput,
                Output
  <2>2. QED  BY <2>1, InvRegister
<1>2. CASE Enqueue \/ StopJob \/ UNCHANGED vars
  <2>1. FlagHasStreamer'
    BY <1>2, StreamingKept DEF StreamInv, Enqueue, StopJob, vars
  <2>2. TypeOK'
    BY <1>2 DEF StreamInv, TypeOK, Enqueue, StopJob, vars
  <2>3. ExecutorInv' /\ SessionInv'
    BY <1>2 DEF StreamInv, TypeOK, Enqueue, StopJob, vars, ExecutorInv,
                SessionInv, NotMade, NotEnded, EndsInTime
  <2>4. QED  BY <2>1, <2>2, <2>3 DEF StreamInv
<1>3. QED
  BY <1>1, <1>2, InvExecutor, InvProcess, InvViewer DEF Next

\* StreamInvariant: the invariant holds throughout.
THEOREM StreamInvariant == Spec => []StreamInv
  BY InvInit, InvStep, PTL DEF Spec

-----------------------------------------------------------------------------
(* The properties *)

\* TypeCorrect: the pipe never holds more than it can, and no session gets a
\* byte that was not written.
THEOREM TypeCorrect == Spec => []TypeOK
<1>1. StreamInv => TypeOK
  BY DEF StreamInv
<1>2. QED  BY <1>1, StreamInvariant, PTL

\* ClaimIsReleased: whatever ends a session, and however many of them overlap,
\* Job.isstreaming is not left set when nobody streams.
THEOREM ClaimIsReleased == Spec => []FlagHasStreamer
<1>1. StreamInv => FlagHasStreamer
  BY DEF StreamInv
<1>2. QED  BY <1>1, StreamInvariant, PTL

\* NoSessionEndsEarly: no session is told of the end of the output, or of an
\* error of it, while the process runs and nobody has stopped it.
THEOREM NoSessionEndsEarly == Spec => []NoFalseEnd
<1>1. StreamInv => NoFalseEnd
  BY DEF StreamInv, SessionInv, EndsInTime, NotEnded, NoFalseEnd
<1>2. QED  BY <1>1, StreamInvariant, PTL

-----------------------------------------------------------------------------
(* The bytes.  Between them the steps do four things to bytes: the process   *)
(* writes one, a session takes some out of the pipe, writes to the file what *)
(* it took, or sends a line.  Every other step leaves them alone.            *)

\* The bytes of a sequence that is extended, split or empty.
LEMMA BytesOfConcat ==
    ASSUME NEW s \in Seq(Int), NEW t \in Seq(Int)
    PROVE  Bytes(s \o t) = Bytes(s) \cup Bytes(t)
<1>1. /\ Len(s) \in Nat /\ Len(t) \in Nat /\ Len(s \o t) = Len(s) + Len(t)
      /\ \A i \in 1 .. Len(s) + Len(t) :
            (s \o t)[i] = IF i <= Len(s) THEN s[i] ELSE t[i - Len(s)]
  BY ConcatProperties, LenProperties
<1>2. ASSUME NEW n \in Bytes(s \o t)  PROVE n \in Bytes(s) \cup Bytes(t)
  <2>1. PICK i \in 1 .. Len(s) + Len(t) : n = (s \o t)[i]
    BY <1>1, <1>2 DEF Bytes
  <2>2. CASE i <= Len(s)
    BY <1>1, <2>1, <2>2 DEF Bytes
  <2>3. CASE ~(i <= Len(s))
    <3>1. i - Len(s) \in 1 .. Len(t) /\ n = t[i - Len(s)]
      BY <1>1, <2>1, <2>3
    <3>2. QED  BY <3>1 DEF Bytes
  <2>4. QED  BY <2>2, <2>3
<1>3. ASSUME NEW n \in Bytes(s)  PROVE n \in Bytes(s \o t)
  <2>1. PICK i \in 1 .. Len(s) : n = s[i]
    BY <1>3 DEF Bytes
  <2>2. i \in 1 .. Len(s \o t) /\ n = (s \o t)[i]
    BY <1>1, <2>1
  <2>3. QED  BY <2>2 DEF Bytes
<1>4. ASSUME NEW n \in Bytes(t)  PROVE n \in Bytes(s \o t)
  <2>1. PICK i \in 1 .. Len(t) : n = t[i]
    BY <1>4 DEF Bytes
  <2>2. /\ Len(s) + i \in 1 .. Len(s \o t) /\ ~(Len(s) + i <= Len(s))
        /\ (Len(s) + i) - Len(s) = i
    BY <1>1, <2>1
  <2>3. n = (s \o t)[Len(s) + i]
    BY <1>1, <2>1, <2>2
  <2>4. QED  BY <2>2, <2>3 DEF Bytes
<1>5. QED  BY <1>2, <1>3, <1>4

\* A sequence is increasing when its two parts are, one behind the other.
LEMMA ConcatIncreases ==
    ASSUME NEW s \in Seq(Int), NEW t \in Seq(Int)
    PROVE  Increasing(s \o t) <=> /\ Increasing(s) /\ Increasing(t)
                                  /\ \A m \in Bytes(s), n \in Bytes(t) : m < n
<1>1. /\ Len(s) \in Nat /\ Len(t) \in Nat /\ Len(s \o t) = Len(s) + Len(t)
      /\ \A i \in 1 .. Len(s) + Len(t) :
            (s \o t)[i] = IF i <= Len(s) THEN s[i] ELSE t[i - Len(s)]
  BY ConcatProperties, LenProperties
<1>2. \A i \in 1 .. Len(s) : i \in 1 .. Len(s \o t) /\ (s \o t)[i] = s[i]
  BY <1>1
<1>3. ASSUME NEW i \in 1 .. Len(t)
      PROVE  /\ Len(s) + i \in 1 .. Len(s \o t) /\ Len(s) < Len(s) + i
             /\ (s \o t)[Len(s) + i] = t[i]
  <2>1. Len(s) + i \in 1 .. Len(s \o t) /\ (Len(s) + i) - Len(s) = i
        /\ ~(Len(s) + i <= Len(s))
    BY <1>1
  <2>2. QED  BY <1>1, <2>1
<1>4. ASSUME Increasing(s \o t)
      PROVE  /\ Increasing(s) /\ Increasing(t)
             /\ \A m \in Bytes(s), n \in Bytes(t) : m < n
  <2>1. Increasing(s)
    BY <1>2, <1>4 DEF Increasing
  <2>2. ASSUME NEW i \in 1 .. Len(t), NEW k \in 1 .. Len(t), i < k
        PROVE  t[i] < t[k]
    <3>1. Len(s) + i < Len(s) + k
      BY <1>1, <2>2
    <3>2. QED  BY <1>3, <1>4, <3>1 DEF Increasing
  <2>3. ASSUME NEW i \in 1 .. Len(s), NEW k \in 1 .. Len(t)
        PROVE  s[i] < t[k]
    <3>1. i < Len(s) + k
      BY <1>1
    <3>2. QED  BY <1>2, <1>3, <1>4, <3>1 DEF Increasing
  <2>4. QED  BY <2>1, <2>2, <2>3 DEF Increasing, Bytes
<1>5. ASSUME Increasing(s), Increasing(t),
             \A m \in Bytes(s), n \in Bytes(t) : m < n
      PROVE  Increasing(s \o t)
  <2>1. ASSUME NEW i \in 1 .. Len(s) + Len(t), NEW k \in 1 .. Len(s) + Len(t),
               i < k
        PROVE  (s \o t)[i] < (s \o t)[k]
    <3>1. CASE k <= Len(s)
      <4>1. i \in 1 .. Len(s) /\ k \in 1 .. Len(s)
        BY <1>1, <2>1, <3>1
      <4>2. QED  BY <1>2, <1>5, <2>1, <4>1 DEF Increasing
    <3>2. CASE ~(k <= Len(s)) /\ i <= Len(s)
      <4>1. i \in 1 .. Len(s) /\ k - Len(s) \in 1 .. Len(t)
        BY <1>1, <2>1, <3>2
      <4>2. /\ (s \o t)[i] = s[i] /\ (s \o t)[k] = t[k - Len(s)]
            /\ s[i] \in Bytes(s) /\ t[k - Len(s)] \in Bytes(t)
        BY <1>1, <3>2, <4>1 DEF Bytes
      <4>3. QED  BY <1>5, <4>2
    <3>3. CASE ~(k <= Len(s)) /\ ~(i <= Len(s))
      <4>1. /\ i - Len(s) \in 1 .. Len(t) /\ k - Len(s) \in 1 .. Len(t)
            /\ i - Len(s) < k - Len(s)
        BY <1>1, <2>1, <3>3
      <4>2. (s \o t)[i] = t[i - Len(s)] /\ (s \o t)[k] = t[k - Len(s)]
        BY <1>1, <3>3
      <4>3. QED  BY <1>5, <4>1, <4>2 DEF Increasing
    <3>4. QED  BY <3>1, <3>2, <3>3
  <2>2. QED  BY <1>1, <2>1 DEF Increasing
<1>6. QED  BY <1>4, <1>5

\* The first k of a run of consecutive numbers, and the rest.
LEMMA BytesOfPrefix ==
    ASSUME NEW s \in Seq(Int), NEW n \in Nat, NEW k \in 1 .. Len(s),
           \A i \in 1 .. Len(s) : s[i] = n + i
    PROVE  /\ Bytes(SubSeq(s, 1, k)) = n + 1 .. n + k
           /\ Increasing(SubSeq(s, 1, k))
           /\ Len(SubSeq(s, k + 1, Len(s))) = Len(s) - k
           /\ \A i \in 1 .. Len(SubSeq(s, k + 1, Len(s))) :
                 SubSeq(s, k + 1, Len(s))[i] = n + k + i
<1> DEFINE first == SubSeq(s, 1, k)
           rest == SubSeq(s, k + 1, Len(s))
<1>1. /\ Len(s) \in Nat /\ k \in Nat
      /\ \A i \in 1 .. Len(s) : s[i] \in Int
  BY LenProperties, ElementOfSeq
<1>2. /\ Len(first) = k
      /\ \A i \in 1 .. k : first[i] = n + i
  <2>1. \A i \in 1 .. k : i \in 1 .. Len(s) /\ 1 + i - 1 = i
    BY <1>1
  <2>2. Len(first) = k /\ \A i \in 1 .. k : first[i] = s[1 + i - 1]
    BY <1>1, <2>1, SubSeqProperties
  <2>3. QED  BY <2>1, <2>2
<1>3. Bytes(first) = n + 1 .. n + k
  <2>1. ASSUME NEW m \in n + 1 .. n + k  PROVE m \in Bytes(first)
    <3>1. m - n \in 1 .. k /\ m = n + (m - n)
      BY <1>1
    <3>2. first[m - n] = m /\ m - n \in 1 .. Len(first)
      BY <1>2, <3>1
    <3>3. QED  BY <3>2 DEF Bytes
  <2>2. ASSUME NEW m \in Bytes(first)  PROVE m \in n + 1 .. n + k
    <3>1. PICK i \in 1 .. k : m = first[i]
      BY <1>2, <2>2 DEF Bytes
    <3>2. m = n + i
      BY <1>2, <3>1
    <3>3. QED  BY <1>1, <3>1, <3>2
  <2>3. QED  BY <2>1, <2>2
<1>4. Increasing(first)
  <2>1. ASSUME NEW i \in 1 .. k, NEW j \in 1 .. k, i < j
        PROVE  first[i] < first[j]
    <3>1. n + i < n + j
      BY <2>1, <1>1
    <3>2. QED  BY <1>2, <3>1
  <2>2. QED  BY <1>2, <2>1 DEF Increasing
<1>5. /\ Len(rest) = Len(s) - k
      /\ \A i \in 1 .. Len(s) - k : rest[i] = s[k + 1 + i - 1]
  <2>1. \A i \in k + 1 .. Len(s) : s[i] \in Int
    BY <1>1
  <2>2. Len(rest) = IF k + 1 <= Len(s) THEN Len(s) - (k + 1) + 1 ELSE 0
    BY <1>1, <2>1, SubSeqProperties
  <2>3. Len(rest) = Len(s) - k
    BY <1>1, <2>2
  <2>4. \A i \in 1 .. Len(s) - (k + 1) + 1 : rest[i] = s[k + 1 + i - 1]
    BY <1>1, <2>1, SubSeqProperties
  <2>5. QED  BY <1>1, <2>3, <2>4
<1>6. ASSUME NEW i \in 1 .. Len(rest)  PROVE rest[i] = n + k + i
  <2>1. /\ i \in 1 .. Len(s) - k /\ k + 1 + i - 1 \in 1 .. Len(s)
        /\ n + (k + 1 + i - 1) = n + k + i
    BY <1>1, <1>5, <1>6
  <2>2. QED  BY <1>5, <2>1
<1>7. QED  BY <1>3, <1>4, <1>5, <1>6

\* What the types say of the bytes of session v, as numbers.
LEMMA BytesAreNumbers ==
    ASSUME TypeOK
    PROVE  /\ Byte \subseteq Int /\ Seq(Byte) \subseteq Seq(Int)
           /\ pipe.bytes \in Seq(Int) /\ file.bytes \in Seq(Int)
           /\ written \in Nat /\ Len(pipe.bytes) \in Nat /\ Taken \in Int
           /\ \A v \in Viewers : /\ viewer[v].sent \in Seq(Int)
                                 /\ viewer[v].buf \in Seq(Int)
                                 /\ viewer[v].chunk \in Seq(Int)
                                 /\ viewer[v].lost \in Seq(Int)
                                 /\ Kept(v) \in Seq(Int)
<1>1. Byte \subseteq Int
  BY StreamingAssumption DEF Byte
<1>2. Seq(Byte) \subseteq Seq(Int)
  BY <1>1, SeqMonotonic
<1>3. /\ pipe.bytes \in Seq(Byte) /\ file.bytes \in Seq(Byte)
      /\ \A v \in Viewers : /\ viewer[v].sent \in Seq(Byte)
                            /\ viewer[v].buf \in Seq(Byte)
                            /\ viewer[v].chunk \in Seq(Byte)
                            /\ viewer[v].lost \in Seq(Byte)
  BY DEF TypeOK, Viewer
<1>4. Len(pipe.bytes) \in Nat /\ written \in Nat
  BY <1>3, LenProperties, StreamingAssumption DEF TypeOK
<1>5. \A v \in Viewers : Kept(v) \in Seq(Int)
  BY <1>2, <1>3, ConcatProperties DEF Kept
<1>6. QED  BY <1>1, <1>2, <1>3, <1>4, <1>5 DEF Taken

\* Nothing is written, taken or passed on: the job keeps where its output goes,
\* and a dead process stays dead.
BytesKept ==
    /\ written' = written /\ pipe'.bytes = pipe.bytes
    /\ file'.bytes = file.bytes
    /\ process' = "none" => process = "none"
    /\ process = "dead" => process' = "dead"
    /\ job'.stream = job.stream /\ job'.dump = job.dump
    /\ job'.outpipe \/ job'.outstream => job.stream

SessionBytesKept(v) ==
    /\ viewer'[v].sent = viewer[v].sent /\ viewer'[v].buf = viewer[v].buf
    /\ viewer'[v].chunk = viewer[v].chunk /\ viewer'[v].lost = viewer[v].lost
    /\ viewer'[v].err = viewer[v].err \/ viewer[v].err = "none"
    /\ viewer'[v].pc = "tee" <=> viewer[v].pc = "tee"
    /\ viewer[v].pc = "tee" => viewer'[v].err = viewer[v].err

\* A step that moves no byte keeps BytesInv, if nobody is told of the end before
\* the process is dead and the pipe empty.
LEMMA NoByteMoves ==
    ASSUME BytesInv, BytesKept,
           \A v \in Viewers : SessionBytesKept(v) /\ KnowsTheEnd(v)'
    PROVE  BytesInv'
<1> USE DEF BytesInv, BytesKept, SessionBytesKept
<1>1. Taken' = Taken
  BY DEF Taken
<1>2. \A v \in Viewers : Kept(v)' = Kept(v)
  BY DEF Kept
<1>3. \A v \in Viewers : Received(v)' = Received(v)
  BY <1>2 DEF Received
<1>4. PipeInv'
  BY <1>1 DEF PipeInv
<1>5. NoByteTwice' /\ NoByteLost'
  BY <1>1, <1>3 DEF NoByteTwice, NoByteLost
<1>6. ASSUME NEW v \in Viewers  PROVE InOrder(v)' /\ Dumped(v)'
  <2>1. InOrder(v)'
    BY <1>1, <1>2, <1>3 DEF InOrder
  <2>2. Dumped(v)'
    BY DEF Dumped
  <2>3. QED  BY <2>1, <2>2
<1>7. QED  BY <1>4, <1>5, <1>6

\* The initial states: there are no bytes.
LEMMA BytesInit == Init => BytesInv
<1> SUFFICES ASSUME Init  PROVE BytesInv
  OBVIOUS
<1>1. /\ written = 0 /\ pipe.bytes = <<>> /\ Len(pipe.bytes) = 0
      /\ ~job.stream /\ ~job.outpipe /\ ~job.outstream
  BY EmptySeq DEF Init
<1>2. \A v \in Viewers : /\ viewer[v].pc = "idle" /\ viewer[v].err = "none"
                         /\ viewer[v].end = "none" /\ viewer[v].sent = <<>>
                         /\ viewer[v].buf = <<>> /\ viewer[v].chunk = <<>>
                         /\ viewer[v].lost = <<>>
  BY DEF Init
<1>3. Bytes(<<>>) = {} /\ Increasing(<<>>) /\ <<>> \o <<>> = <<>>
  BY EmptySeq, ConcatEmptySeq DEF Bytes, Increasing
<1>4. \A v \in Viewers : Kept(v) = <<>> /\ Received(v) = {}
  <2>1. \A v \in Viewers : Kept(v) = <<>>
    BY <1>2, <1>3 DEF Kept
  <2>2. QED  BY <1>2, <1>3, <2>1 DEF Received
<1>5. PipeInv /\ NoByteTwice /\ NoByteLost
  BY <1>1, <1>4 DEF PipeInv, Taken, NoByteTwice, NoByteLost
<1>6. \A v \in Viewers : InOrder(v) /\ KnowsTheEnd(v) /\ Dumped(v)
  BY <1>1, <1>2, <1>3, <1>4 DEF InOrder, KnowsTheEnd, Dumped, Taken
<1>7. QED  BY <1>5, <1>6 DEF BytesInv

\* What a session keeps is what it sent, what it buffers and its chunk.
LEMMA BytesOfSession ==
    ASSUME NEW v \in Viewers, TypeOK
    PROVE  /\ Bytes(Kept(v)) = Bytes(viewer[v].sent) \cup Bytes(viewer[v].buf)
                                  \cup Bytes(viewer[v].chunk)
           /\ Bytes(Kept(v)) \subseteq Received(v)
<1>1. /\ viewer[v].sent \in Seq(Int) /\ viewer[v].buf \in Seq(Int)
      /\ viewer[v].chunk \in Seq(Int)
  BY BytesAreNumbers
<1>2. viewer[v].sent \o viewer[v].buf \in Seq(Int)
  BY <1>1, ConcatProperties
<1>3. Bytes(viewer[v].sent \o viewer[v].buf)
         = Bytes(viewer[v].sent) \cup Bytes(viewer[v].buf)
  BY <1>1, BytesOfConcat
<1>4. Bytes(Kept(v)) = Bytes(viewer[v].sent \o viewer[v].buf)
                          \cup Bytes(viewer[v].chunk)
  BY <1>1, <1>2, BytesOfConcat DEF Kept
<1>5. QED  BY <1>3, <1>4 DEF Received

\* The job is scheduled before there are bytes, so its output may go anywhere.
LEMMA BytesRegister ==
    ASSUME NEW output \in Output, StreamInv, BytesInv, Register(output)
    PROVE  BytesInv'
<1> USE DEF BytesInv, Register, engine
<1>1. /\ executor = "none" /\ process = "none" /\ ~job.listed
      /\ job \in Job /\ job'.outpipe = job.outpipe
      /\ job'.outstream = job.outstream
  BY DEF StreamInv, ExecutorInv, TypeOK, Job
<1>2. ~job'.outpipe /\ ~job'.outstream
  BY <1>1 DEF StreamInv, ExecutorInv, NotMade
<1>3. written = 0 /\ Len(pipe.bytes) = 0 /\ pipe.bytes = <<>> /\ Taken = 0
  <2>1. written = 0 /\ Taken >= 0
    BY <1>1 DEF PipeInv
  <2>2. Len(pipe.bytes) \in Nat /\ pipe.bytes \in Seq(Int)
    BY BytesAreNumbers DEF StreamInv
  <2>3. Len(pipe.bytes) = 0
    BY <2>1, <2>2 DEF Taken
  <2>4. QED  BY <2>1, <2>2, <2>3, EmptySeq DEF Taken
<1>4. \A v \in Viewers :
         /\ viewer[v].pc \notin {"read", "tee"} /\ viewer[v].err = "none"
         /\ Received(v) = {} /\ Bytes(viewer[v].sent) = {}
         /\ Bytes(viewer[v].buf) = {}
  <2>1. ASSUME NEW v \in Viewers
        PROVE  /\ viewer[v].pc \notin {"read", "tee"} /\ viewer[v].err = "none"
    <3>1. viewer[v].pc \notin {"read", "tee"}
      BY <1>1 DEF StreamInv, SessionInv
    <3>2. viewer[v].err \in {"none", "disk"}
      BY <1>1 DEF StreamInv, SessionInv, NotEnded, EndsInTime
    <3>3. QED  BY <1>1, <3>1, <3>2 DEF StreamInv, SessionInv
  <2>2. \A v \in Viewers : Received(v) = {}
    BY <1>3 DEF InOrder
  <2>3. ASSUME NEW v \in Viewers
        PROVE  Bytes(viewer[v].sent) = {} /\ Bytes(viewer[v].buf) = {}
    BY <2>2, BytesOfSession DEF StreamInv
  <2>4. QED  BY <2>1, <2>2, <2>3
<1>5. UNCHANGED <<written, process, pipe, file, viewer>> /\ Taken' = Taken
  BY DEF Taken
<1>6. PipeInv'
  BY <1>2, <1>3, <1>5 DEF PipeInv
<1>7. \A v \in Viewers : Kept(v)' = Kept(v) /\ Received(v)' = Received(v)
  <2>1. \A v \in Viewers : Kept(v)' = Kept(v)
    BY <1>5 DEF Kept
  <2>2. QED  BY <1>5, <2>1 DEF Received
<1>8. NoByteTwice' /\ NoByteLost'
  BY <1>3, <1>4, <1>5, <1>7 DEF NoByteTwice, NoByteLost
<1>9. ASSUME NEW v \in Viewers
      PROVE  InOrder(v)' /\ KnowsTheEnd(v)' /\ Dumped(v)'
  <2>1. InOrder(v)'
    BY <1>5, <1>7 DEF InOrder
  <2>2. KnowsTheEnd(v)'
    BY <1>4, <1>5 DEF KnowsTheEnd
  <2>3. Dumped(v)'
    BY <1>4, <1>5 DEF Dumped
  <2>4. QED  BY <2>1, <2>2, <2>3
<1>10. QED  BY <1>6, <1>8, <1>9

\* A byte that is written is the last one in the pipe, if there is a pipe.
LEMMA BytesWrite ==
    ASSUME StreamInv, BytesInv, WriteByte
    PROVE  BytesInv'
<1> USE DEF BytesInv, WriteByte
<1>1. /\ written \in Nat /\ written' = written + 1
      /\ Len(pipe.bytes) \in Nat /\ pipe.bytes \in Seq(Int)
      /\ file.bytes \in Seq(Int) /\ Taken = written - Len(pipe.bytes)
      /\ pipe \in [end : EndState, bytes : Seq(Byte)]
      /\ file \in [end : EndState, bytes : Seq(Byte)]
  BY BytesAreNumbers DEF StreamInv, TypeOK, Taken
<1>2. process \notin {"none", "dead"} /\ UNCHANGED <<job, process, viewer>>
  BY DEF Alive
<1>3. \A v \in Viewers : Kept(v)' = Kept(v) /\ Received(v)' = Received(v)
  <2>1. \A v \in Viewers : Kept(v)' = Kept(v)
    BY <1>2 DEF Kept
  <2>2. QED  BY <1>2, <2>1 DEF Received
<1>4. /\ PipeInv' /\ Taken' >= Taken /\ Taken' \in Int
      /\ job.stream => Taken' = Taken /\ file' = file
  <2>1. CASE Piped
    <3>1. /\ pipe'.bytes = Append(pipe.bytes, written + 1) /\ file' = file
          /\ job.stream
      BY <1>1, <2>1 DEF Piped
    <3>2. /\ Len(pipe'.bytes) = Len(pipe.bytes) + 1
          /\ \A i \in 1 .. Len(pipe.bytes) : pipe'.bytes[i] = pipe.bytes[i]
          /\ pipe'.bytes[Len(pipe.bytes) + 1] = written + 1
      BY <1>1, <3>1, AppendProperties
    <3>3. Taken' = Taken
      BY <1>1, <3>2 DEF Taken
    <3>4. ASSUME NEW i \in 1 .. Len(pipe'.bytes)
          PROVE  pipe'.bytes[i] = Taken' + i
      <4>1. CASE i = Len(pipe.bytes) + 1
        BY <1>1, <3>2, <3>3, <4>1
      <4>2. CASE i # Len(pipe.bytes) + 1
        <5>1. i \in 1 .. Len(pipe.bytes)
          BY <1>1, <3>2, <3>4, <4>2
        <5>2. QED  BY <3>2, <3>3, <5>1 DEF PipeInv
      <4>3. QED  BY <4>1, <4>2
    <3>5. QED  BY <1>1, <1>2, <3>1, <3>3, <3>4 DEF PipeInv
  <2>2. CASE ~Piped
    <3>1. pipe' = pipe /\ ~job.stream /\ pipe.bytes = <<>>
      BY <2>2 DEF Piped, PipeInv
    <3>2. Len(pipe.bytes) = 0 /\ Len(pipe'.bytes) = 0
      BY <3>1, EmptySeq
    <3>3. Taken' = Taken + 1
      BY <1>1, <3>1, <3>2 DEF Taken
    <3>4. QED  BY <1>1, <1>2, <3>1, <3>2, <3>3 DEF PipeInv
  <2>3. QED  BY <2>1, <2>2
<1>5. NoByteTwice' /\ NoByteLost'
  BY <1>2, <1>3, <1>4 DEF NoByteTwice, NoByteLost
<1>6. ASSUME NEW v \in Viewers
      PROVE  InOrder(v)' /\ KnowsTheEnd(v)' /\ Dumped(v)'
  <2>1. InOrder(v)'
    <3>1. Received(v)' \subseteq 1 .. Taken'
      BY <1>1, <1>3, <1>4 DEF InOrder
    <3>2. QED  BY <1>2, <1>3, <3>1 DEF InOrder
  <2>2. KnowsTheEnd(v)'
    BY <1>2 DEF KnowsTheEnd
  <2>3. Dumped(v)'
    BY <1>2, <1>4 DEF Dumped
  <2>4. QED  BY <2>1, <2>2, <2>3
<1>7. QED  BY <1>4, <1>5, <1>6

\* What session v has received is what it had received: it has passed on or
\* lost some of it, and nobody else has moved.
LEMMA SessionPasses ==
    ASSUME NEW v \in Viewers, BytesInv, UNCHANGED <<job, process, written, pipe>>,
           OnlySession(v), Received(v)' = Received(v), InOrder(v)',
           KnowsTheEnd(v)', Dumped(v)',
           Bytes(file.bytes) \subseteq Bytes(file'.bytes)
    PROVE  BytesInv'
<1> USE DEF BytesInv, OnlySession
<1>1. Taken' = Taken
  BY DEF Taken
<1>2. \A w \in Viewers : Received(w)' = Received(w)
  <2>1. ASSUME NEW w \in Viewers \ {v}
        PROVE  Kept(w)' = Kept(w) /\ Received(w)' = Received(w)
    <3>1. Kept(w)' = Kept(w)
      BY DEF Kept
    <3>2. QED  BY <3>1 DEF Received
  <2>2. QED  BY <2>1
<1>3. PipeInv'
  BY <1>1 DEF PipeInv
<1>4. NoByteTwice' /\ NoByteLost'
  BY <1>1, <1>2 DEF NoByteTwice, NoByteLost
<1>5. ASSUME NEW w \in Viewers, w # v
      PROVE  InOrder(w)' /\ KnowsTheEnd(w)' /\ Dumped(w)'
  <2>1. viewer'[w] = viewer[w] /\ InOrder(w) /\ KnowsTheEnd(w) /\ Dumped(w)
    BY <1>5
  <2>2. InOrder(w)'
    <3>1. Kept(w)' = Kept(w)
      BY <2>1 DEF Kept
    <3>2. QED  BY <1>1, <1>2, <2>1, <3>1 DEF InOrder
  <2>3. KnowsTheEnd(w)'
    BY <2>1 DEF KnowsTheEnd
  <2>4. Dumped(w)'
    BY <2>1 DEF Dumped
  <2>5. QED  BY <2>2, <2>3, <2>4
<1>6. QED  BY <1>3, <1>4, <1>5

\* The bytes that a session takes out of the pipe follow all that were taken.
LEMMA BytesRead ==
    ASSUME NEW v \in Viewers, StreamInv, BytesInv, ReadPipe(v)
    PROVE  BytesInv'
<1> USE DEF BytesInv
<1>1. /\ pipe \in [end : EndState, bytes : Seq(Byte)]
      /\ viewer \in [Viewers -> Viewer] /\ viewer[v] \in Viewer
      /\ pipe.bytes \in Seq(Int) /\ Len(pipe.bytes) \in Nat
      /\ Taken \in Nat /\ Taken = written - Len(pipe.bytes) /\ written \in Nat
      /\ \A i \in 1 .. Len(pipe.bytes) : pipe.bytes[i] = Taken + i
      /\ viewer[v].sent \in Seq(Int) /\ viewer[v].buf \in Seq(Int)
      /\ Kept(v) \in Seq(Int)
  BY BytesAreNumbers DEF StreamInv, TypeOK, PipeInv, Taken
<1>2. PICK k \in 1 .. Len(pipe.bytes) :
         /\ viewer' = IF job.dump
                      THEN [viewer EXCEPT
                               ![v].chunk = SubSeq(pipe.bytes, 1, k),
                               ![v].pc = "tee"]
                      ELSE [viewer EXCEPT
                               ![v].buf = @ \o SubSeq(pipe.bytes, 1, k)]
         /\ pipe' = [pipe EXCEPT !.bytes = SubSeq(@, k + 1, Len(pipe.bytes))]
  BY DEF ReadPipe
<1>3. /\ UNCHANGED <<job, process, written, file>> /\ viewer[v].pc = "read"
      /\ viewer[v].err = "none" /\ viewer[v].chunk = <<>>
  BY DEF ReadPipe, ReadsOn, At, engine, InOrder
<1>4. PICK first \in Seq(Int) : first = SubSeq(pipe.bytes, 1, k)
  <2>1. k \in 0 .. Len(pipe.bytes)
    BY <1>1
  <2>2. QED  BY <1>1, <2>1, CutAt
<1>5. /\ \A w \in Viewers \ {v} : viewer'[w] = viewer[w]
      /\ viewer'[v].sent = viewer[v].sent /\ viewer'[v].lost = viewer[v].lost
      /\ viewer'[v].err = viewer[v].err /\ viewer'[v].end = viewer[v].end
      /\ viewer'[v].pc = IF job.dump THEN "tee" ELSE "read"
      /\ viewer'[v].chunk = IF job.dump THEN first ELSE <<>>
      /\ viewer'[v].buf = IF job.dump THEN viewer[v].buf
                                      ELSE viewer[v].buf \o first
  <2>1. CASE job.dump
    BY <1>1, <1>2, <1>4, <2>1 DEF Viewer
  <2>2. CASE ~job.dump
    <3>1. viewer' = [viewer EXCEPT ![v].buf = viewer[v].buf \o first]
      BY <1>1, <1>2, <1>4, <2>2 DEF Viewer
    <3>2. QED  BY <1>1, <1>3, <2>2, <3>1 DEF Viewer
  <2>3. QED  BY <2>1, <2>2
<1>6. /\ Bytes(first) = Taken + 1 .. Taken + k /\ Increasing(first)
      /\ Len(pipe'.bytes) = Len(pipe.bytes) - k
      /\ \A i \in 1 .. Len(pipe'.bytes) : pipe'.bytes[i] = Taken + k + i
  <2>1. PICK s \in Seq(Int), n \in Nat : s = pipe.bytes /\ n = Taken
    BY <1>1
  <2>2. \A i \in 1 .. Len(s) : s[i] = n + i
    BY <1>1, <2>1
  <2>3. k \in 1 .. Len(s)
    BY <2>1
  <2>4. /\ Bytes(SubSeq(s, 1, k)) = n + 1 .. n + k
        /\ Increasing(SubSeq(s, 1, k))
        /\ Len(SubSeq(s, k + 1, Len(s))) = Len(s) - k
        /\ \A i \in 1 .. Len(SubSeq(s, k + 1, Len(s))) :
              SubSeq(s, k + 1, Len(s))[i] = n + k + i
    BY ONLY s \in Seq(Int), n \in Nat, <2>2, <2>3, BytesOfPrefix
  <2>5. pipe'.bytes = SubSeq(s, k + 1, Len(s))
    BY <1>1, <1>2, <2>1
  <2>6. QED  BY <1>4, <2>1, <2>4, <2>5
<1>7. Taken' = Taken + k /\ k \in Nat \ {0}
  BY <1>1, <1>3, <1>6 DEF Taken
<1>8. job.stream
  BY <1>3 DEF KnowsTheEnd
<1>9. PipeInv'
  BY <1>1, <1>3, <1>6, <1>7, <1>8 DEF PipeInv
<1>10. Kept(v)' = Kept(v) \o first
  <2>1. Kept(v) = viewer[v].sent \o viewer[v].buf
    <3>1. viewer[v].sent \o viewer[v].buf \in Seq(Int)
      BY <1>1, ConcatProperties
    <3>2. QED  BY <1>3, <3>1, ConcatEmptySeq DEF Kept
  <2>2. CASE job.dump
    BY <1>5, <2>1, <2>2 DEF Kept
  <2>3. CASE ~job.dump
    <3>1. Kept(v)' = (viewer[v].sent \o (viewer[v].buf \o first)) \o <<>>
      BY <1>5, <2>3 DEF Kept
    <3>2. viewer[v].sent \o (viewer[v].buf \o first) = Kept(v) \o first
      <4>1. PICK s \in Seq(Int), b \in Seq(Int) :
               s = viewer[v].sent /\ b = viewer[v].buf
        BY <1>1
      <4>2. (s \o b) \o first = s \o (b \o first)
        BY ONLY s \in Seq(Int), b \in Seq(Int), first \in Seq(Int),
                ConcatAssociative
      <4>3. QED  BY <2>1, <4>1, <4>2
    <3>3. Kept(v) \o first \in Seq(Int)
      BY <1>1, <1>4, ConcatProperties
    <3>4. QED  BY <3>1, <3>2, <3>3, ConcatEmptySeq
  <2>4. QED  BY <2>2, <2>3
<1>11. /\ Received(v)' = Received(v) \cup (Taken + 1 .. Taken + k)
       /\ \A w \in Viewers \ {v} : Kept(w)' = Kept(w)
       /\ \A w \in Viewers \ {v} : Received(w)' = Received(w)
       /\ \A w \in Viewers : Received(w) \subseteq 1 .. Taken
  <2>1. Bytes(Kept(v) \o first) = Bytes(Kept(v)) \cup Bytes(first)
    BY <1>1, <1>4, BytesOfConcat
  <2>2. Received(v)' = Bytes(Kept(v)') \cup Bytes(viewer'[v].lost)
    BY DEF Received
  <2>3. Received(v)' = Received(v) \cup (Taken + 1 .. Taken + k)
    BY <1>5, <1>6, <1>10, <2>1, <2>2 DEF Received
  <2>4. \A w \in Viewers \ {v} : Kept(w)' = Kept(w)
    BY <1>5 DEF Kept
  <2>5. \A w \in Viewers \ {v} : Received(w)' = Received(w)
    BY <1>5, <2>4 DEF Received
  <2>6. QED  BY <2>3, <2>4, <2>5 DEF InOrder
<1>12. NoByteTwice'
  <2>1. (1 .. Taken) \cap (Taken + 1 .. Taken + k) = {}
    BY <1>1
  <2>2. ASSUME NEW w \in Viewers, NEW x \in Viewers, w # x
        PROVE  Received(w)' \cap Received(x)' = {}
    <3>1. Received(w) \cap Received(x) = {}
      BY <2>2 DEF NoByteTwice
    <3>2. QED  BY <1>11, <2>1, <2>2, <3>1
  <2>3. QED  BY <2>2 DEF NoByteTwice
<1>13. NoByteLost'
  <2>1. 1 .. Taken' \subseteq (1 .. Taken) \cup (Taken + 1 .. Taken + k)
    BY <1>1, <1>7
  <2>2. \A w \in Viewers : Received(w) \subseteq Received(w)'
    BY <1>11
  <2>3. QED  BY <1>8, <1>11, <2>1, <2>2 DEF NoByteLost
<1>14. ASSUME NEW w \in Viewers  PROVE InOrder(w)'
  <2>1. Received(w)' \subseteq 1 .. Taken'
    <3>1. (1 .. Taken) \cup (Taken + 1 .. Taken + k) \subseteq 1 .. Taken'
      BY <1>1, <1>7
    <3>2. Received(w)' \subseteq Received(w) \cup (Taken + 1 .. Taken + k)
      BY <1>11
    <3>3. QED  BY <1>11, <3>1, <3>2
  <2>2. CASE w = v
    <3>1. \A m \in Bytes(Kept(v)) : m \in 1 .. Taken
      BY DEF InOrder, Received
    <3>2. \A m \in Bytes(Kept(v)), n \in Bytes(first) : m < n
      BY <1>1, <1>6, <3>1
    <3>3. Increasing(Kept(v) \o first)
      BY <1>1, <1>4, <1>6, <3>2, ConcatIncreases DEF InOrder
    <3>4. Increasing(Kept(v))'
      BY <1>10, <3>3
    <3>5. QED  BY <1>3, <1>5, <2>1, <2>2, <3>4 DEF InOrder
  <2>3. CASE w # v
    BY <1>5, <1>11, <2>1, <2>3 DEF InOrder
  <2>4. QED  BY <2>2, <2>3
<1>15. ASSUME NEW w \in Viewers  PROVE KnowsTheEnd(w)'
  <2>1. viewer[w].err # "EOF" /\ viewer[w].end # "completed"
    <3>1. pipe.bytes # <<>>
      BY <1>1, EmptySeq
    <3>2. QED  BY <3>1 DEF KnowsTheEnd
  <2>2. viewer'[w].err # "EOF" /\ viewer'[w].end # "completed"
    BY <1>5, <2>1
  <2>3. QED  BY <1>3, <1>8, <2>2 DEF KnowsTheEnd
<1>16. ASSUME NEW w \in Viewers  PROVE Dumped(w)'
  BY <1>3, <1>5 DEF Dumped
<1>17. QED  BY <1>9, <1>12, <1>13, <1>14, <1>15, <1>16

\* What a session takes is written to the file before it is passed on.
LEMMA BytesTee ==
    ASSUME NEW v \in Viewers, StreamInv, BytesInv, TeeWrite(v)
    PROVE  BytesInv'
<1> USE DEF BytesInv
<1>1. /\ viewer \in [Viewers -> Viewer] /\ viewer[v] \in Viewer
      /\ file \in [end : EndState, bytes : Seq(Byte)]
      /\ viewer[v].sent \in Seq(Int) /\ viewer[v].buf \in Seq(Int)
      /\ viewer[v].chunk \in Seq(Int) /\ file.bytes \in Seq(Int)
      /\ viewer[v].buf \in Seq(Byte) /\ viewer[v].chunk \in Seq(Byte)
  BY BytesAreNumbers DEF StreamInv, TypeOK, Viewer
<1>2. /\ UNCHANGED <<job, process, written, pipe>> /\ viewer[v].pc = "tee"
      /\ job.stream
  BY DEF TeeWrite, At, engine, KnowsTheEnd
<1>3. InOrder(v) /\ KnowsTheEnd(v) /\ Dumped(v) /\ Taken' = Taken
  BY <1>2 DEF Taken
<1>4. /\ OnlySession(v) /\ viewer'[v].pc = "read"
      /\ viewer'[v].sent = viewer[v].sent /\ viewer'[v].chunk = <<>>
      /\ viewer'[v].buf = viewer[v].buf \o viewer[v].chunk
      /\ viewer'[v].lost = viewer[v].lost /\ viewer'[v].err = viewer[v].err
      /\ viewer'[v].end = viewer[v].end
  <2>1. viewer' = [viewer EXCEPT ![v] =
                     [viewer[v] EXCEPT !.pc = "read", !.chunk = <<>>,
                        !.buf = viewer[v].buf \o viewer[v].chunk]]
    BY <1>1 DEF TeeWrite
  <2>2. viewer[v].buf \o viewer[v].chunk \in Seq(Byte) /\ <<>> \in Seq(Byte)
    BY <1>1, ConcatProperties, EmptySeq
  <2>3. [viewer[v] EXCEPT !.pc = "read", !.chunk = <<>>,
            !.buf = viewer[v].buf \o viewer[v].chunk] \in Viewer
    BY <1>1, <2>2 DEF Viewer
  <2>4. QED  BY <1>1, <2>1, <2>3 DEF OnlySession, Viewer
<1>5. Kept(v)' = Kept(v)
  <2>1. Kept(v)' = (viewer[v].sent \o (viewer[v].buf \o viewer[v].chunk))
                      \o <<>>
    BY <1>4 DEF Kept
  <2>2. viewer[v].sent \o (viewer[v].buf \o viewer[v].chunk) = Kept(v)
    <3>1. PICK s \in Seq(Int), b \in Seq(Int), c \in Seq(Int) :
             s = viewer[v].sent /\ b = viewer[v].buf /\ c = viewer[v].chunk
      BY <1>1
    <3>2. (s \o b) \o c = s \o (b \o c)
      BY ONLY s \in Seq(Int), b \in Seq(Int), c \in Seq(Int), ConcatAssociative
    <3>3. QED  BY <3>1, <3>2 DEF Kept
  <2>3. QED  BY <2>1, <2>2, BytesAreNumbers, ConcatEmptySeq DEF StreamInv
<1>6. Received(v)' = Received(v)
  BY <1>4, <1>5 DEF Received
<1>7. InOrder(v)'
  BY <1>3, <1>4, <1>5, <1>6 DEF InOrder
<1>8. KnowsTheEnd(v)'
  BY <1>2, <1>3, <1>4 DEF KnowsTheEnd
<1>9. Bytes(file'.bytes) = Bytes(file.bytes) \cup Bytes(viewer[v].chunk)
  <2>1. file'.bytes = file.bytes \o viewer[v].chunk
    BY <1>1 DEF TeeWrite
  <2>2. QED  BY <1>1, <2>1, BytesOfConcat
<1>10. Dumped(v)'
  <2>1. Bytes(viewer'[v].buf) = Bytes(viewer[v].buf) \cup Bytes(viewer[v].chunk)
    BY <1>1, <1>4, BytesOfConcat
  <2>2. QED  BY <1>2, <1>3, <1>4, <1>9, <2>1 DEF Dumped
<1>11. QED  BY <1>2, <1>4, <1>6, <1>7, <1>8, <1>9, <1>10, SessionPasses

\* When the write fails, what was written is passed on and the rest is lost.
LEMMA BytesTeeFails ==
    ASSUME NEW v \in Viewers, StreamInv, BytesInv, TeeWriteFails(v)
    PROVE  BytesInv'
<1> USE DEF BytesInv
<1>1. /\ viewer \in [Viewers -> Viewer] /\ viewer[v] \in Viewer
      /\ file \in [end : EndState, bytes : Seq(Byte)]
      /\ viewer[v].sent \in Seq(Int) /\ viewer[v].buf \in Seq(Int)
      /\ file.bytes \in Seq(Int) /\ Byte \subseteq Int
      /\ Seq(Byte) \subseteq Seq(Int)
      /\ viewer[v].buf \in Seq(Byte) /\ viewer[v].chunk \in Seq(Byte)
  BY BytesAreNumbers DEF StreamInv, TypeOK, Viewer
<1>2. /\ UNCHANGED <<job, process, written, pipe>> /\ viewer[v].pc = "tee"
      /\ job.stream
  BY DEF TeeWriteFails, At, engine, KnowsTheEnd
<1>3. /\ InOrder(v) /\ KnowsTheEnd(v) /\ Dumped(v) /\ Taken' = Taken
      /\ viewer[v].err = "none" /\ viewer[v].lost = <<>>
  BY <1>2 DEF Taken, InOrder
<1>4. PICK n \in 0 .. Len(viewer[v].chunk) - 1 :
         LET done == SubSeq(viewer[v].chunk, 1, n)
             rest == SubSeq(viewer[v].chunk, n + 1, Len(viewer[v].chunk))
         IN  /\ file.end # "open" => n = 0
             /\ file' = [file EXCEPT !.bytes = @ \o done]
             /\ viewer' = [viewer EXCEPT
                   ![v].pc = "read", ![v].chunk = <<>>, ![v].buf = @ \o done,
                   ![v].lost = rest,
                   ![v].err = IF file.end = "open" THEN "disk" ELSE "closed"]
  BY DEF TeeWriteFails
<1>5. PICK done \in Seq(Byte), rest \in Seq(Byte) :
         /\ done = SubSeq(viewer[v].chunk, 1, n)
         /\ rest = SubSeq(viewer[v].chunk, n + 1, Len(viewer[v].chunk))
         /\ viewer[v].chunk = done \o rest
  <2>1. PICK s \in Seq(Byte) : s = viewer[v].chunk
    BY <1>1
  <2>2. n \in 0 .. Len(s)
    BY <2>1
  <2>3. /\ SubSeq(s, 1, n) \in Seq(Byte)
        /\ SubSeq(s, n + 1, Len(s)) \in Seq(Byte)
        /\ s = SubSeq(s, 1, n) \o SubSeq(s, n + 1, Len(s))
    BY ONLY s \in Seq(Byte), <2>2, CutAt
  <2>4. QED  BY <2>1, <2>3
<1>6. PICK err \in {"disk", "closed"} :
         err = IF file.end = "open" THEN "disk" ELSE "closed"
  OBVIOUS
<1>7. /\ OnlySession(v) /\ viewer'[v].pc = "read"
      /\ viewer'[v].sent = viewer[v].sent /\ viewer'[v].chunk = <<>>
      /\ viewer'[v].buf = viewer[v].buf \o done /\ viewer'[v].lost = rest
      /\ viewer'[v].err = err /\ viewer'[v].end = viewer[v].end
  <2>1. viewer' = [viewer EXCEPT ![v] =
                     [viewer[v] EXCEPT !.pc = "read", !.chunk = <<>>,
                        !.buf = viewer[v].buf \o done, !.lost = rest,
                        !.err = err]]
    BY <1>1, <1>4, <1>5, <1>6
  <2>2. viewer[v].buf \o done \in Seq(Byte) /\ <<>> \in Seq(Byte)
    BY <1>1, <1>5, ConcatProperties, EmptySeq
  <2>3. [viewer[v] EXCEPT !.pc = "read", !.chunk = <<>>,
            !.buf = viewer[v].buf \o done, !.lost = rest, !.err = err]
           \in Viewer
    BY <1>1, <1>5, <1>6, <2>2 DEF Viewer
  <2>4. QED  BY <1>1, <2>1, <2>3 DEF OnlySession, Viewer
<1>8. done \in Seq(Int) /\ rest \in Seq(Int)
  BY <1>1, <1>5
<1>9. Kept(v) = Kept(v)' \o rest /\ Kept(v)' \in Seq(Int)
  <2>1. PICK s \in Seq(Int), b \in Seq(Int) :
           s = viewer[v].sent /\ b = viewer[v].buf
    BY <1>1
  <2>2. s \o b \in Seq(Int) /\ b \o done \in Seq(Int)
        /\ s \o (b \o done) \in Seq(Int)
    BY <1>8, <2>1, ConcatProperties
  <2>3. Kept(v)' = s \o (b \o done)
    <3>1. Kept(v)' = (s \o (b \o done)) \o <<>>
      BY <1>7, <2>1 DEF Kept
    <3>2. QED  BY <2>2, <3>1, ConcatEmptySeq
  <2>4. Kept(v) = (s \o b) \o (done \o rest)
    BY <1>5, <2>1 DEF Kept
  <2>5. (s \o b) \o (done \o rest) = ((s \o b) \o done) \o rest
    <3>1. PICK a \in Seq(Int) : a = s \o b
      BY <2>2
    <3>2. (a \o done) \o rest = a \o (done \o rest)
      BY <1>8, InAnyOrder, Zenon
    <3>3. QED  BY <3>1, <3>2
  <2>6. (s \o b) \o done = s \o (b \o done)
    BY <1>8, InAnyOrder, Zenon
  <2>7. QED  BY <2>2, <2>3, <2>4, <2>5, <2>6
<1>10. Received(v)' = Received(v)
  <2>1. Bytes(Kept(v)) = Bytes(Kept(v)') \cup Bytes(rest)
    BY <1>8, <1>9, BytesOfConcat
  <2>2. Bytes(<<>>) = {}
    BY EmptySeq DEF Bytes
  <2>3. Received(v)' = Bytes(Kept(v)') \cup Bytes(viewer'[v].lost)
    BY DEF Received
  <2>4. QED  BY <1>3, <1>7, <2>1, <2>2, <2>3 DEF Received
<1>11. InOrder(v)'
  <2>1. Increasing(Kept(v)')
    BY <1>3, <1>8, <1>9, ConcatIncreases DEF InOrder
  <2>2. Increasing(Kept(v))'
    BY <2>1
  <2>3. QED  BY <1>3, <1>6, <1>7, <1>10, <2>2 DEF InOrder
<1>12. KnowsTheEnd(v)'
  BY <1>2, <1>3, <1>6, <1>7 DEF KnowsTheEnd
<1>13. Bytes(file'.bytes) = Bytes(file.bytes) \cup Bytes(done)
  <2>1. file'.bytes = file.bytes \o done
    BY <1>1, <1>4, <1>5
  <2>2. QED  BY <1>1, <1>8, <2>1, BytesOfConcat
<1>14. Dumped(v)'
  <2>1. Bytes(viewer'[v].buf) = Bytes(viewer[v].buf) \cup Bytes(done)
    BY <1>1, <1>7, <1>8, BytesOfConcat
  <2>2. QED  BY <1>2, <1>3, <1>7, <1>13, <2>1 DEF Dumped
<1>15. QED  BY <1>2, <1>7, <1>10, <1>11, <1>12, <1>13, <1>14, SessionPasses

\* A session sends its first line.
LEMMA BytesSent ==
    ASSUME NEW v \in Viewers, StreamInv, BytesInv, WriteMessage(v)
    PROVE  BytesInv'
<1> USE DEF BytesInv
<1>1. /\ viewer \in [Viewers -> Viewer] /\ viewer[v] \in Viewer
      /\ viewer[v].sent \in Seq(Int) /\ viewer[v].chunk \in Seq(Int)
      /\ viewer[v].sent \in Seq(Byte) /\ viewer[v].buf \in Seq(Byte)
      /\ Seq(Byte) \subseteq Seq(Int) /\ viewer[v].pc = "read"
  BY BytesAreNumbers DEF StreamInv, TypeOK, Viewer, WriteMessage, At
<1>2. UNCHANGED <<job, process, written, pipe, file>>
  BY DEF WriteMessage, engine
<1>3. InOrder(v) /\ KnowsTheEnd(v) /\ Dumped(v) /\ Taken' = Taken
  BY <1>2 DEF Taken
<1>4. PICK n \in 1 .. Len(viewer[v].buf) :
         viewer' = [viewer EXCEPT
                       ![v].sent = @ \o SubSeq(viewer[v].buf, 1, n),
                       ![v].buf = SubSeq(@, n + 1, Len(viewer[v].buf))]
  BY DEF WriteMessage
<1>5. PICK line \in Seq(Byte), rest \in Seq(Byte) :
         /\ line = SubSeq(viewer[v].buf, 1, n)
         /\ rest = SubSeq(viewer[v].buf, n + 1, Len(viewer[v].buf))
         /\ viewer[v].buf = line \o rest
  <2>1. PICK s \in Seq(Byte) : s = viewer[v].buf
    BY <1>1
  <2>2. n \in 0 .. Len(s)
    BY <2>1
  <2>3. /\ SubSeq(s, 1, n) \in Seq(Byte)
        /\ SubSeq(s, n + 1, Len(s)) \in Seq(Byte)
        /\ s = SubSeq(s, 1, n) \o SubSeq(s, n + 1, Len(s))
    BY ONLY s \in Seq(Byte), <2>2, CutAt
  <2>4. QED  BY <2>1, <2>3
<1>6. line \in Seq(Int) /\ rest \in Seq(Int)
  BY <1>1, <1>5
<1>7. /\ OnlySession(v) /\ viewer'[v].pc = viewer[v].pc
      /\ viewer'[v].sent = viewer[v].sent \o line /\ viewer'[v].buf = rest
      /\ viewer'[v].chunk = viewer[v].chunk /\ viewer'[v].lost = viewer[v].lost
      /\ viewer'[v].err = viewer[v].err /\ viewer'[v].end = viewer[v].end
  <2>1. viewer' = [viewer EXCEPT ![v] =
                     [viewer[v] EXCEPT !.sent = viewer[v].sent \o line,
                                       !.buf = rest]]
    BY <1>1, <1>4, <1>5
  <2>2. viewer[v].sent \o line \in Seq(Byte)
    BY <1>1, <1>5, ConcatProperties
  <2>3. [viewer[v] EXCEPT !.sent = viewer[v].sent \o line, !.buf = rest]
           \in Viewer
    BY <1>1, <1>5, <2>2 DEF Viewer
  <2>4. QED  BY <1>1, <2>1, <2>3 DEF OnlySession, Viewer
<1>8. Kept(v)' = Kept(v)
  <2>1. (viewer[v].sent \o line) \o rest = viewer[v].sent \o viewer[v].buf
    <3>1. PICK s \in Seq(Int) : s = viewer[v].sent
      BY <1>1
    <3>2. (s \o line) \o rest = s \o (line \o rest)
      BY ONLY s \in Seq(Int), <1>6, ConcatAssociative
    <3>3. QED  BY <1>5, <3>1, <3>2
  <2>2. QED  BY <1>7, <2>1 DEF Kept
<1>9. Received(v)' = Received(v)
  BY <1>7, <1>8 DEF Received
<1>10. InOrder(v)'
  BY <1>3, <1>7, <1>8, <1>9 DEF InOrder
<1>11. KnowsTheEnd(v)'
  BY <1>1, <1>2, <1>3, <1>7 DEF KnowsTheEnd
<1>12. Dumped(v)'
  <2>1. Bytes(viewer'[v].sent) = Bytes(viewer[v].sent) \cup Bytes(line)
    BY <1>1, <1>6, <1>7, BytesOfConcat
  <2>2. Bytes(viewer[v].buf) = Bytes(line) \cup Bytes(viewer'[v].buf)
    <3>1. Bytes(line \o rest) = Bytes(line) \cup Bytes(rest)
      BY ONLY <1>6, BytesOfConcat
    <3>2. QED  BY <1>5, <1>7, <3>1
  <2>3. QED  BY <1>2, <1>3, <2>1, <2>2 DEF Dumped
<1>13. QED  BY <1>2, <1>7, <1>9, <1>10, <1>11, <1>12, SessionPasses

\* A step that leaves the sessions and their bytes alone.
LEMMA BytesBehindSessions ==
    ASSUME BytesInv, BytesKept, viewer' = viewer
    PROVE  BytesInv'
<1>1. \A v \in Viewers : SessionBytesKept(v)
  BY DEF SessionBytesKept
<1>2. \A v \in Viewers : KnowsTheEnd(v)'
  BY DEF KnowsTheEnd, BytesInv, BytesKept
<1>3. QED  BY <1>1, <1>2, NoByteMoves

\* The executor and the goroutine in cmd.Wait move no byte, and the process only
\* when it writes one.
LEMMA BytesExecutor == StreamInv /\ BytesInv /\ ExecutorNext => BytesInv'
<1> SUFFICES ASSUME StreamInv, BytesInv, ExecutorNext  PROVE BytesInv'
  OBVIOUS
<1>1. /\ job \in Job /\ pipe \in [end : EndState, bytes : Seq(Byte)]
      /\ file \in [end : EndState, bytes : Seq(Byte)]
      /\ job.outpipe \/ job.outstream => job.stream
      /\ executor = "start" => process = "none"
  BY DEF StreamInv, TypeOK, ExecutorInv, BytesInv, PipeInv
<1> USE <1>1 DEF BytesKept, Job
<1>2. CASE Pickup
  BY <1>2, BytesBehindSessions DEF Pickup
<1>3. CASE ExecOpen
  BY <1>3, BytesBehindSessions DEF ExecOpen
<1>4. CASE ExecFail
  BY <1>4, BytesBehindSessions DEF ExecFail
<1>5. CASE ExecStart
  BY <1>5, BytesBehindSessions DEF ExecStart
<1>6. CASE ExecTimeout
  BY <1>6, BytesBehindSessions DEF ExecTimeout, Kill
<1>7. CASE ExecStop
  BY <1>7, BytesBehindSessions DEF ExecStop, Kill
<1>8. CASE ExecDone
  BY <1>8, BytesBehindSessions DEF ExecDone
<1>9. CASE ExecComplete
  BY <1>9, BytesBehindSessions DEF ExecComplete
<1>10. CASE ExecReturn
  BY <1>10, BytesBehindSessions DEF ExecReturn
<1>11. QED
  BY <1>2, <1>3, <1>4, <1>5, <1>6, <1>7, <1>8, <1>9, <1>10 DEF ExecutorNext

\* A byte that is written is the next number and goes to the back of the pipe,
\* and the death of the process moves none.
LEMMA BytesProcess == StreamInv /\ BytesInv /\ ProcessNext => BytesInv'
<1> SUFFICES ASSUME StreamInv, BytesInv, ProcessNext  PROVE BytesInv'
  OBVIOUS
<1>1. /\ pipe \in [end : EndState, bytes : Seq(Byte)]
      /\ job.outpipe \/ job.outstream => job.stream
  BY DEF StreamInv, TypeOK, BytesInv, PipeInv
<1>2. CASE WriteByte
  BY <1>2, BytesWrite
<1>3. CASE ProcessExit
  BY <1>1, <1>3, BytesBehindSessions DEF ProcessExit, BytesKept
<1>4. CASE ProcessKilled
  BY <1>1, <1>4, BytesBehindSessions DEF ProcessKilled, BytesKept
<1>5. CASE WaitProcess
  BY <1>1, <1>5, BytesBehindSessions DEF WaitProcess, BytesKept
<1>6. CASE WaitClosePipe
  BY <1>1, <1>6, BytesBehindSessions DEF WaitClosePipe, BytesKept
<1>7. QED  BY <1>2, <1>3, <1>4, <1>5, <1>6 DEF ProcessNext

\* A session moves on, and takes or passes on nothing.
LEMMA SessionIdles ==
    ASSUME NEW v \in Viewers, BytesInv, UNCHANGED <<written, process, pipe, file>>,
           job'.stream = job.stream, job'.dump = job.dump,
           job'.outpipe = job.outpipe, job'.outstream = job.outstream,
           \A w \in Viewers \ {v} : viewer'[w] = viewer[w],
           SessionBytesKept(v), KnowsTheEnd(v)'
    PROVE  BytesInv'
<1>1. BytesKept
  BY DEF BytesKept, BytesInv, PipeInv
<1>2. \A w \in Viewers \ {v} : SessionBytesKept(w) /\ KnowsTheEnd(w)'
  BY DEF SessionBytesKept, KnowsTheEnd, BytesInv
<1>3. QED  BY <1>1, <1>2, NoByteMoves

\* Where Goto and Finish take session v, its bytes go with it.
LEMMA GotoIdles ==
    ASSUME NEW v \in Viewers, NEW pc, StreamInv, BytesInv, Goto(v, pc),
           UNCHANGED <<engine, pipe, file>>,
           job'.stream = job.stream, job'.dump = job.dump,
           job'.outpipe = job.outpipe, job'.outstream = job.outstream,
           pc = "read" => job.stream, pc # "tee", viewer[v].pc # "tee",
           viewer[v].pc \in {"release", "gone"} => pc \in {"release", "gone"}
    PROVE  BytesInv'
<1>1. viewer[v] \in Viewer /\ viewer \in [Viewers -> Viewer]
  BY DEF StreamInv, TypeOK
<1>2. /\ \A w \in Viewers \ {v} : viewer'[w] = viewer[w]
      /\ viewer'[v] = [viewer[v] EXCEPT !.pc = pc]
  BY <1>1 DEF Goto, Viewer
<1>3. /\ viewer'[v].sent = viewer[v].sent /\ viewer'[v].buf = viewer[v].buf
      /\ viewer'[v].chunk = viewer[v].chunk
      /\ viewer'[v].lost = viewer[v].lost /\ viewer'[v].err = viewer[v].err
      /\ viewer'[v].end = viewer[v].end /\ viewer'[v].pc = pc
  BY <1>1, <1>2 DEF Viewer
<1>4. SessionBytesKept(v)
  BY <1>3 DEF SessionBytesKept
<1>5. KnowsTheEnd(v)'
  BY <1>3 DEF KnowsTheEnd, BytesInv, engine
<1>6. QED  BY <1>2, <1>4, <1>5, SessionIdles DEF engine

\* A session that reports its end moves no byte, and reports a completed job
\* only if it has seen the end.
LEMMA FinishIdles ==
    ASSUME NEW v \in Viewers, NEW pc \in {"release", "gone"}, NEW end,
           StreamInv, BytesInv, Finish(v, pc, end),
           UNCHANGED <<job, engine, pipe, file>>,
           end = "completed"
              => viewer[v].err = "EOF" /\ ~HasLine(viewer[v].buf),
           viewer[v].pc # "tee"
    PROVE  BytesInv'
<1>1. viewer[v] \in Viewer /\ viewer \in [Viewers -> Viewer]
  BY DEF StreamInv, TypeOK
<1>2. /\ \A w \in Viewers \ {v} : viewer'[w] = viewer[w]
      /\ viewer'[v] = [viewer[v] EXCEPT !.pc = pc, !.end = end]
  BY <1>1 DEF Finish, Viewer
<1>3. /\ viewer'[v].sent = viewer[v].sent /\ viewer'[v].buf = viewer[v].buf
      /\ viewer'[v].chunk = viewer[v].chunk
      /\ viewer'[v].lost = viewer[v].lost /\ viewer'[v].err = viewer[v].err
      /\ viewer'[v].end = end /\ viewer'[v].pc = pc
  BY <1>1, <1>2 DEF Viewer
<1>4. SessionBytesKept(v)
  BY <1>3 DEF SessionBytesKept
<1>5. KnowsTheEnd(v)'
  BY <1>3 DEF KnowsTheEnd, BytesInv, engine
<1>6. QED  BY <1>2, <1>4, <1>5, SessionIdles DEF engine

\* So the steps of a session that move no byte keep the invariant too.
LEMMA BytesViewer ==
    ASSUME NEW v \in Viewers, StreamInv, BytesInv, ViewerNext(v)
    PROVE  BytesInv'
<1>1. /\ viewer[v] \in Viewer /\ viewer \in [Viewers -> Viewer] /\ job \in Job
      /\ KnowsTheEnd(v)
      /\ job.outpipe \/ job.outstream => job.stream
  BY DEF StreamInv, TypeOK, BytesInv, PipeInv
<1> USE DEF At
<1>2. CASE Lookup(v)
  <2>1. Goto(v, "completed?") \/ Finish(v, "gone", "unknown")
    BY <1>2 DEF Lookup
  <2>2. QED  BY <1>2, <2>1, GotoIdles, FinishIdles DEF Lookup
<1>3. CASE CheckCompleted(v)
  <2>1. Goto(v, "streaming?") \/ Finish(v, "gone", "notrunning")
    BY <1>3 DEF CheckCompleted
  <2>2. QED  BY <1>3, <2>1, GotoIdles, FinishIdles DEF CheckCompleted
<1>4. CASE CheckStreaming(v)
  <2>1. Goto(v, "claim") \/ Finish(v, "gone", "busy")
    BY <1>4 DEF CheckStreaming
  <2>2. QED  BY <1>4, <2>1, GotoIdles, FinishIdles DEF CheckStreaming
<1>5. CASE Claim(v)
  <2>1. /\ job'.stream = job.stream /\ job'.dump = job.dump
        /\ job'.outpipe = job.outpipe /\ job'.outstream = job.outstream
    BY <1>1, <1>5 DEF Claim, Job
  <2>2. QED  BY <1>5, <2>1, GotoIdles DEF Claim
<1>6. CASE OpenReader(v)
  <2>1. \/ Goto(v, "read") /\ (job.outpipe \/ job.outstream)
        \/ Finish(v, "release", "panic")
    BY <1>6 DEF OpenReader
  <2>2. QED  BY <1>1, <1>6, <2>1, GotoIdles, FinishIdles DEF OpenReader
<1>7. CASE ReadPipe(v)
  BY <1>7, BytesRead
<1>8. CASE TeeWrite(v)
  BY <1>8, BytesTee
<1>9. CASE TeeWriteFails(v)
  BY <1>9, BytesTeeFails
<1>10. CASE ReadEnd(v)
  <2>1. /\ \A w \in Viewers \ {v} : viewer'[w] = viewer[w]
        /\ viewer'[v].sent = viewer[v].sent /\ viewer'[v].buf = viewer[v].buf
        /\ viewer'[v].chunk = viewer[v].chunk
        /\ viewer'[v].lost = viewer[v].lost
        /\ viewer'[v].end = viewer[v].end /\ viewer'[v].pc = viewer[v].pc
        /\ viewer'[v].err = IF pipe.end = "closed" THEN "closed" ELSE "EOF"
    BY <1>1, <1>10 DEF ReadEnd, Viewer
  <2>2. viewer[v].pc = "read" /\ viewer[v].err = "none" /\ job.stream
    BY <1>1, <1>10 DEF ReadEnd, ReadsOn, KnowsTheEnd
  <2>3. SessionBytesKept(v)
    BY <2>1, <2>2 DEF SessionBytesKept
  <2>4. KnowsTheEnd(v)'
    BY <1>1, <1>10, <2>1, <2>2 DEF ReadEnd, KnowsTheEnd, engine
  <2>5. QED  BY <1>10, <2>1, <2>3, <2>4, SessionIdles DEF ReadEnd, engine
<1>11. CASE ReportEnd(v)
  <2>1. \/ /\ Finish(v, "release", "completed")
           /\ viewer[v].err = "EOF" /\ ~HasLine(viewer[v].buf)
        \/ Finish(v, "release", "error")
        \/ Finish(v, "release", "unexpected")
    BY <1>11 DEF ReportEnd
  <2>2. QED  BY <1>11, <2>1, FinishIdles DEF ReportEnd
<1>12. CASE WriteMessage(v)
  BY <1>12, BytesSent
<1>13. CASE WriteMessageFails(v)
  <2>1. Finish(v, "release", "disconnected") /\ viewer[v].pc = "read"
    BY <1>13 DEF WriteMessageFails
  <2>2. QED  BY <1>13, <2>1, FinishIdles DEF WriteMessageFails
<1>14. CASE Release(v)
  <2>1. /\ job'.stream = job.stream /\ job'.dump = job.dump
        /\ job'.outpipe = job.outpipe /\ job'.outstream = job.outstream
    BY <1>1, <1>14 DEF Release, Job
  <2>2. QED  BY <1>14, <2>1, GotoIdles DEF Release
<1>15. QED
  BY <1>2, <1>3, <1>4, <1>5, <1>6, <1>7, <1>8, <1>9, <1>10, <1>11, <1>12,
     <1>13, <1>14 DEF ViewerNext

\* Every step keeps BytesInv.
LEMMA BytesStep == StreamInv /\ BytesInv /\ [Next]_vars => BytesInv'
<1> SUFFICES ASSUME StreamInv, BytesInv, [Next]_vars  PROVE BytesInv'
  OBVIOUS
<1>1. CASE \/ ScheduleLongJobsWithStreaming \/ ScheduleLongJobsWithDumping
           \/ ApiScheduleJobs
  <2>1. \E output \in Output : Register(output)
    BY <1>1 DEF ScheduleLongJobsWithStreaming, ScheduleLongJobsWithDumping,
                ApiScheduleJobs, StreamingOutput, DumpingOutput, ApiOutput,
                Output
  <2>2. QED  BY <2>1, BytesRegister
<1>2. CASE Enqueue \/ StopJob \/ UNCHANGED vars
  <2>1. BytesKept /\ viewer' = viewer
    BY <1>2 DEF Enqueue, StopJob, vars, BytesKept, BytesInv, PipeInv
  <2>2. QED  BY <2>1, BytesBehindSessions
<1>3. QED
  BY <1>1, <1>2, BytesExecutor, BytesProcess, BytesViewer DEF Next

\* BytesInvariant: every byte that left the pipe is with one session or was lost
\* with one, and each session passes its bytes on in the order they were written,
\* also when sessions overlap and chunks end in the middle of a line.
THEOREM BytesInvariant == Spec => []BytesInv
  BY BytesInit, BytesStep, StreamInvariant, PTL DEF Spec

\* OutputIsSplit: clients that follow or overlap each other get the output in
\* order, and no byte twice between all of them.
THEOREM OutputIsSplit == Spec => []SessionsSplitTheOutput
<1>1. StreamInv /\ BytesInv => SessionsSplitTheOutput
  <2>1. SUFFICES ASSUME StreamInv, BytesInv  PROVE SessionsSplitTheOutput
    OBVIOUS
  <2>2. ASSUME NEW v \in Viewers  PROVE Increasing(viewer[v].sent)
    <3>1. PICK s \in Seq(Int), b \in Seq(Int), c \in Seq(Int) :
             s = viewer[v].sent /\ b = viewer[v].buf /\ c = viewer[v].chunk
      BY <2>1, BytesAreNumbers DEF StreamInv
    <3>2. Increasing((s \o b) \o c)
      BY <2>1, <3>1 DEF BytesInv, InOrder, Kept
    <3>3. s \o b \in Seq(Int)
      BY ConcatProperties
    <3>4. Increasing(s \o b)
      BY <3>2, <3>3, ConcatIncreases
    <3>5. QED  BY <3>1, <3>4, ConcatIncreases
  <2>3. ASSUME NEW v \in Viewers, NEW w \in Viewers, v # w
        PROVE  Bytes(viewer[v].sent) \cap Bytes(viewer[w].sent) = {}
    <3>1. /\ Bytes(viewer[v].sent) \subseteq Received(v)
          /\ Bytes(viewer[w].sent) \subseteq Received(w)
      BY <2>1, BytesOfSession DEF StreamInv
    <3>2. QED  BY <2>1, <2>3, <3>1 DEF BytesInv, NoByteTwice
  <2>4. QED  BY <2>2, <2>3 DEF SessionsSplitTheOutput
<1>2. QED  BY <1>1, StreamInvariant, BytesInvariant, PTL

\* A session that read to the end of the output and had all of it has sent every
\* whole line of it.
LEMMA LinesAreSent ==
    ASSUME StreamInv, BytesInv, NEW v \in Viewers,
           viewer[v].end = "completed", 1 .. written \subseteq Received(v)
    PROVE  InWholeLines \subseteq Bytes(viewer[v].sent)
<1>1. /\ viewer[v].pc # "tee" /\ viewer[v].err = "EOF"
      /\ ~HasLine(viewer[v].buf) /\ InOrder(v)
  BY DEF BytesInv, KnowsTheEnd
<1>2. PICK s \in Seq(Int), b \in Seq(Int) :
         s = viewer[v].sent /\ b = viewer[v].buf
  BY BytesAreNumbers DEF StreamInv
<1>3. Bytes(<<>>) = {} /\ viewer[v].chunk = <<>> /\ viewer[v].lost = <<>>
  BY <1>1, EmptySeq DEF Bytes, InOrder
<1>4. Received(v) = Bytes(s) \cup Bytes(b)
  BY <1>2, <1>3, BytesOfSession DEF StreamInv, Received
<1>5. \A m \in Bytes(s), n \in Bytes(b) : m < n
  <2>1. s \o b \in Seq(Int)
    BY ConcatProperties
  <2>2. Kept(v) = s \o b
    BY <1>2, <1>3, <2>1, ConcatEmptySeq DEF Kept
  <2>3. Increasing(s \o b)
    BY <1>1, <2>2 DEF InOrder
  <2>4. QED  BY <2>3, ConcatIncreases
<1>6. ASSUME NEW n \in InWholeLines  PROVE n \in Bytes(s)
  <2>1. PICK m \in Newlines : n <= m /\ m <= written
    BY <1>6 DEF InWholeLines
  <2>2. /\ written \in Nat /\ n \in 1 .. written /\ m \in Int
    BY <1>6, StreamingAssumption, BytesAreNumbers DEF InWholeLines, StreamInv
  <2>3. m \in 1 .. written
    BY <2>1, <2>2
  <2>4. m \notin Bytes(b)
    BY <1>1, <1>2 DEF HasLine, Bytes
  <2>5. m \in Bytes(s)
    BY <1>4, <2>3, <2>4
  <2>6. n \notin Bytes(b)
    BY <1>5, <2>1, <2>2, <2>5
  <2>7. QED  BY <1>4, <2>2, <2>6
<1>7. QED  BY <1>2, <1>6

\* CompletedIsComplete: whoever reads that the job is completed can be sure that
\* every byte of its output reached a session and none is left in the pipe; and
\* a client that had the stream alone was sent every line of it.
THEOREM CompletedIsComplete == Spec => []CompletedMeansAll
<1>1. StreamInv /\ BytesInv => CompletedMeansAll
  <2>1. SUFFICES ASSUME StreamInv, BytesInv,
                        NEW v \in Viewers, viewer[v].end = "completed"
                 PROVE  /\ 1 .. written
                              \subseteq UNION {Received(w) : w \in Viewers}
                        /\ (\A w \in Viewers \ {v} : Received(w) = {})
                              => InWholeLines \subseteq Bytes(viewer[v].sent)
    BY DEF CompletedMeansAll
  <2>2. viewer[v].err = "EOF" /\ job.stream /\ pipe.bytes = <<>>
    BY <2>1 DEF BytesInv, KnowsTheEnd
  <2>3. Taken = written
    BY <2>1, <2>2, BytesAreNumbers, EmptySeq DEF Taken, StreamInv
  <2>4. 1 .. written \subseteq UNION {Received(w) : w \in Viewers}
    BY <2>1, <2>2, <2>3 DEF BytesInv, NoByteLost
  <2>5. ASSUME \A w \in Viewers \ {v} : Received(w) = {}
        PROVE  InWholeLines \subseteq Bytes(viewer[v].sent)
    <3>1. 1 .. written \subseteq Received(v)
      BY <2>4, <2>5
    <3>2. QED  BY <2>1, <3>1, LinesAreSent
  <2>6. QED  BY <2>4, <2>5
<1>2. QED  BY <1>1, StreamInvariant, BytesInvariant, PTL

\* DumpIsAhead: no client of a dumped stream gets a byte that the file has not.
THEOREM DumpIsAhead == Spec => []SentIsDumped
<1>1. BytesInv => SentIsDumped
  BY DEF BytesInv, Dumped, SentIsDumped
<1>2. QED  BY <1>1, BytesInvariant, PTL
=============================================================================
