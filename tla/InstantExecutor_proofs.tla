----------------------- MODULE InstantExecutor_proofs ----------------------
(***************************************************************************)
(* Proofs about InstantExecutor, for any timeouts, any number of lines and *)
(* any capacity of the pipe.                                               *)
(***************************************************************************)
EXTENDS InstantExecutor, SequenceTheorems, TLAPS

-----------------------------------------------------------------------------
(* Numbered lines *)

\* The next line goes to the end.
LEMMA NumberedAppend ==
    ASSUME NEW S \in SUBSET Nat, NEW s \in Seq(S), NEW n \in Nat,
           Numbered(s, n), n + Len(s) + 1 \in S
    PROVE  Numbered(Append(s, n + Len(s) + 1), n)
<1> DEFINE t == Append(s, n + Len(s) + 1)
<1>1. Len(s) \in Nat
  BY LenProperties
<1>2. /\ Len(t) = Len(s) + 1
      /\ \A i \in 1 .. Len(s) : t[i] = s[i]
      /\ t[Len(s) + 1] = n + Len(s) + 1
  BY AppendProperties
<1>3. \A i \in 1 .. Len(s) : s[i] = n + i
  BY DEF Numbered
<1> HIDE DEF t
<1>4. \A i \in 1 .. Len(s) + 1 : t[i] = n + i
  BY <1>1, <1>2, <1>3
<1>5. Numbered(t, n)
  BY <1>2, <1>4 DEF Numbered
<1>6. QED  BY <1>5 DEF t

\* The first line is taken away.
LEMMA NumberedTail ==
    ASSUME NEW S \in SUBSET Nat, NEW s \in Seq(S), NEW n \in Nat,
           Numbered(s, n), s # <<>>
    PROVE  Head(s) = n + 1 /\ Numbered(Tail(s), n + 1)
<1>1. Len(s) \in Nat /\ Len(s) > 0
  BY LenProperties, EmptySeq
<1>2. /\ Len(Tail(s)) = Len(s) - 1
      /\ \A i \in 1 .. Len(Tail(s)) : Tail(s)[i] = s[i + 1]
  BY HeadTailProperties
<1>3. Head(s) = n + 1
  BY <1>1 DEF Numbered
<1>4. \A i \in 1 .. Len(s) - 1 : s[i + 1] = n + 1 + i
  BY <1>1 DEF Numbered
<1>5. QED  BY <1>2, <1>3, <1>4 DEF Numbered

\* The sequence is cut in two.
LEMMA NumberedCut ==
    ASSUME NEW S \in SUBSET Nat, NEW s \in Seq(S), NEW n \in Nat,
           Numbered(s, n), NEW k \in 1 .. Len(s)
    PROVE  /\ SubSeq(s, 1, k) \in Seq(S) /\ Len(SubSeq(s, 1, k)) = k
           /\ Numbered(SubSeq(s, 1, k), n)
           /\ SubSeq(s, k + 1, Len(s)) \in Seq(S)
           /\ Len(SubSeq(s, k + 1, Len(s))) = Len(s) - k
           /\ Numbered(SubSeq(s, k + 1, Len(s)), n + k)
<1>1. Len(s) \in Nat /\ \A i \in 1 .. Len(s) : s[i] \in S
  BY LenProperties, ElementOfSeq
<1>2. \A i \in 1 .. Len(s) : s[i] = n + i
  BY DEF Numbered
<1>3. /\ SubSeq(s, 1, k) \in Seq(S) /\ Len(SubSeq(s, 1, k)) = k
      /\ \A i \in 1 .. k : SubSeq(s, 1, k)[i] = s[i]
  <2>1. \A i \in 1 .. k : s[i] \in S
    BY <1>1
  <2>2. QED  BY <1>1, <2>1, SubSeqProperties
<1>4. /\ SubSeq(s, k + 1, Len(s)) \in Seq(S)
      /\ Len(SubSeq(s, k + 1, Len(s))) = Len(s) - k
      /\ \A i \in 1 .. Len(s) - k : SubSeq(s, k + 1, Len(s))[i] = s[k + i]
  <2>1. \A i \in k + 1 .. Len(s) : s[i] \in S
    BY <1>1
  <2>2. SubSeq(s, k + 1, Len(s)) \in Seq(S)
    BY <1>1, <2>1, SubSeqProperties
  <2>3. Len(SubSeq(s, k + 1, Len(s))) = Len(s) - k
    BY <1>1, <2>1, SubSeqProperties
  <2>4. \A i \in 1 .. Len(s) - k : SubSeq(s, k + 1, Len(s))[i] = s[k + i]
    BY <1>1, <2>1, SubSeqProperties
  <2>5. QED  BY <2>2, <2>3, <2>4
<1>5. \A i \in 1 .. k : s[i] = n + i
  BY <1>1, <1>2
<1>6. \A i \in 1 .. Len(s) - k : s[k + i] = n + k + i
  BY <1>1, <1>2
<1>7. QED  BY <1>3, <1>4, <1>5, <1>6 DEF Numbered

-----------------------------------------------------------------------------
(* The invariant *)

\* The initial states are in the invariant.
LEMMA InvInit == Init => InstantInv
<1> SUFFICES ASSUME Init  PROVE InstantInv
  OBVIOUS
<1>1. <<>> \in Seq(Line) /\ Len(<<>>) = 0
  BY EmptySeq
<1>2. pipe \in [end : {"none", "open", "closed"}, lines : Seq(Line)]
      /\ pipe.lines = <<>> /\ pipe.end = "none"
  BY <1>1 DEF Init
<1>3. TypeOK
  <2>1. <<>> \in Seq(Text)
    BY EmptySeq
  <2>2. buf \in Seq(Line) /\ Len(buf) = 0 /\ answer \in Seq(Text)
    BY <1>1, <2>1 DEF Init
  <2>3. Len(pipe.lines) = 0
    BY <1>1, <1>2
  <2>4. /\ handler = "none" /\ limit = 0 /\ ctx = "live" /\ reader = "none"
        /\ damaged = FALSE /\ process = "none" /\ overlong = 0 /\ percent = 0
        /\ written = 0
    BY DEF Init
  <2>5. /\ limit \in Nat /\ overlong \in 0 .. MaxLines
        /\ percent \in 0 .. MaxLines /\ written \in 0 .. MaxLines
        /\ Len(buf) <= PipeCapacity /\ Len(pipe.lines) <= PipeCapacity
    BY ONLY <2>2, <2>3, <2>4, InstantAssumption
  <2>6. pipe \in [end : {"none", "open", "closed"}, lines : Seq(Line)]
    BY <1>2
  <2>7. damaged \in BOOLEAN
    BY <2>4
  <2>8. QED  BY ONLY <2>2, <2>4, <2>5, <2>6, <2>7 DEF TypeOK
<1>4. LinesInv
  <2>1. /\ written = 0 /\ buf = <<>> /\ answer = <<>> /\ ~damaged
        /\ Len(buf) = 0 /\ Len(answer) = 0 /\ Len(pipe.lines) = 0
    BY <1>1, <1>2 DEF Init
  <2>2. left = 0
    <3>1. written = 0 /\ Len(buf) = 0 /\ Len(pipe.lines) = 0
      BY <2>1
    <3>2. QED  BY ONLY <3>1 DEF left
  <2>3. QED  BY ONLY <2>1, <2>2 DEF LinesInv, Numbered
<1>5. HandlerInv /\ ReaderInv
  BY <1>2 DEF Init, HandlerInv, ReaderInv, Started
<1>6. QED  BY <1>3, <1>4, <1>5 DEF InstantInv

\* A step that moves no line keeps the order of the lines, if it does not touch
\* the response while the context lives.
LEMMA LinesStay ==
    ASSUME LinesInv, UNCHANGED <<buf, written>>, pipe'.lines = pipe.lines,
           ctx' = "live" => ctx = "live" /\ UNCHANGED <<answer, damaged, percent>>
    PROVE  LinesInv'
  BY DEF LinesInv, left, Formatted

\* A step of the handler keeps the invariant.
LEMMA InvHandler ==
    ASSUME InstantInv, HandlerNext
    PROVE  InstantInv'
<1> USE DEF InstantInv, asked, response
<1>1. TypeOK'
  <2>1. CASE Begin
    BY <2>1, InstantAssumption DEF TypeOK, Begin
  <2>2. CASE EndNotice
    <3>1. answer' \in Seq(Text)
      <4>1. Notice \in Text
        BY InstantAssumption DEF Notice, Text
      <4>2. answer \in Seq(Text)
        BY DEF TypeOK
      <4>3. answer' = answer \/ answer' = Append(answer, Notice)
        BY <2>2 DEF EndNotice
      <4>4. QED  BY ONLY <4>1, <4>2, <4>3, AppendProperties
    <3>2. QED  BY <2>2, <3>1 DEF TypeOK, EndNotice
  <2>3. CASE StartReader \/ StartFails \/ Wait
    BY <2>3 DEF TypeOK, StartReader, StartFails, Wait
  <2>4. CASE PipeFails \/ Start \/ Deadline \/ Cancel
    BY <2>4 DEF TypeOK, PipeFails, Start, Deadline, Cancel
  <2>5. CASE TakeContext \/ KillProcess \/ TakeDone
    BY <2>5 DEF TypeOK, TakeContext, KillProcess, TakeDone
  <2>6. QED  BY <2>1, <2>2, <2>3, <2>4, <2>5 DEF HandlerNext
<1>2. LinesInv'
  <2>1. UNCHANGED <<buf, written>> /\ pipe'.lines = pipe.lines
    BY DEF TypeOK, HandlerNext, Begin, StartReader, PipeFails, Start,
           StartFails, Deadline, Cancel, TakeContext, EndNotice, KillProcess,
           TakeDone, Wait
  <2>2. CASE Begin
    <3>1. written = 0 /\ Len(buf) \in Nat /\ Len(pipe.lines) \in Nat
      BY <2>2, LenProperties DEF Begin, HandlerInv, ReaderInv, TypeOK
    <3>2. left = 0
      BY <3>1 DEF LinesInv, left
    <3>3. UNCHANGED <<ctx, answer, damaged>> /\ left' = left
      BY <2>1, <2>2 DEF Begin, left
    <3>4. QED  BY <2>1, <3>2, <3>3 DEF LinesInv
  <2>3. ASSUME ~Begin
        PROVE  ctx' = "live"
                  => ctx = "live" /\ UNCHANGED <<answer, damaged, percent>>
    BY <2>3 DEF HandlerNext, StartReader, PipeFails, Start, StartFails,
       Deadline, Cancel, TakeContext, EndNotice, KillProcess, TakeDone, Wait,
       HandlerInv
  <2>4. QED  BY <2>1, <2>2, <2>3, LinesStay
<1>3. HandlerInv'
  <2>1. CASE \/ Begin \/ StartReader \/ PipeFails \/ Start \/ StartFails
             \/ Deadline \/ Cancel
    BY <2>1 DEF HandlerInv, TypeOK, Begin, StartReader, PipeFails, Start,
       StartFails, Deadline, Cancel
  <2>2. CASE \/ TakeContext \/ EndNotice \/ KillProcess \/ TakeDone \/ Wait
    BY <2>2 DEF HandlerInv, TypeOK, TakeContext, EndNotice, KillProcess,
       TakeDone, Wait
  <2>3. QED  BY <2>1, <2>2 DEF HandlerNext
<1>4. ReaderInv'
  <2>1. CASE \/ Begin \/ StartReader \/ PipeFails \/ Start \/ StartFails
             \/ Deadline \/ Cancel
    BY <2>1 DEF HandlerInv, ReaderInv, Started, TypeOK, Begin, StartReader,
       PipeFails, Start, StartFails, Deadline, Cancel
  <2>2. CASE \/ TakeContext \/ EndNotice \/ KillProcess \/ TakeDone \/ Wait
    BY <2>2 DEF HandlerInv, ReaderInv, Started, TypeOK, TakeContext, EndNotice,
       KillProcess, TakeDone, Wait
  <2>3. QED  BY <2>1, <2>2 DEF HandlerNext
<1>5. QED  BY <1>1, <1>2, <1>3, <1>4

\* So does a step of the reader.
LEMMA InvReader ==
    ASSUME InstantInv, ReaderNext
    PROVE  InstantInv'
<1> USE DEF InstantInv, asked, response
<1>1. /\ buf \in Seq(Line) /\ pipe.lines \in Seq(Line)
      /\ Len(buf) \in Nat /\ Len(pipe.lines) \in Nat
      /\ written \in Nat /\ left \in Nat
      /\ written = left + Len(buf) + Len(pipe.lines)
      /\ pipe \in [end : {"none", "open", "closed"}, lines : Seq(Line)]
      /\ Line \in SUBSET Nat
  BY LenProperties, InstantAssumption DEF TypeOK, Line, LinesInv, left
<1>2. CASE ScanFill
  <2>1. PICK k \in 1 .. Len(pipe.lines) :
           /\ buf' = SubSeq(pipe.lines, 1, k)
           /\ pipe' = [pipe EXCEPT !.lines =
                                 SubSeq(pipe.lines, k + 1, Len(pipe.lines))]
    BY <1>2 DEF ScanFill
  <2>2. /\ pipe'.lines = SubSeq(pipe.lines, k + 1, Len(pipe.lines))
        /\ pipe'.end = pipe.end
    BY <1>1, <2>1
  <2>3. /\ buf = <<>> /\ Len(buf) = 0
        /\ UNCHANGED <<answer, damaged, percent, ctx, written>>
    BY <1>2 DEF ScanFill
  <2>4. Numbered(pipe.lines, left)
    BY <1>1, <2>3 DEF LinesInv
  <2>5. /\ buf' \in Seq(Line) /\ Len(buf') = k
        /\ Numbered(buf', left)
        /\ pipe'.lines \in Seq(Line)
        /\ Len(pipe'.lines) = Len(pipe.lines) - k
        /\ Numbered(pipe'.lines, left + k)
    <3>1. buf' = SubSeq(pipe.lines, 1, k)
      BY <2>1
    <3>2. k \in 1 .. Len(pipe.lines)
      OBVIOUS
    <3>3. /\ SubSeq(pipe.lines, 1, k) \in Seq(Line)
          /\ Len(SubSeq(pipe.lines, 1, k)) = k
          /\ Numbered(SubSeq(pipe.lines, 1, k), left)
          /\ SubSeq(pipe.lines, k + 1, Len(pipe.lines)) \in Seq(Line)
          /\ Len(SubSeq(pipe.lines, k + 1, Len(pipe.lines)))
                = Len(pipe.lines) - k
          /\ Numbered(SubSeq(pipe.lines, k + 1, Len(pipe.lines)), left + k)
      BY ONLY <1>1, <2>4, <3>2, NumberedCut
    <3>4. QED  BY ONLY <2>2, <3>1, <3>3, Zenon
  <2>6. pipe' \in [end : {"none", "open", "closed"}, lines : Seq(Line)]
    BY <1>1, <2>1, <2>5
  <2>7. TypeOK'
    <3>1. Len(buf') <= PipeCapacity /\ Len(pipe'.lines) <= PipeCapacity
      BY <1>1, <2>5, InstantAssumption DEF TypeOK
    <3>2. QED  BY <1>2, <2>5, <2>6, <3>1 DEF TypeOK, ScanFill
  <2>8. LinesInv'
    <3>1. left' = left
      <4>1. k + (Len(pipe.lines) - k) = 0 + Len(pipe.lines)
        BY ONLY <1>1, k \in 1 .. Len(pipe.lines)
      <4>2. QED  BY ONLY <1>1, <2>3, <2>5, <4>1 DEF left
    <3>2. QED  BY <2>3, <2>5, <3>1 DEF LinesInv, Formatted
  <2>9. HandlerInv' /\ ReaderInv'
    BY <1>2, <2>2 DEF HandlerInv, ReaderInv, Started, ScanFill
  <2>10. QED  BY <2>7, <2>8, <2>9
<1>3. CASE ScanLine
  <2>1. TypeOK' /\ LinesInv'
    BY <1>3, LinesStay DEF TypeOK, ScanLine
  <2>2. process # "none"
    BY <1>1, <1>3, EmptySeq DEF ReaderInv, ScanLine
  <2>3. HandlerInv' /\ ReaderInv'
    BY <1>3, <2>2 DEF HandlerInv, ReaderInv, Started, ScanLine
  <2>4. QED  BY <2>1, <2>3
<1>4. CASE WriteResponse
  <2>1. reader = "write" /\ buf # <<>> /\ process # "none"
    BY <1>1, <1>4, EmptySeq DEF ReaderInv, WriteResponse
  <2>2. /\ Head(buf) \in Line
        /\ buf' \in Seq(Line) /\ Len(buf') = Len(buf) - 1
        /\ \A i \in 1 .. Len(buf') : buf'[i] = buf[i + 1]
    BY <1>1, <1>4, <2>1, HeadTailProperties DEF WriteResponse
  <2>3. Len(buf) > 0 /\ UNCHANGED <<pipe, written, percent, ctx, process, overlong>>
    BY <1>1, <1>4, <2>1, EmptySeq DEF WriteResponse
  <2>4. PICK a \in Seq(Text) : a = answer
    BY DEF TypeOK
  <2>5. PICK f \in Text : f = Formatted(Head(buf))
    BY <2>2, InstantAssumption DEF Formatted, Line, Text
  <2>6. /\ Append(a, f) \in Seq(Text)
        /\ Len(Append(a, f)) = Len(a) + 1 /\ Len(a) \in Nat
        /\ \A i \in 1 .. Len(a) : Append(a, f)[i] = a[i]
        /\ Append(a, f)[Len(a) + 1] = f
    BY ONLY <2>4, <2>5, AppendProperties, LenProperties
  <2>7. \/ answer' = Append(a, f) /\ UNCHANGED <<handler, damaged>>
        \/ /\ handler \in {"notice", "gone"} /\ answer' = a
           /\ handler' \in {handler, "crashed"} /\ damaged' = TRUE
    BY <1>4, <2>4, <2>5 DEF WriteResponse
  <2>8. ctx = "live" => answer' = Append(a, f) /\ UNCHANGED <<handler, damaged>>
    BY <2>1, <2>7 DEF HandlerInv, ReaderInv, Started
  <2>9. TypeOK'
    <3>1. answer' \in Seq(Text)
      BY <2>4, <2>6, <2>7
    <3>2. Len(buf') <= PipeCapacity
      BY <1>1, <2>2, InstantAssumption DEF TypeOK
    <3>3. handler' \in {"none", "pipe", "start", "select", "notice", "kill",
                        "wait", "gone", "crashed"} /\ damaged' \in BOOLEAN
      BY <2>7 DEF TypeOK
    <3>4. QED  BY <1>4, <2>2, <2>3, <3>1, <3>2, <3>3 DEF TypeOK, WriteResponse
  <2>10. LinesInv'
    <3>1. left' = left + 1
      BY ONLY <1>1, <2>2, <2>3 DEF left
    <3>2. Head(buf) = left + 1 /\ Numbered(buf', left + 1)
      <4>1. Numbered(buf, left) /\ buf' = Tail(buf)
        BY <1>4 DEF LinesInv, WriteResponse
      <4>2. QED  BY ONLY <1>1, <2>1, <4>1, NumberedTail
    <3>3. Numbered(pipe'.lines, left' + Len(buf'))
      <4>1. left' + Len(buf') = left + Len(buf)
        BY ONLY <1>1, <2>2, <3>1
      <4>2. Numbered(pipe.lines, left + Len(buf))
        BY DEF LinesInv
      <4>3. QED  BY ONLY <2>3, <4>1, <4>2
    <3>4. ASSUME ctx = "live"
          PROVE  /\ ~damaged' /\ Len(answer') = left'
                 /\ \A i \in 1 .. Len(answer') : answer'[i] = Formatted(i)
      <4>1. /\ ~damaged /\ Len(a) = left
            /\ \A i \in 1 .. Len(a) : a[i] = Formatted(i)
        BY <2>4, <3>4 DEF LinesInv
      <4>2. f = Formatted(Len(a) + 1)
        BY <2>5, <3>2, <4>1
      <4>3. \A i \in 1 .. Len(a) + 1 : Append(a, f)[i] = Formatted(i)
        BY ONLY <2>6, <4>1, <4>2
      <4>4. answer' = Append(a, f) /\ damaged' = damaged
        BY <2>8, <3>4
      <4>5. QED  BY ONLY <2>6, <3>1, <4>1, <4>3, <4>4
    <3>5. \A i : Formatted(i)' = Formatted(i)
      BY <2>3 DEF Formatted
    <3>6. left' \in Nat /\ Numbered(buf', left')
      BY ONLY <1>1, <3>1, <3>2
    <3>7. QED  BY <2>3, <3>3, <3>4, <3>5, <3>6 DEF LinesInv
  <2>11. HandlerInv'
    BY <1>4, <2>3, <2>7 DEF HandlerInv, WriteResponse
  <2>12. ReaderInv'
    BY <1>4, <2>1, <2>3, <2>7, <2>8 DEF HandlerInv, ReaderInv, Started,
       WriteResponse
  <2>13. QED  BY <2>9, <2>10, <2>11, <2>12
<1>5. CASE ScanOverlong
  <2>1. TypeOK' /\ LinesInv' /\ HandlerInv'
    BY <1>5, LinesStay DEF TypeOK, HandlerInv, ScanOverlong
  <2>2. Head(buf) \in Line
    BY <1>1, <1>5, HeadTailProperties DEF ScanOverlong
  <2>3. overlong # 0
    BY <1>5, <2>2, InstantAssumption DEF ScanOverlong, Line
  <2>4. process # "none"
    BY <1>1, <1>5, EmptySeq DEF ReaderInv, ScanOverlong
  <2>5. QED  BY <1>5, <2>1, <2>3, <2>4 DEF ReaderInv, Started, ScanOverlong
<1>6. CASE ScanEnd
  <2>1. TypeOK' /\ LinesInv' /\ HandlerInv'
    BY <1>6, LinesStay DEF TypeOK, HandlerInv, ScanEnd
  <2>2. Started => process = "dead" /\ pipe.lines = <<>>
    BY <1>6 DEF ScanEnd, HandlerInv, ReaderInv
  <2>3. process = "none" => handler = "gone"
    BY <1>6 DEF ScanEnd, HandlerInv
  <2>4. QED  BY <1>6, <2>1, <2>2, <2>3 DEF ReaderInv, Started, ScanEnd
<1>7. QED  BY <1>2, <1>3, <1>5, <1>6, <1>4 DEF ReaderNext

\* So does a step of the process.
LEMMA InvProcess ==
    ASSUME InstantInv, ProcessNext
    PROVE  InstantInv'
<1> USE DEF InstantInv, asked, response
<1>1. CASE WriteLine
  <2>1. /\ pipe.lines \in Seq(Line) /\ Len(pipe.lines) \in Nat
        /\ Len(buf) \in Nat /\ left \in Nat
        /\ written \in Nat /\ written + 1 \in Line
    BY <1>1, LenProperties, InstantAssumption DEF TypeOK, WriteLine, Line,
       LinesInv
  <2>2. /\ pipe'.lines = Append(pipe.lines, written + 1)
        /\ pipe'.end = pipe.end
    BY <1>1 DEF TypeOK, WriteLine
  <2>3. /\ pipe'.lines \in Seq(Line)
        /\ Len(pipe'.lines) = Len(pipe.lines) + 1
        /\ \A i \in 1 .. Len(pipe.lines) : pipe'.lines[i] = pipe.lines[i]
        /\ pipe'.lines[Len(pipe.lines) + 1] = written + 1
    BY <2>1, <2>2, AppendProperties
  <2>4. pipe' \in [end : {"none", "open", "closed"}, lines : Seq(Line)]
    BY <1>1, <2>2, <2>3 DEF TypeOK, WriteLine
  <2>5. TypeOK'
    <3>1. written' \in 0 .. MaxLines /\ Len(pipe'.lines) <= PipeCapacity
      BY <1>1, <2>1, <2>3, InstantAssumption DEF TypeOK, WriteLine
    <3>2. QED  BY <1>1, <2>4, <3>1 DEF TypeOK, WriteLine
  <2>6. LinesInv'
    <3>1. /\ UNCHANGED <<answer, damaged, percent, ctx, buf>>
          /\ written' = written + 1
      BY <1>1 DEF WriteLine
    <3>2. left' = left
      BY ONLY <2>1, <2>3, <3>1 DEF left
    <3>3. Numbered(pipe'.lines, left + Len(buf))
      <4>1. Line \in SUBSET Nat /\ left + Len(buf) \in Nat
        BY <2>1 DEF Line
      <4>2. written = left + Len(buf) + Len(pipe.lines)
        BY ONLY <2>1 DEF left
      <4>3. Numbered(pipe.lines, left + Len(buf))
        BY DEF LinesInv
      <4>4. QED  BY ONLY <2>1, <2>2, <4>1, <4>2, <4>3, NumberedAppend
    <3>4. QED  BY <2>1, <3>1, <3>2, <3>3 DEF LinesInv, Formatted
  <2>7. HandlerInv' /\ ReaderInv'
    BY <1>1, <2>2 DEF HandlerInv, ReaderInv, Started, WriteLine
  <2>8. QED  BY <2>5, <2>6, <2>7
<1>2. CASE ProcessExit \/ ContextKills
  <2>1. TypeOK' /\ LinesInv'
    BY <1>2, LinesStay DEF TypeOK, ProcessExit, ContextKills
  <2>2. HandlerInv' /\ ReaderInv'
    BY <1>2 DEF HandlerInv, ReaderInv, Started, ProcessExit, ContextKills
  <2>3. QED  BY <2>1, <2>2
<1>3. QED  BY <1>1, <1>2 DEF ProcessNext

\* The inductive invariant.
THEOREM InstantInvariant == Spec => []InstantInv
<1>1. InstantInv /\ [Next]_vars => InstantInv'
  <2> SUFFICES ASSUME InstantInv, [Next]_vars  PROVE InstantInv'
    OBVIOUS
  <2>1. CASE UNCHANGED vars
    BY <2>1 DEF vars, InstantInv, TypeOK, LinesInv, HandlerInv, ReaderInv,
           Started, left, Formatted
  <2>2. QED  BY <2>1, InvHandler, InvReader, InvProcess DEF Next
<1>2. QED  BY <1>1, InvInit, PTL DEF Spec

\* Type correctness, the bounds of the pipe and of the buffer included.
THEOREM TypeCorrect == Spec => []TypeOK
<1>1. InstantInv => TypeOK
  BY DEF InstantInv
<1>2. QED  BY <1>1, InstantInvariant, PTL

\* UncutAnswerIsClean: as long as neither the deadline nor the client has ended
\* the context, no write to the response meets another one or comes after the
\* handler has returned.
THEOREM UncutAnswerIsClean == Spec => []UncutIsClean
<1>1. InstantInv => UncutIsClean
  BY DEF InstantInv, LinesInv, UncutIsClean
<1>2. QED  BY <1>1, InstantInvariant, PTL

\* UncutAnswerIsComplete: a command that nothing cuts off is answered with all
\* of its lines, in order.
THEOREM UncutAnswerIsComplete == Spec => []UncutIsComplete
<1>1. InstantInv => UncutIsComplete
  <2> SUFFICES ASSUME InstantInv, handler = "gone", process # "none",
                      ctx = "live", overlong = 0
               PROVE  answer = [n \in 1 .. written |-> Formatted(n)]
    BY DEF UncutIsComplete
  <2>1. buf = <<>> /\ pipe.lines = <<>>
    BY DEF InstantInv, ReaderInv, Started
  <2>2. written \in Nat
    BY InstantAssumption DEF InstantInv, TypeOK
  <2>3. left = written
    BY <2>1, <2>2, EmptySeq DEF left
  <2>4. /\ Len(answer) = written
        /\ \A i \in 1 .. Len(answer) : answer[i] = Formatted(i)
    BY <2>3 DEF InstantInv, LinesInv
  <2>5. answer \in [1 .. Len(answer) -> Text]
    BY LenProperties DEF InstantInv, TypeOK
  <2>6. QED  BY <2>4, <2>5
<1>2. QED  BY <1>1, InstantInvariant, PTL
=============================================================================
