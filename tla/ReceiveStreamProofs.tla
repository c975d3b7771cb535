------------------------- MODULE ReceiveStreamProofs -------------------------
(***************************************************************************)
(* Proofs about ReceiveStream, for every length of the begin record, the   *)
(* stream, the pipe and the buffers passed to Write, and every caller.     *)
(* Only what is said of the bytes needs ~LateENOMEM: a kernel that answers *)
(* ENOMEM after input has taken bytes that the repeated call never sees.   *)
(***************************************************************************)
EXTENDS ReceiveStream, SequenceTheorems, TLAPS

Waiting == cpc \in {"wait", "returned"}              \* WaitAndClose was called
Full == ~preset /\ Len(beginRecord) = BeginLen       \* the record is complete

(* beginRecordChan: the record comes first, then the empty one, and the    *)
(* goroutine takes exactly the first of them.                              *)
Pending ==
  IF gpc = "begin"
  THEN IF Full THEN IF Waiting THEN <<BeginLen, 0>> ELSE <<BeginLen>>
               ELSE IF Waiting THEN <<0>> ELSE <<>>
  ELSE IF Full /\ Waiting THEN <<0>> ELSE <<>>

RecordInv ==
  /\ beginRecordChan = Pending
  /\ gpc # "begin" /\ ~Full => Waiting /\ gerr = "short"
  /\ gerr = "short" => ~Full /\ gpc # "begin"
  /\ ~preset => IF Full THEN written >= BeginLen
                ELSE written = Len(beginRecord) /\ buf = <<>>

(* The verdict: with the goroutine until it is sent, then in errorChan,    *)
(* then the result of WaitAndClose.  Only a goroutine that has sent it     *)
(* closes the read end, which alone makes a Write fail.                    *)
VerdictInv ==
  /\ gpc \in {"begin", "ioctl", "panicked"} <=> gerr = "none"
  /\ gpc \in {"begin", "ioctl", "panicked", "report"} =>
       errorChan = <<>> /\ result = "none" /\ cpc # "returned"
  /\ gpc \in {"close", "done"} =>
       IF cpc = "returned" THEN errorChan = <<>> /\ result = gerr
       ELSE errorChan = <<gerr>> /\ result = "none"
  /\ ~rOpen => gpc = "done"
  /\ lastError # "none" => ~rOpen
  /\ gerr \in {"nil", "props"} => BeginLen + Len(consumed) = StreamLen

IInv == TypeOK /\ RecordInv /\ VerdictInv

(* A run of positions starting above k: *)
Run(s, k) == \A i \in 1..Len(s) : s[i] = k + i

(* The begin record, what the kernel has read, the pipe's content and what *)
(* the Write in progress still holds are, in this order, what the caller   *)
(* has written.                                                            *)
DataInv ==
  /\ ~Full => consumed = <<>>
  /\ gpc = "begin" => consumed = <<>>
  /\ BeginLen + Len(consumed) <= StreamLen
  /\ Run(beginRecord, 0)
  /\ ~preset =>
       /\ ~Full => pipe = <<>>
       /\ Run(consumed, BeginLen)
       /\ Run(pipe, BeginLen + Len(consumed))
       /\ Run(buf, BeginLen + Len(consumed) + Len(pipe))
       /\ Full /\ lastError = "none" =>
            written = BeginLen + Len(consumed) + Len(pipe) + Len(buf)
       /\ cpc # "write" => buf = <<>>

-----------------------------------------------------------------------------
(* Lengths of the reply buffer (ioctl.go:53-56). *)
LEMMA DstGrows ==
  ASSUME NEW d \in DstSizes, ~Exhausted(d)
  PROVE  Grow(d) \in DstSizes
BY DEF DstSizes, Exhausted, Grow, DstLimit

LEMMA BytesProperties ==
  ASSUME NEW from \in Nat, NEW n \in Nat
  PROVE  /\ Bytes(from, n) \in Seq(Nat) /\ Len(Bytes(from, n)) = n
         /\ Run(Bytes(from, n), from)
<1>1. \A i \in 1..n : from + i \in Nat
  OBVIOUS
<1>2. Bytes(from, n) \in Seq(Nat) /\ Len(Bytes(from, n)) = n
  BY <1>1, IsASeq DEF Bytes
<1>3. \A i \in 1..n : Bytes(from, n)[i] = from + i
  BY DEF Bytes
<1> QED BY <1>2, <1>3 DEF Run

(* What a Write or the pipe takes from the front, and leaves. *)
LEMMA SplitType ==
  ASSUME NEW s \in Seq(Nat), NEW n \in Nat, n <= Len(s)
  PROVE  /\ SubSeq(s, 1, n) \in Seq(Nat)
         /\ SubSeq(s, n + 1, Len(s)) \in Seq(Nat)
         /\ Len(SubSeq(s, 1, n)) = n
         /\ Len(SubSeq(s, n + 1, Len(s))) = Len(s) - n
<1>1. Len(s) \in Nat /\ \A i \in 1..Len(s) : s[i] \in Nat
  BY ElementOfSeq, LenProperties
<1>2. SubSeq(s, 1, n) \in Seq(Nat) /\ Len(SubSeq(s, 1, n)) = n
  BY <1>1, SubSeqProperties
<1>3. /\ SubSeq(s, n + 1, Len(s)) \in Seq(Nat)
      /\ Len(SubSeq(s, n + 1, Len(s))) = Len(s) - n
  BY <1>1, SubSeqProperties
<1> QED BY <1>2, <1>3

(* Write (wrappers.go): b of the n bytes complete the begin record, the    *)
(* others are for the pipe, and the record is handed over just when it     *)
(* becomes complete.                                                       *)
LEMMA WriteSplits ==
  ASSUME TypeOK, NEW n \in Nat, Write(n)
  PROVE  \E b \in 0..n :
           /\ Len(beginRecord) + b <= BeginToRead
           /\ b < n => Len(beginRecord) + b = BeginToRead
           /\ beginRecord' = beginRecord \o Bytes(written, b)
           /\ beginRecord' \in Seq(Nat) /\ Len(beginRecord') = Len(beginRecord) + b
           /\ buf' = Bytes(written + b, n - b)
           /\ buf' \in Seq(Nat) /\ Len(buf') = n - b
           /\ written' = written + n /\ written' \in Nat
           /\ IF Len(beginRecord) < BeginToRead /\ Len(beginRecord') = BeginToRead
              THEN beginRecordChan' = Append(beginRecordChan, BeginLen)
              ELSE beginRecordChan' = beginRecordChan
<1> DEFINE nMissing == BeginToRead - Len(beginRecord)
           b == Min2(nMissing, n)
<1>1. /\ Len(beginRecord) \in Nat /\ BeginToRead \in Nat /\ written \in Nat
      /\ Len(beginRecord) <= BeginToRead /\ beginRecord \in Seq(Nat)
  BY LenProperties, ReceiveAssumption DEF TypeOK, BeginToRead
<1>2. nMissing \in Nat /\ b \in 0..n /\ b <= nMissing /\ (b < n => b = nMissing)
  BY <1>1 DEF Min2
<1>3. /\ beginRecord' = beginRecord \o Bytes(written, b)
      /\ buf' = Bytes(written + b, n - b)
      /\ written' = written + n
      /\ IF nMissing > 0 /\ nMissing = b
         THEN beginRecordChan' = Append(beginRecordChan, BeginLen)
         ELSE beginRecordChan' = beginRecordChan
  BY DEF Write, IntoPipe, HandOver
<1> HIDE DEF b
<1>4. b \in Nat /\ n - b \in Nat /\ written + b \in Nat /\ written' \in Nat
  BY <1>1, <1>2, <1>3
<1>5. beginRecord' \in Seq(Nat) /\ Len(beginRecord') = Len(beginRecord) + b
  <2>1. Bytes(written, b) \in Seq(Nat) /\ Len(Bytes(written, b)) = b
    BY <1>1, <1>4, BytesProperties
  <2> QED BY <1>1, <1>3, <2>1, ConcatProperties
<1>6. buf' \in Seq(Nat) /\ Len(buf') = n - b
  BY <1>3, <1>4, BytesProperties
<1>7. IF Len(beginRecord) < BeginToRead /\ Len(beginRecord') = BeginToRead
      THEN beginRecordChan' = Append(beginRecordChan, BeginLen)
      ELSE beginRecordChan' = beginRecordChan
  BY <1>1, <1>3, <1>4, <1>5
<1>8. /\ b \in 0..n /\ Len(beginRecord) + b <= BeginToRead
      /\ b < n => Len(beginRecord) + b = BeginToRead
  BY <1>1, <1>2, <1>4
<1> HIDE DEF nMissing
<1> QED BY <1>3, <1>4, <1>5, <1>6, <1>7, <1>8

(* What goes into the pipe in one step of r.w.Write.                       *)
LEMMA PipeTakes ==
  ASSUME TypeOK, PipeWrite
  PROVE  \E m \in Nat :
           /\ m <= Len(buf) /\ Len(pipe) + m <= PipeCap
           /\ pipe' = pipe \o SubSeq(buf, 1, m)
           /\ buf' = SubSeq(buf, m + 1, Len(buf))
           /\ pipe' \in Seq(Nat) /\ Len(pipe') = Len(pipe) + m
           /\ buf' \in Seq(Nat) /\ Len(buf') = Len(buf) - m
<1> DEFINE m == Min2(Len(buf), PipeCap - Len(pipe))
<1>1. /\ Len(buf) \in Nat /\ Len(pipe) \in Nat /\ PipeCap \in Nat
      /\ buf \in Seq(Nat) /\ pipe \in Seq(Nat) /\ Len(pipe) <= PipeCap
  BY LenProperties, ReceiveAssumption DEF TypeOK
<1>2. m \in Nat /\ m <= Len(buf) /\ Len(pipe) + m <= PipeCap
  BY <1>1 DEF Min2
<1>3. pipe' = pipe \o SubSeq(buf, 1, m) /\ buf' = SubSeq(buf, m + 1, Len(buf))
  BY DEF PipeWrite
<1> HIDE DEF m
<1>4. /\ pipe' \in Seq(Nat) /\ Len(pipe') = Len(pipe) + m
      /\ buf' \in Seq(Nat) /\ Len(buf') = Len(buf) - m
  BY <1>1, <1>2, <1>3, SplitType, ConcatProperties
<1> QED BY <1>2, <1>3, <1>4

LEMMA ReceiveInitIInv == Init => IInv
<1> SUFFICES ASSUME Init PROVE IInv
  OBVIOUS
<1>1. dst \in DstSizes
  BY DEF Init, DstSizes, InitialDst
<1>2. /\ preset \in BOOLEAN /\ written \in Nat
      /\ pipe \in Seq(Nat) /\ Len(pipe) = 0 /\ Len(errorChan) = 0
      /\ beginRecord \in Seq(Nat) /\ Len(beginRecord) = 0 /\ buf \in Seq(Nat)
      /\ beginRecordChan \in Seq({0, BeginLen}) /\ Len(beginRecordChan) = 0
      /\ errorChan \in Seq(Verdicts) /\ consumed \in Seq(Nat)
  BY ReceiveAssumption DEF Init
<1>3. TypeOK
  BY <1>1, <1>2, ReceiveAssumption DEF Init, TypeOK, BeginToRead
<1>4. RecordInv
  BY <1>2, ReceiveAssumption DEF Init, RecordInv, Pending, Full, Waiting
<1>5. VerdictInv
  BY DEF Init, VerdictInv
<1> QED BY <1>3, <1>4, <1>5 DEF IInv

(* Every step keeps the types. *)
LEMMA ReceiveTypeStep == IInv /\ [Next]_vars => TypeOK'
<1> SUFFICES ASSUME TypeOK, VerdictInv, [Next]_vars PROVE TypeOK'
  BY DEF IInv
<1> USE ReceiveAssumption DEF TypeOK, BeginToRead, ioVars, callerVars, goVars, kernelVars
<1>1. ASSUME NEW n \in 0..MaxWrite, Write(n) PROVE TypeOK'
  <2>0. n \in Nat
    OBVIOUS
  <2>1. /\ beginRecord' \in Seq(Nat) /\ Len(beginRecord') <= BeginToRead
        /\ buf' \in Seq(Nat) /\ written' \in Nat
    BY <1>1, <2>0, WriteSplits
  <2>2. beginRecordChan' \in Seq({0, BeginLen}) /\ Len(beginRecordChan') <= 2
    <3> DEFINE V == {0, BeginLen}
    <3>1. beginRecordChan \in Seq(V) /\ BeginLen \in V /\ Len(beginRecordChan) \in Nat
      BY LenProperties
    <3>2. CASE beginRecordChan' = beginRecordChan
      BY <3>2
    <3>3. CASE Len(beginRecordChan) < 2 /\ beginRecordChan' = Append(beginRecordChan, BeginLen)
      <4> HIDE DEF V
      <4>1. beginRecordChan' \in Seq(V) /\ Len(beginRecordChan') = Len(beginRecordChan) + 1
        BY <3>1, <3>3, AppendProperties
      <4> QED BY <3>1, <3>3, <4>1 DEF V
    <3> QED BY <1>1, <3>2, <3>3 DEF Write
  <2> QED BY <1>1, <2>1, <2>2 DEF Write
<1>2. CASE WriteRefused
  BY <1>2 DEF WriteRefused, vars
<1>3. CASE WaitAndClose
  <2>1. beginRecordChan' \in Seq({0, BeginLen}) /\ Len(beginRecordChan') <= 2
    BY <1>3, AppendProperties, LenProperties DEF WaitAndClose
  <2> QED BY <1>3, <2>1 DEF WaitAndClose
<1>4. CASE PipeWrite
  <2>1. pipe' \in Seq(Nat) /\ Len(pipe') <= PipeCap /\ buf' \in Seq(Nat)
    BY <1>4, PipeTakes
  <2> QED BY <1>4, <2>1, SMTT(30) DEF PipeWrite
<1>5. CASE PipeBroken
  BY <1>5 DEF PipeBroken
<1>6. CASE WaitEnds
  <2>1. /\ Head(errorChan) \in Verdicts
        /\ errorChan' \in Seq(Verdicts) /\ Len(errorChan') <= 1
    BY <1>6, HeadTailProperties, LenProperties DEF WaitEnds
  <2> QED BY <1>6, <2>1 DEF WaitEnds
<1>7. CASE KernelRead
  <2>1. /\ Head(pipe) \in Nat /\ pipe' \in Seq(Nat) /\ Len(pipe') <= PipeCap
        /\ consumed' \in Seq(Nat)
    <3>1. /\ Head(pipe) \in Nat /\ pipe' \in Seq(Nat) /\ Len(pipe') = Len(pipe) - 1
          /\ Len(pipe) \in Nat
      BY <1>7, HeadTailProperties, LenProperties DEF KernelRead
    <3> QED BY <1>7, <3>1, AppendProperties DEF KernelRead
  <2> QED BY <1>7, <2>1 DEF KernelRead
<1>8. CASE KernelAnswers
  BY <1>8 DEF KernelAnswers, Verdict, Verdicts
<1>9. CASE GoPanics
  BY <1>9 DEF GoPanics
<1>10. CASE KernelRejects
  BY <1>10 DEF KernelRejects, Verdict, Verdicts
<1>11. CASE KernelNoMem
  <2>1. CASE Exhausted(dst)
    BY <1>11, <2>1 DEF KernelNoMem, Verdict, Verdicts
  <2>2. CASE ~Exhausted(dst)
    BY <1>11, <2>2, DstGrows DEF KernelNoMem
  <2> QED BY <2>1, <2>2
<1>12. CASE GoGetsRecord
  <2>1. beginRecordChan' \in Seq({0, BeginLen}) /\ Len(beginRecordChan') <= 2
    BY <1>12, HeadTailProperties, LenProperties DEF GoGetsRecord
  <2> QED BY <1>12, <2>1 DEF GoGetsRecord, Verdict, Verdicts
<1>13. CASE GoReports \/ GoCloses
  <2>1. CASE GoReports
    <3>1. gerr \in Verdicts
      BY <2>1 DEF GoReports, VerdictInv
    <3>2. errorChan' \in Seq(Verdicts) /\ Len(errorChan') = Len(errorChan) + 1
      BY <2>1, <3>1, AppendProperties DEF GoReports
    <3> QED BY <2>1, <3>2, LenProperties DEF GoReports
  <2>2. CASE GoCloses
    BY <2>2 DEF GoCloses
  <2> QED BY <1>13, <2>1, <2>2
<1>14. CASE UNCHANGED vars
  BY <1>14 DEF vars
<1> QED
  BY <1>1, <1>2, <1>3, <1>4, <1>5, <1>6, <1>7, <1>8, <1>9, <1>10, <1>11, <1>12, <1>13, <1>14,
     SMTT(30)
  DEF Next, Caller, Blocked, KernelRuns, Go

(* Every step keeps what RecordInv says of the begin record. *)
LEMMA RecordStep == IInv /\ [Next]_vars => RecordInv'
<1> SUFFICES ASSUME TypeOK, RecordInv, VerdictInv, [Next]_vars PROVE RecordInv'
  BY DEF IInv
<1>t. /\ preset \in BOOLEAN /\ BeginLen \in Nat /\ BeginLen # 0
      /\ beginRecord \in Seq(Nat) /\ Len(beginRecord) \in Nat
      /\ Len(beginRecord) <= BeginToRead /\ written \in Nat
  BY ReceiveAssumption, LenProperties DEF TypeOK
<1> USE DEF ioVars, callerVars, goVars, kernelVars
<1>same. ASSUME UNCHANGED <<preset, beginRecord, beginRecordChan, written, buf>>,
                gpc # "begin", gpc' # "begin", Waiting' = Waiting,
                gerr' = gerr \/ (gerr # "short" /\ gerr' # "short")
         PROVE  RecordInv'
  BY <1>same DEF RecordInv, Pending, Full
<1>1. ASSUME NEW n \in 0..MaxWrite, Write(n) PROVE RecordInv'
  <2>0. n \in Nat
    BY ReceiveAssumption
  <2>1. PICK b \in 0..n :
          /\ Len(beginRecord) + b <= BeginToRead
          /\ b < n => Len(beginRecord) + b = BeginToRead
          /\ beginRecord' \in Seq(Nat) /\ Len(beginRecord') = Len(beginRecord) + b
          /\ buf' \in Seq(Nat) /\ Len(buf') = n - b
          /\ written' = written + n
          /\ IF Len(beginRecord) < BeginToRead /\ Len(beginRecord') = BeginToRead
             THEN beginRecordChan' = Append(beginRecordChan, BeginLen)
             ELSE beginRecordChan' = beginRecordChan
    BY <1>1, <2>0, WriteSplits
  <2>2. ~Waiting /\ ~Waiting' /\ UNCHANGED <<preset, gpc, gerr>>
    BY <1>1 DEF Write, Waiting
  <2>3. CASE preset
    BY <1>t, <2>1, <2>2, <2>3 DEF RecordInv, Pending, Full, BeginToRead
  <2>4. CASE ~preset /\ Full
    <3>1. b = 0
      BY <1>t, <2>1, <2>4 DEF Full, BeginToRead
    <3>2. Full' /\ beginRecordChan' = beginRecordChan
      BY <1>t, <2>1, <2>2, <2>4, <3>1 DEF Full, BeginToRead
    <3> QED BY <1>t, <2>0, <2>1, <2>2, <2>4, <3>2 DEF RecordInv, Pending
  <2>5. CASE ~preset /\ ~Full
    <3>1. gpc = "begin" /\ beginRecordChan = <<>> /\ written = Len(beginRecord)
      BY <2>2, <2>5 DEF RecordInv, Pending
    <3>2. CASE Full'
      <4>1. beginRecordChan' = <<BeginLen>>
        <5>1. Len(beginRecord) < BeginToRead /\ Len(beginRecord') = BeginToRead
          BY <1>t, <2>5, <2>2, <3>2 DEF Full, BeginToRead
        <5>2. beginRecordChan' = Append(<<>>, BeginLen)
          BY <2>1, <3>1, <5>1, SMTT(30)
        <5> QED BY <5>2
      <4>2. written' >= BeginLen
        BY <1>t, <2>0, <2>1, <2>2, <3>1, <3>2 DEF Full
      <4> QED BY <2>2, <2>5, <3>1, <3>2, <4>1, <4>2 DEF RecordInv, Pending
    <3>3. CASE ~Full'
      <4>1. beginRecordChan' = <<>> /\ b = n
        BY <1>t, <2>0, <2>1, <2>2, <2>5, <3>1, <3>3 DEF Full, BeginToRead
      <4>2. written' = Len(beginRecord') /\ buf' = <<>>
        BY <1>t, <2>0, <2>1, <3>1, <4>1, EmptySeq
      <4> QED BY <2>2, <3>1, <3>3, <4>1, <4>2 DEF RecordInv, Pending
    <3> QED BY <3>2, <3>3
  <2> QED BY <2>3, <2>4, <2>5
<1>2. CASE WriteRefused
  BY <1>2 DEF WriteRefused, vars, RecordInv, Pending, Full, Waiting
<1>3. CASE WaitAndClose
  <2>1. /\ ~Waiting /\ Waiting' /\ UNCHANGED <<preset, beginRecord, gpc, gerr, written, buf>>
        /\ beginRecordChan' = Append(beginRecordChan, 0) /\ Full' = Full
    BY <1>3 DEF WaitAndClose, Waiting, Full
  <2>2. gpc # "begin" => Full
    BY <2>1 DEF RecordInv
  <2>3. beginRecordChan' = Pending'
    BY <2>1, <2>2 DEF RecordInv, Pending
  <2> QED BY <2>1, <2>3 DEF RecordInv
<1>4. CASE PipeWrite
  <2>1. buf = <<>> => buf' = <<>>
    <3>1. PICK m \in Nat : m <= Len(buf) /\ buf' \in Seq(Nat) /\ Len(buf') = Len(buf) - m
      BY <1>4, PipeTakes
    <3> QED BY <3>1, EmptySeq
  <2>2. ~Waiting /\ ~Waiting'
    BY <1>4 DEF PipeWrite, Waiting
  <2> QED BY <1>4, <2>1, <2>2 DEF PipeWrite, RecordInv, Pending, Full
<1>5. CASE PipeBroken
  BY <1>5 DEF PipeBroken, RecordInv, Pending, Full, Waiting
<1>6. CASE WaitEnds
  BY <1>6 DEF WaitEnds, RecordInv, Pending, Full, Waiting
<1>7. CASE KernelRead
  BY <1>7, <1>same DEF KernelRead, Waiting
<1>8. CASE KernelAnswers
  BY <1>8, <1>same DEF KernelAnswers, Verdict, VerdictInv, Waiting
<1>9. CASE GoPanics
  BY <1>9, <1>same DEF GoPanics, Waiting
<1>10. CASE KernelRejects
  BY <1>10, <1>same DEF KernelRejects, Verdict, VerdictInv, Waiting
<1>11. CASE KernelNoMem
  BY <1>11, <1>same DEF KernelNoMem, Verdict, VerdictInv, Waiting
<1>12. CASE GoGetsRecord
  <2>1. /\ UNCHANGED <<preset, beginRecord, cpc, written, buf>>
        /\ Full' = Full /\ Waiting' = Waiting
        /\ gpc = "begin" /\ gerr = "none" /\ gpc' # "begin"
    BY <1>12 DEF GoGetsRecord, Verdict, Full, Waiting, VerdictInv
  <2>2. CASE Full
    <3>1. RecordReceived = BeginLen /\ beginRecordChan # <<>>
      BY <2>1, <2>2 DEF RecordInv, Pending, RecordReceived
    <3>2. Tail(beginRecordChan) = IF Waiting THEN <<0>> ELSE <<>>
      BY <2>1, <2>2 DEF RecordInv, Pending
    <3> QED BY <1>12, <2>1, <2>2, <3>1, <3>2 DEF GoGetsRecord, RecordInv, Pending
  <2>3. CASE ~Full
    <3>1. Waiting /\ beginRecordChan = <<0>>
      BY <1>12, <2>1, <2>3 DEF GoGetsRecord, RecordInv, Pending, Waiting
    <3>2. RecordReceived # BeginLen /\ beginRecordChan' = <<>>
      BY <1>t, <1>12, <3>1 DEF GoGetsRecord, RecordReceived
    <3> QED BY <1>12, <2>1, <2>3, <3>1, <3>2 DEF GoGetsRecord, Verdict, RecordInv, Pending
  <2> QED BY <2>2, <2>3
<1>13. CASE GoReports \/ GoCloses
  BY <1>13, <1>same DEF GoReports, GoCloses, Waiting
<1>14. CASE UNCHANGED vars
  BY <1>14 DEF vars, RecordInv, Pending, Full, Waiting
<1> QED
  BY <1>1, <1>2, <1>3, <1>4, <1>5, <1>6, <1>7, <1>8, <1>9, <1>10, <1>11, <1>12, <1>13, <1>14
  DEF Next, Caller, Blocked, KernelRuns, Go

(* Every step keeps the verdict where VerdictInv says it is. *)
LEMMA VerdictStep == IInv /\ [Next]_vars => VerdictInv'
<1> SUFFICES ASSUME TypeOK, RecordInv, VerdictInv, [Next]_vars PROVE VerdictInv'
  BY DEF IInv
<1> USE DEF VerdictInv, ioVars, callerVars, goVars, kernelVars
<1>1. ASSUME NEW n \in 0..MaxWrite, Write(n) PROVE VerdictInv'
  BY <1>1 DEF Write
<1>2. CASE WriteRefused
  BY <1>2 DEF WriteRefused, vars
<1>3. CASE WaitAndClose
  BY <1>3 DEF WaitAndClose
<1>4. CASE PipeWrite
  BY <1>4 DEF PipeWrite
<1>5. CASE PipeBroken
  BY <1>5 DEF PipeBroken
<1>6. CASE WaitEnds
  <2>1. gpc \in {"close", "done"} /\ errorChan = <<gerr>>
    BY <1>6 DEF WaitEnds, TypeOK
  <2>2. Head(errorChan) = gerr /\ Tail(errorChan) = <<>>
    BY <2>1
  <2> QED BY <1>6, <2>1, <2>2 DEF WaitEnds
<1>7. CASE KernelRead
  BY <1>7 DEF KernelRead
<1>8. CASE KernelAnswers
  BY <1>8 DEF KernelAnswers, Verdict
<1>9. CASE GoPanics
  BY <1>9 DEF GoPanics
<1>10. CASE KernelRejects
  BY <1>10 DEF KernelRejects, Verdict
<1>11. CASE KernelNoMem
  BY <1>11 DEF KernelNoMem, Verdict
<1>12. CASE GoGetsRecord
  BY <1>12 DEF GoGetsRecord, Verdict
<1>13. CASE GoReports \/ GoCloses
  <2>1. CASE GoReports
    <3>1. errorChan' = Append(<<>>, gerr) /\ cpc' # "returned" /\ result' = "none"
      BY <2>1 DEF GoReports
    <3>2. errorChan' = <<gerr>>
      BY <3>1
    <3> QED BY <2>1, <3>1, <3>2 DEF GoReports
  <2>2. CASE GoCloses
    BY <2>2 DEF GoCloses
  <2> QED BY <1>13, <2>1, <2>2
<1>14. CASE UNCHANGED vars
  BY <1>14 DEF vars
<1> QED
  BY <1>1, <1>2, <1>3, <1>4, <1>5, <1>6, <1>7, <1>8, <1>9, <1>10, <1>11, <1>12, <1>13, <1>14
  DEF Next, Caller, Blocked, KernelRuns, Go

LEMMA ReceiveIInv == Spec => []IInv
<1>1. IInv /\ [Next]_vars => IInv'
  BY ReceiveTypeStep, RecordStep, VerdictStep DEF IInv
<1> QED BY <1>1, ReceiveInitIInv, PTL DEF Spec

-----------------------------------------------------------------------------
(* Receive, Write, WaitAndClose and the goroutine keep the types of their  *)
(* variables; in particular neither channel is overfilled, and at most     *)
(* the begin record's length is collected in beginRecord.                  *)
THEOREM ReceiveTypeCorrect == Spec => []TypeOK
<1>1. IInv => TypeOK
  BY DEF IInv
<1> QED BY <1>1, ReceiveIInv, PTL

(* A failing Write means that the verdict has been delivered and that      *)
(* WaitAndClose returns it.                                                *)
THEOREM ReceiveWriteErrorHasVerdict == Spec => []WriteErrorHasVerdict
<1>1. IInv => WriteErrorHasVerdict
  BY DEF IInv, VerdictInv, WriteErrorHasVerdict
<1> QED BY <1>1, ReceiveIInv, PTL

(* beginRecordChan, made with room for two, and errorChan, with room for   *)
(* one, never block their senders.                                         *)
THEOREM ReceiveSendsNeverBlock == Spec => []SendsNeverBlock
<1>1. ASSUME IInv PROVE SendsNeverBlock
  <2>1. cpc = "idle" => beginRecordChan = <<BeginLen>> \/ beginRecordChan = <<>>
    BY <1>1 DEF IInv, RecordInv, Pending, Waiting
  <2>2. cpc = "idle" => Len(beginRecordChan) < 2
    BY <2>1
  <2>3. gpc = "report" => errorChan = <<>>
    BY <1>1 DEF IInv, VerdictInv
  <2> QED BY <2>2, <2>3 DEF SendsNeverBlock
<1> QED BY <1>1, ReceiveIInv, PTL

(* "Not enough data received for BeginRecord" is reported only to a caller *)
(* that wrote less than a record, or that had set ReceiveOpts.BeginRecord. *)
THEOREM ReceiveShortOnlyIfShort == Spec => []ShortOnlyIfShort
<1>1. ASSUME IInv PROVE ShortOnlyIfShort
  <2> SUFFICES ASSUME gerr = "short", ~preset PROVE written < BeginLen
    BY <1>1, ReceiveAssumption DEF IInv, TypeOK, ShortOnlyIfShort
  <2>1. ~Full /\ written = Len(beginRecord)
    BY <1>1 DEF IInv, RecordInv
  <2>2. Len(beginRecord) \in Nat /\ Len(beginRecord) <= BeginLen /\ BeginLen \in Nat
    BY <1>1, LenProperties, ReceiveAssumption DEF IInv, TypeOK, BeginToRead
  <2> QED BY <2>1, <2>2 DEF Full
<1> QED BY <1>1, ReceiveIInv, PTL

-----------------------------------------------------------------------------
(* The bytes. *)
LEMMA RunSplit ==
  ASSUME NEW s \in Seq(Nat), NEW k \in Nat, Run(s, k), NEW n \in Nat, n <= Len(s)
  PROVE  Run(SubSeq(s, 1, n), k) /\ Run(SubSeq(s, n + 1, Len(s)), k + n)
<1>1. Len(s) \in Nat /\ \A i \in 1..Len(s) : s[i] = k + i
  BY LenProperties DEF Run
<1>2. /\ Len(SubSeq(s, 1, n)) = n
      /\ \A i \in 1..n : SubSeq(s, 1, n)[i] = s[i]
  BY <1>1, SubSeqProperties
<1>3. /\ Len(SubSeq(s, n + 1, Len(s))) = Len(s) - n
      /\ \A i \in 1..(Len(s) - n) : SubSeq(s, n + 1, Len(s))[i] = s[n + i]
  BY <1>1, SubSeqProperties
<1>4. Run(SubSeq(s, 1, n), k)
  BY <1>1, <1>2 DEF Run
<1>5. Run(SubSeq(s, n + 1, Len(s)), k + n)
  BY <1>1, <1>3 DEF Run
<1> QED BY <1>4, <1>5

LEMMA RunConcat ==
  ASSUME NEW r \in Seq(Nat), NEW s \in Seq(Nat), NEW k \in Nat,
         Run(r, k), Run(s, k + Len(r))
  PROVE  /\ Run(r \o s, k) /\ Len(r \o s) = Len(r) + Len(s)
         /\ r \o s \in Seq(Nat)
<1>1. Len(r) \in Nat /\ Len(s) \in Nat
  BY LenProperties
<1>2. /\ r \o s \in Seq(Nat) /\ Len(r \o s) = Len(r) + Len(s)
      /\ \A i \in 1..(Len(r) + Len(s)) :
            (r \o s)[i] = IF i <= Len(r) THEN r[i] ELSE s[i - Len(r)]
  BY ConcatProperties
<1>3. ASSUME NEW i \in 1..(Len(r) + Len(s)) PROVE (r \o s)[i] = k + i
  <2>1. CASE i <= Len(r)
    BY <1>1, <1>2, <2>1 DEF Run
  <2>2. CASE i > Len(r)
    <3>1. i - Len(r) \in 1..Len(s)
      BY <1>1, <2>2
    <3> QED BY <1>1, <1>2, <2>2, <3>1 DEF Run
  <2> QED BY <1>1, <2>1, <2>2
<1> QED BY <1>2, <1>3 DEF Run

LEMMA RunIsPrefix ==
  ASSUME NEW r \in Seq(Nat), Run(r, 0)
  PROVE  r = Transfer!Prefix(Len(r))
<1>1. Len(r) \in Nat /\ r = [i \in 1..Len(r) |-> r[i]]
  BY LenProperties
<1>2. \A i \in 1..Len(r) : r[i] = i
  BY <1>1 DEF Run
<1> QED BY <1>1, <1>2 DEF Transfer!Prefix

LEMMA ReceiveDataInit == Init => DataInv
BY ReceiveAssumption DEF Init, DataInv, Run, Full

(* Write keeps the bytes in order. *)
LEMMA WriteKeepsOrder ==
  ASSUME IInv, DataInv, NEW n \in 0..MaxWrite, Write(n)
  PROVE  DataInv'
<1>0. n \in Nat
  BY ReceiveAssumption
<1>1. PICK b \in 0..n :
        /\ Len(beginRecord) + b <= BeginToRead
        /\ b < n => Len(beginRecord) + b = BeginToRead
        /\ beginRecord' = beginRecord \o Bytes(written, b)
        /\ beginRecord' \in Seq(Nat) /\ Len(beginRecord') = Len(beginRecord) + b
        /\ buf' = Bytes(written + b, n - b)
        /\ buf' \in Seq(Nat) /\ Len(buf') = n - b
        /\ written' = written + n
  BY <1>0, WriteSplits DEF IInv
<1>2. /\ preset \in BOOLEAN /\ BeginLen \in Nat /\ StreamLen \in Nat
      /\ beginRecord \in Seq(Nat) /\ Len(beginRecord) \in Nat
      /\ Len(consumed) \in Nat /\ Len(pipe) \in Nat /\ written \in Nat
      /\ b \in Nat /\ n - b \in Nat /\ written + b \in Nat
  BY <1>0, ReceiveAssumption, LenProperties DEF IInv, TypeOK
<1>3. /\ UNCHANGED <<preset, consumed, pipe, lastError, gpc>>
      /\ cpc = "idle" /\ lastError = "none" /\ (cpc' # "write" => buf' = <<>>)
  BY DEF Write, ioVars, kernelVars, goVars
<1>4. Run(beginRecord, 0) /\ Run(Bytes(written, b), written) /\ Run(buf', written + b)
  BY <1>1, <1>2, BytesProperties DEF DataInv
<1>w. /\ written' = written + n /\ Len(buf') = n - b
      /\ Len(beginRecord') = Len(beginRecord) + b
  BY <1>1
<1>5. CASE preset
  <2>1. Len(beginRecord') = 0
    BY <1>1, <1>2, <1>5 DEF BeginToRead
  <2>2. Run(beginRecord', 0)
    BY <2>1 DEF Run
  <2>3. ~Full /\ ~Full'
    BY <1>3, <1>5 DEF Full
  <2> QED BY <1>3, <1>5, <2>2, <2>3 DEF DataInv
<1>6. CASE ~preset /\ Full
  <2>1. b = 0 /\ Len(beginRecord') = BeginLen /\ Full'
    BY <1>1, <1>2, <1>3, <1>6 DEF Full, BeginToRead
  <2>2. Run(beginRecord', 0)
    <3>1. Bytes(written, b) \in Seq(Nat) /\ Len(Bytes(written, b)) = 0
      BY <1>2, <2>1, BytesProperties
    <3>2. Run(Bytes(written, b), 0 + Len(beginRecord))
      BY <3>1 DEF Run
    <3> QED BY <1>1, <1>2, <1>4, <3>1, <3>2, RunConcat
  <2>3. written = BeginLen + Len(consumed) + Len(pipe)
    BY <1>2, <1>3, <1>6 DEF DataInv
  <2>4. Run(buf', BeginLen + Len(consumed) + Len(pipe))
    BY <1>2, <1>4, <2>1, <2>3
  <2>5. written' = BeginLen + Len(consumed) + Len(pipe) + Len(buf')
    BY <1>0, <1>2, <1>w, <2>1, <2>3
  <2> QED BY <1>3, <1>6, <2>1, <2>2, <2>4, <2>5 DEF DataInv
<1>7. CASE ~preset /\ ~Full
  <2>1. gpc = "begin" /\ consumed = <<>> /\ pipe = <<>> /\ written = Len(beginRecord)
    BY <1>3, <1>7 DEF IInv, RecordInv, DataInv, Waiting
  <2>2. Run(beginRecord', 0)
    <3>1. Bytes(written, b) \in Seq(Nat) /\ Run(Bytes(written, b), 0 + Len(beginRecord))
      BY <1>2, <1>4, <2>1, BytesProperties
    <3> QED BY <1>1, <1>2, <1>4, <3>1, RunConcat
  <2>3. Len(consumed) = 0 /\ Len(pipe) = 0
    BY <2>1
  <2>4. Run(buf', BeginLen)
    <3>1. CASE b < n
      BY <1>1, <1>2, <1>4, <1>7, <2>1, <3>1 DEF BeginToRead
    <3>2. CASE b = n
      BY <1>1, <1>2, <3>2 DEF Run
    <3> QED BY <1>0, <3>1, <3>2
  <2>5. Full' => written' = BeginLen + Len(buf')
    BY <1>0, <1>2, <1>w, <2>1 DEF Full
  <2>6. Run(pipe, BeginLen) /\ Run(consumed, BeginLen)
    BY <2>3 DEF Run
  <2>7. BeginLen + Len(consumed) = BeginLen /\ BeginLen + Len(consumed) + Len(pipe) = BeginLen
    BY <1>2, <2>3
  <2> QED BY <1>2, <1>3, <1>7, <2>1, <2>2, <2>4, <2>5, <2>6, <2>7 DEF DataInv
<1> QED BY <1>2, <1>5, <1>6, <1>7

(* The pipe takes the bytes in the order they were written. *)
LEMMA PipeKeepsOrder ==
  ASSUME IInv, DataInv, PipeWrite
  PROVE  DataInv'
<1>1. PICK m \in Nat :
        /\ m <= Len(buf)
        /\ pipe' = pipe \o SubSeq(buf, 1, m)
        /\ buf' = SubSeq(buf, m + 1, Len(buf))
        /\ pipe' \in Seq(Nat) /\ Len(pipe') = Len(pipe) + m
        /\ buf' \in Seq(Nat) /\ Len(buf') = Len(buf) - m
  BY PipeTakes DEF IInv
<1>2. /\ BeginLen \in Nat /\ Len(consumed) \in Nat /\ Len(pipe) \in Nat
      /\ Len(buf) \in Nat /\ pipe \in Seq(Nat) /\ buf \in Seq(Nat)
  BY ReceiveAssumption, LenProperties DEF IInv, TypeOK
<1>3. /\ UNCHANGED <<preset, beginRecord, consumed, lastError, gpc, written>>
      /\ Full' = Full /\ (cpc' # "write" => buf' = <<>>)
  BY DEF PipeWrite, kernelVars, goVars, Full
<1>w. m <= Len(buf) /\ Len(pipe') = Len(pipe) + m /\ Len(buf') = Len(buf) - m
  BY <1>1
<1>4. CASE preset
  BY <1>3, <1>4 DEF DataInv
<1>5. CASE ~preset
  <2> DEFINE k == BeginLen + Len(consumed)
  <2>1. k \in Nat /\ Run(pipe, k) /\ Run(buf, k + Len(pipe)) /\ k + Len(pipe) \in Nat
    BY <1>2, <1>5 DEF DataInv
  <2> HIDE DEF k
  <2>2. Run(SubSeq(buf, 1, m), k + Len(pipe)) /\ Run(buf', (k + Len(pipe)) + m)
    BY <1>1, <1>2, <2>1, RunSplit
  <2>3. Run(pipe', k) /\ Run(buf', k + Len(pipe'))
    <3>1. SubSeq(buf, 1, m) \in Seq(Nat)
      BY <1>1, <1>2, SplitType
    <3>2. Run(pipe', k)
      BY <1>1, <1>2, <2>1, <2>2, <3>1, RunConcat
    <3>3. (k + Len(pipe)) + m = k + Len(pipe')
      BY <1>2, <1>w, <2>1
    <3> QED BY <2>2, <3>2, <3>3
  <2>4. ~Full => pipe' = <<>>
    <3>1. ~Full => Len(buf) = 0 /\ Len(pipe) = 0
      BY <1>5 DEF IInv, RecordInv, DataInv
    <3> QED BY <1>1, <3>1, EmptySeq
  <2>5. Full /\ lastError = "none" =>
          written = BeginLen + Len(consumed) + Len(pipe') + Len(buf')
    <3>1. /\ Len(pipe') + Len(buf') = Len(pipe) + Len(buf)
          /\ Len(pipe') \in Nat /\ Len(buf') \in Nat
      BY <1>2, <1>w
    <3>2. Full /\ lastError = "none" =>
            written = BeginLen + Len(consumed) + Len(pipe) + Len(buf)
      BY <1>5 DEF DataInv
    <3> QED BY <1>2, <3>1, <3>2, SMTT(30)
  <2> QED BY <1>3, <1>5, <2>3, <2>4, <2>5 DEF DataInv, k
<1> QED BY <1>4, <1>5

(* The kernel reads the next byte of the stream. *)
LEMMA KernelReadsNext ==
  ASSUME IInv, DataInv, KernelRead
  PROVE  /\ Full /\ DataInv'
         /\ consumed' \in Seq(Nat) /\ Len(consumed') = Len(consumed) + 1
<1>1. /\ BeginLen \in Nat /\ Len(consumed) \in Nat /\ Len(pipe) \in Nat /\ StreamLen \in Nat
      /\ Len(buf) \in Nat /\ pipe \in Seq(Nat) /\ consumed \in Seq(Nat)
  BY ReceiveAssumption, LenProperties DEF IInv, TypeOK
<1>2. Full /\ ~preset
  BY DEF KernelRead, IInv, RecordInv, VerdictInv, Full
<1>3. /\ UNCHANGED <<preset, beginRecord, lastError, gpc, written, buf, cpc>>
      /\ Full' = Full
  BY DEF KernelRead, callerVars, goVars, Full
<1>4. /\ Len(pipe) > 0 /\ Head(pipe) = pipe[1] /\ Head(pipe) \in Nat
      /\ Len(pipe') = Len(pipe) - 1
      /\ \A i \in 1..(Len(pipe) - 1) : pipe'[i] = pipe[i + 1]
  BY <1>1, EmptySeq, HeadTailProperties, ElementOfSeq DEF KernelRead
<1>5. /\ consumed' \in Seq(Nat) /\ Len(consumed') = Len(consumed) + 1
      /\ consumed'[Len(consumed) + 1] = pipe[1]
      /\ \A i \in 1..Len(consumed) : consumed'[i] = consumed[i]
  BY <1>1, <1>4, AppendProperties DEF KernelRead
<1>6. pipe[1] = BeginLen + Len(consumed) + 1
  BY <1>1, <1>2, <1>4 DEF DataInv, Run
<1>7. Run(consumed', BeginLen)
  <2> SUFFICES ASSUME NEW i \in 1..(Len(consumed) + 1) PROVE consumed'[i] = BeginLen + i
    BY <1>5 DEF Run
  <2>1. CASE i \in 1..Len(consumed)
    BY <1>2, <1>5, <2>1 DEF DataInv, Run
  <2>2. CASE i = Len(consumed) + 1
    BY <1>1, <1>5, <1>6, <2>2
  <2> QED BY <1>1, <2>1, <2>2
<1>8. Run(pipe', BeginLen + Len(consumed'))
  <2> SUFFICES ASSUME NEW i \in 1..(Len(pipe) - 1)
               PROVE  pipe'[i] = BeginLen + Len(consumed') + i
    BY <1>4 DEF Run
  <2>1. i + 1 \in 1..Len(pipe)
    BY <1>1
  <2>2. pipe[i + 1] = BeginLen + Len(consumed) + (i + 1)
    BY <1>2, <2>1 DEF DataInv, Run
  <2> QED BY <1>1, <1>4, <1>5, <2>2
<1>9. BeginLen + Len(consumed') + Len(pipe') = BeginLen + Len(consumed) + Len(pipe)
  BY <1>1, <1>4, <1>5
<1>10. BeginLen + Len(consumed') <= StreamLen
  BY <1>1, <1>5 DEF KernelRead
<1>11. gpc' # "begin"
  BY <1>3 DEF KernelRead
<1>12. DataInv'
  BY <1>2, <1>3, <1>7, <1>8, <1>9, <1>10, <1>11 DEF DataInv
<1> QED BY <1>2, <1>5, <1>12

(* Every step keeps the bytes in order, when no ENOMEM follows input.      *)
LEMMA ReceiveDataStep ==
  ASSUME ~LateENOMEM, IInv, DataInv, [Next]_vars
  PROVE  DataInv'
<1> USE DEF ioVars, callerVars, goVars, kernelVars, Full
<1>1. ASSUME NEW n \in 0..MaxWrite, Write(n) PROVE DataInv'
  BY <1>1, WriteKeepsOrder
<1>2. CASE WriteRefused
  BY <1>2 DEF WriteRefused, vars, DataInv
<1>3. CASE WaitAndClose
  BY <1>3 DEF WaitAndClose, DataInv
<1>4. CASE PipeWrite
  BY <1>4, PipeKeepsOrder
<1>5. CASE PipeBroken
  BY <1>5 DEF PipeBroken, DataInv, Run
<1>6. CASE WaitEnds
  BY <1>6 DEF WaitEnds, DataInv
<1>7. CASE KernelRead
  BY <1>7, KernelReadsNext
<1>8. CASE KernelAnswers
  BY <1>8 DEF KernelAnswers, Verdict, DataInv
<1>9. CASE GoPanics
  BY <1>9 DEF GoPanics, DataInv
<1>10. CASE KernelRejects
  BY <1>10 DEF KernelRejects, Verdict, DataInv
<1>11. CASE KernelNoMem
  <2>1. consumed' = consumed /\ gpc' # "begin"
    BY <1>11 DEF KernelNoMem, Verdict
  <2> QED BY <1>11, <2>1 DEF KernelNoMem, DataInv
<1>12. CASE GoGetsRecord
  BY <1>12 DEF GoGetsRecord, Verdict, DataInv
<1>13. CASE GoReports \/ GoCloses
  BY <1>13 DEF GoReports, GoCloses, DataInv
<1>14. CASE UNCHANGED vars
  BY <1>14 DEF vars, DataInv
<1> QED
  BY <1>1, <1>2, <1>3, <1>4, <1>5, <1>6, <1>7, <1>8, <1>9, <1>10, <1>11, <1>12, <1>13, <1>14
  DEF Next, Caller, Blocked, KernelRuns, Go

LEMMA ReceiveDataInv ==
  ASSUME ~LateENOMEM
  PROVE  Spec => [](IInv /\ DataInv)
<1>1. Init => IInv /\ DataInv
  BY ReceiveInitIInv, ReceiveDataInit
<1>2. IInv /\ DataInv /\ [Next]_vars => IInv' /\ DataInv'
  BY ReceiveTypeStep, RecordStep, VerdictStep, ReceiveDataStep DEF IInv
<1> QED BY <1>1, <1>2, PTL DEF Spec

(* The record and what follows it are a prefix of the stream. *)
LEMMA RecordThenRest ==
  ASSUME NEW r \in Seq(Nat), NEW c \in Seq(Nat), Run(r, 0), Run(c, Len(r))
  PROVE  /\ r \o c = Transfer!Prefix(Len(r) + Len(c))
         /\ Len(r \o c) = Len(r) + Len(c)
<1>1. Run(c, 0 + Len(r))
  BY LenProperties
<1>2. /\ Run(r \o c, 0) /\ Len(r \o c) = Len(r) + Len(c) /\ r \o c \in Seq(Nat)
  BY <1>1, RunConcat
<1>3. r \o c = Transfer!Prefix(Len(r \o c))
  BY <1>2, RunIsPrefix
<1> QED BY <1>2, <1>3

(* Unless the kernel answers ENOMEM after input, the kernel gets the       *)
(* stream that is written to a ReceiveStream in order, begin record first, *)
(* and WaitAndClose reports success only for the whole of it: Receive      *)
(* implements SnapshotTransfer.                                            *)
THEOREM ReceiveRefinement ==
  ASSUME ~LateENOMEM
  PROVE  Spec => ImplementsTransfer
<1>1. Init => Transfer!Init
  BY DEF Init, Transfer!Init
<1>2. ASSUME IInv, DataInv, IInv', DataInv', [Next]_vars
      PROVE  [Transfer!Next]_Transfer!vars
  <2>t. /\ BeginLen \in Nat /\ BeginLen # 0 /\ StreamLen \in Nat /\ StreamLen >= BeginLen
        /\ beginRecord \in Seq(Nat) /\ consumed \in Seq(Nat)
        /\ beginRecord' \in Seq(Nat) /\ consumed' \in Seq(Nat)
        /\ Len(consumed) \in Nat
    BY <1>2, ReceiveAssumption, LenProperties DEF IInv, TypeOK
  <2>p. Full => /\ beginRecord \o consumed = Transfer!Prefix(BeginLen + Len(consumed))
                /\ Len(beginRecord \o consumed) = BeginLen + Len(consumed)
    <3>1. Full => /\ Run(beginRecord, 0) /\ Run(consumed, Len(beginRecord))
                  /\ Len(beginRecord) = BeginLen
      BY <1>2 DEF DataInv, Full
    <3> QED BY <2>t, <3>1, RecordThenRest
  <2>q. Full' => beginRecord' \o consumed' = Transfer!Prefix(BeginLen + Len(consumed'))
    BY <1>2, <2>t, RecordThenRest, ZenonT(30) DEF DataInv, Full
  <2> USE DEF ioVars, callerVars, goVars, kernelVars
  <2>s. ASSUME UNCHANGED <<beginRecord, consumed, result>>,
               gpc = "begin" <=> gpc' = "begin", gerr = "short" <=> gerr' = "short"
        PROVE  UNCHANGED Transfer!vars
    BY <2>s DEF Transfer!vars
  <2>1. ASSUME NEW n \in 0..MaxWrite, Write(n) PROVE UNCHANGED Transfer!vars
    <3>1. UNCHANGED <<gpc, gerr, consumed, result>> /\ cpc = "idle"
      BY <2>1 DEF Write
    <3>2. CASE gpc = "begin"
      BY <3>1, <3>2 DEF Transfer!vars
    <3>3. CASE gpc # "begin"
      <4>1. Full /\ Full'
        <5>1. Full
          BY <1>2, <3>1, <3>3 DEF IInv, RecordInv, Waiting
        <5>2. ~Full' => cpc' \in {"wait", "returned"}
          BY <1>2, <3>1, <3>3 DEF IInv, RecordInv, Waiting
        <5> QED BY <2>1, <5>1, <5>2 DEF Write
      <4> QED BY <2>p, <2>q, <3>1, <4>1 DEF Transfer!vars
    <3> QED BY <3>2, <3>3
  <2>2. CASE WriteRefused \/ WaitAndClose \/ PipeWrite \/ PipeBroken
    BY <2>2, <2>s DEF WriteRefused, WaitAndClose, PipeWrite, PipeBroken, vars
  <2>3. CASE WaitEnds
    <3>1. /\ gpc \in {"close", "done"} /\ result = "none" /\ result' = gerr
          /\ UNCHANGED <<beginRecord, consumed, gpc, gerr>>
          /\ gerr \in Verdicts
      BY <1>2, <2>3 DEF WaitEnds, IInv, TypeOK, VerdictInv
    <3>2. CASE gerr \in {"nil", "props"}
      <4>1. Full /\ BeginLen + Len(consumed) = StreamLen
        BY <1>2, <3>1, <3>2 DEF IInv, RecordInv, VerdictInv
      <4>2. Transfer!Complete
        BY <2>p, <3>1, <3>2, <4>1 DEF Transfer!Complete
      <4> QED BY <4>2 DEF Transfer!Next
    <3>3. CASE gerr \notin {"nil", "props"}
      <4>1. Transfer!Fail
        BY <3>1, <3>3 DEF Transfer!Fail, Verdicts
      <4> QED BY <4>1 DEF Transfer!Next
    <3> QED BY <3>2, <3>3
  <2>4. CASE KernelRead
    <3>1. /\ Full /\ Full' /\ gpc = "ioctl" /\ gerr = "none" /\ result = "none"
          /\ UNCHANGED <<beginRecord, gpc, gerr, result>>
          /\ Len(consumed') = Len(consumed) + 1
      BY <1>2, <2>4, KernelReadsNext DEF KernelRead, IInv, VerdictInv, Full
    <3>2. BeginLen + Len(consumed') \in (BeginLen + Len(consumed) + 1)..StreamLen
      BY <2>4, <2>t, <3>1 DEF KernelRead
    <3>3. Transfer!Deliver
      BY <2>p, <2>q, <3>1, <3>2, SMTT(30) DEF Transfer!Deliver
    <3> QED BY <3>3 DEF Transfer!Next
  <2>5. CASE GoGetsRecord
    <3>1. /\ gpc = "begin" /\ gpc' # "begin" /\ result = "none" /\ gerr = "none"
          /\ UNCHANGED <<beginRecord, consumed, result, preset>> /\ Full' = Full
      BY <1>2, <2>5 DEF GoGetsRecord, Verdict, IInv, VerdictInv, Full
    <3>2. CASE gerr' = "short"
      BY <3>1, <3>2 DEF Transfer!vars
    <3>3. CASE gerr' # "short"
      <4>1. Full' /\ Len(consumed) = 0
        BY <1>2, <3>1, <3>3 DEF IInv, RecordInv, DataInv
      <4>2. beginRecord' \o consumed' = Transfer!Prefix(BeginLen)
        BY <2>q, <2>t, <3>1, <4>1
      <4>3. BeginLen \in (Len(<<>>) + 1)..StreamLen
        BY <2>t
      <4>4. Transfer!Deliver
        BY <3>1, <3>3, <4>2, <4>3 DEF Transfer!Deliver
      <4> QED BY <4>4 DEF Transfer!Next
    <3> QED BY <3>2, <3>3
  <2>6. CASE KernelAnswers \/ KernelRejects \/ KernelNoMem
    BY <1>2, <2>6, <2>s DEF KernelAnswers, KernelRejects, KernelNoMem, Verdict, IInv, VerdictInv
  <2>7. CASE GoPanics \/ GoReports \/ GoCloses
    BY <2>7, <2>s DEF GoPanics, GoReports, GoCloses
  <2>8. CASE UNCHANGED vars
    BY <2>8, <2>s DEF vars
  <2> QED
    BY <1>2, <2>1, <2>2, <2>3, <2>4, <2>5, <2>6, <2>7, <2>8
    DEF Next, Caller, Blocked, KernelRuns, Go
<1> QED BY <1>1, <1>2, ReceiveDataInv, PTL DEF Spec, ImplementsTransfer, Transfer!Spec

-----------------------------------------------------------------------------
(* Who can take a step: the guards of the actions. *)
GoCanRun ==
  \/ gpc = "begin" /\ (beginRecordChan # <<>> \/ cpc \in {"wait", "returned"})
  \/ gpc = "report" /\ Len(errorChan) < 1
  \/ gpc = "close"
KernelCanRun ==
  /\ gpc = "ioctl"
  /\ \/ pipe # <<>> /\ BeginLen + Len(consumed) < StreamLen
     \/ BeginLen + Len(consumed) = StreamLen
     \/ pipe = <<>> /\ ~wOpen
WriteCanRun == ~rOpen \/ Len(pipe) < PipeCap

(* A Write in progress waits only while the kernel or the goroutine can go *)
(* on; so does WaitAndClose, unless the kernel is left waiting for a       *)
(* stream that stops after its begin record.                               *)
WriteNeverStuck ==
  cpc = "write" /\ ~preset /\ Alive => WriteCanRun \/ GoCanRun \/ KernelCanRun
WaitNeverStuck ==
  cpc = "wait" /\ ~Starved /\ Alive => errorChan # <<>> \/ GoCanRun \/ KernelCanRun

ReadInv ==
  /\ BeginLen + Len(consumed) <= StreamLen
  /\ cpc = "write" => buf # <<>>
  /\ gpc = "done" => ~rOpen

SuccessMeansAll ==
  result \in {"nil", "props"} => beginRecord \o consumed = Transfer!Prefix(StreamLen)

LEMMA ReadInit == Init => ReadInv
<1> SUFFICES ASSUME Init PROVE ReadInv
  OBVIOUS
<1>1. BeginLen + Len(consumed) <= StreamLen
  BY ReceiveAssumption DEF Init
<1> QED BY <1>1 DEF Init, ReadInv

LEMMA ReadStep == IInv /\ ReadInv /\ [Next]_vars => ReadInv'
<1> SUFFICES ASSUME IInv, ReadInv, [Next]_vars PROVE ReadInv'
  OBVIOUS
<1>t. /\ consumed \in Seq(Nat) /\ Len(consumed) \in Nat
      /\ BeginLen \in Nat /\ StreamLen \in Nat /\ BeginLen <= StreamLen
  BY ReceiveAssumption, LenProperties DEF IInv, TypeOK
<1> USE DEF ReadInv, ioVars, callerVars, goVars, kernelVars
<1>1. ASSUME NEW n \in 0..MaxWrite, Write(n) PROVE ReadInv'
  BY <1>1 DEF Write
<1>2. CASE WriteRefused \/ WaitAndClose \/ PipeBroken \/ WaitEnds
  BY <1>2 DEF WriteRefused, WaitAndClose, PipeBroken, WaitEnds, vars
<1>3. CASE PipeWrite
  BY <1>3 DEF PipeWrite
<1>4. CASE KernelRead
  <2>1. Head(pipe) \in Nat
    BY <1>4, HeadTailProperties DEF IInv, TypeOK, KernelRead
  <2>2. Len(consumed') = Len(consumed) + 1
    BY <1>t, <1>4, <2>1, AppendProperties DEF KernelRead
  <2>3. BeginLen + Len(consumed') <= StreamLen
    BY <1>t, <1>4, <2>2 DEF KernelRead
  <2> QED BY <1>4, <2>3 DEF KernelRead
<1>5. CASE KernelAnswers \/ GoPanics \/ KernelRejects
  BY <1>5 DEF KernelAnswers, GoPanics, KernelRejects, Verdict
<1>6. CASE KernelNoMem
  <2>1. BeginLen + Len(consumed') <= StreamLen
    BY <1>t, <1>6 DEF KernelNoMem
  <2> QED BY <1>6, <2>1 DEF KernelNoMem, Verdict
<1>7. CASE GoGetsRecord \/ GoReports \/ GoCloses
  BY <1>7 DEF GoGetsRecord, Verdict, GoReports, GoCloses
<1>8. CASE UNCHANGED vars
  BY <1>8 DEF vars
<1> QED BY <1>1, <1>2, <1>3, <1>4, <1>5, <1>6, <1>7, <1>8
  DEF Next, Caller, Blocked, KernelRuns, Go

LEMMA ReceiveReadInv == Spec => []ReadInv
BY ReadInit, ReadStep, ReceiveIInv, PTL DEF Spec

(* A Write of a caller that leaves ReceiveOpts.BeginRecord unset never     *)
(* waits for a goroutine and a kernel that wait themselves: the record is  *)
(* handed over before anything goes into the pipe, the kernel empties the  *)
(* pipe, and the goroutine closes the read end.                            *)
THEOREM ReceiveWriteNeverStuck == Spec => []WriteNeverStuck
<1>1. ASSUME IInv, ReadInv PROVE WriteNeverStuck
  <2> SUFFICES ASSUME cpc = "write", ~preset, Alive, ~WriteCanRun
               PROVE  GoCanRun \/ KernelCanRun
    BY DEF WriteNeverStuck
  <2>t. /\ TypeOK /\ RecordInv /\ VerdictInv /\ PipeCap \in Nat /\ PipeCap > 0
        /\ Len(<<>>) = 0 /\ Len(pipe) \in Nat /\ Len(consumed) \in Nat
        /\ BeginLen \in Nat /\ StreamLen \in Nat
    BY <1>1, ReceiveAssumption, LenProperties, EmptySeq DEF IInv, TypeOK
  <2>1. rOpen /\ pipe # <<>>
    BY <2>t DEF WriteCanRun
  <2>2. gpc \in {"begin", "ioctl", "report", "close"}
    BY <1>1, <2>t, <2>1 DEF ReadInv, TypeOK, Alive
  <2>3. CASE gpc = "begin"
    <3>1. Full
      BY <1>1, <2>t DEF ReadInv, RecordInv
    <3>2. beginRecordChan # <<>>
      BY <2>t, <2>3, <3>1 DEF RecordInv, Pending, Waiting
    <3> QED BY <2>3, <3>2 DEF GoCanRun
  <2>4. CASE gpc = "ioctl"
    <3>1. BeginLen + Len(consumed) < StreamLen \/ BeginLen + Len(consumed) = StreamLen
      BY <1>1, <2>t DEF ReadInv
    <3> QED BY <2>1, <2>4, <3>1 DEF KernelCanRun
  <2>5. CASE gpc \in {"report", "close"}
    <3>1. gpc = "report" => Len(errorChan) < 1
      BY <2>t DEF VerdictInv
    <3> QED BY <2>5, <3>1 DEF GoCanRun
  <2> QED BY <2>2, <2>3, <2>4, <2>5
<1>2. IInv /\ ReadInv => WriteNeverStuck
  BY <1>1
<1> QED BY <1>2, ReceiveIInv, ReceiveReadInv, PTL

(* WaitAndClose, which closes the write end only after the verdict, waits  *)
(* for a kernel that waits for more only when the caller stopped between   *)
(* the begin record and the end of the stream.  A kernel that answers      *)
(* ENOMEM after input would wait for bytes it has had.                     *)
THEOREM ReceiveWaitNeverStuck ==
  ASSUME ~LateENOMEM
  PROVE  Spec => []WaitNeverStuck
<1>1. ASSUME IInv, DataInv, ReadInv PROVE WaitNeverStuck
  <2> SUFFICES ASSUME cpc = "wait", ~Starved, Alive
               PROVE  errorChan # <<>> \/ GoCanRun \/ KernelCanRun
    BY DEF WaitNeverStuck
  <2>t. /\ TypeOK /\ RecordInv /\ VerdictInv
        /\ Len(<<>>) = 0 /\ Len(pipe) \in Nat /\ Len(consumed) \in Nat
        /\ BeginLen \in Nat /\ StreamLen \in Nat
    BY <1>1, ReceiveAssumption, LenProperties, EmptySeq DEF IInv, TypeOK
  <2>1. CASE gpc = "begin"
    BY <2>1 DEF GoCanRun
  <2>2. CASE gpc = "report"
    <3>1. Len(errorChan) < 1
      BY <2>t, <2>2 DEF VerdictInv
    <3> QED BY <2>2, <3>1 DEF GoCanRun
  <2>3. CASE gpc \in {"close", "done"}
    <3>1. errorChan = <<gerr>>
      BY <2>t, <2>3 DEF VerdictInv
    <3> QED BY <3>1
  <2>4. CASE gpc = "ioctl"
    <3>1. Full /\ lastError = "none" /\ ~preset /\ buf = <<>>
      <4>1. gerr = "none" /\ rOpen
        BY <2>t, <2>4 DEF VerdictInv
      <4>2. lastError = "none"
        BY <2>t, <4>1 DEF VerdictInv
      <4>3. Full
        BY <2>t, <2>4, <4>1 DEF RecordInv
      <4> QED BY <1>1, <4>2, <4>3 DEF DataInv, Full
    <3>2. written = BeginLen + Len(consumed) + Len(pipe)
      BY <1>1, <2>t, <3>1 DEF DataInv
    <3>3. CASE BeginLen + Len(consumed) = StreamLen
      BY <2>4, <3>3 DEF KernelCanRun
    <3>4. CASE BeginLen + Len(consumed) < StreamLen
      <4>1. pipe # <<>>
        <5> SUFFICES ASSUME pipe = <<>> PROVE FALSE
          OBVIOUS
        <5>1. written = BeginLen + Len(consumed)
          BY <2>t, <3>2
        <5>2. written \in BeginLen..(StreamLen - 1)
          BY <2>t, <3>4, <5>1
        <5> QED BY <3>1, <5>2 DEF Starved
      <4> QED BY <2>4, <3>4, <4>1 DEF KernelCanRun
    <3> QED BY <1>1, <2>t, <3>3, <3>4 DEF ReadInv
  <2> QED BY <2>t, <2>1, <2>2, <2>3, <2>4 DEF TypeOK, Alive
<1>2. IInv /\ DataInv /\ ReadInv => WaitNeverStuck
  BY <1>1
<1> QED BY <1>2, ReceiveDataInv, ReceiveReadInv, PTL

(* Unless the kernel answers ENOMEM after input, a WaitAndClose that       *)
(* returns nil, or the errors of single properties, means that the kernel  *)
(* has got exactly the snapshot stream.                                    *)
THEOREM ReceiveSuccessMeansAll ==
  ASSUME ~LateENOMEM
  PROVE  Spec => []SuccessMeansAll
<1>1. ASSUME IInv, DataInv, result \in {"nil", "props"}
      PROVE  beginRecord \o consumed = Transfer!Prefix(StreamLen)
  <2>1. gpc \in {"close", "done"} /\ result = gerr
    BY <1>1 DEF IInv, TypeOK, VerdictInv
  <2>2. Full /\ BeginLen + Len(consumed) = StreamLen
    BY <1>1, <2>1 DEF IInv, RecordInv, VerdictInv
  <2>3. /\ Run(beginRecord, 0) /\ Run(consumed, Len(beginRecord))
        /\ Len(beginRecord) = BeginLen
    BY <1>1, <2>2 DEF DataInv, Full
  <2>4. beginRecord \in Seq(Nat) /\ consumed \in Seq(Nat)
    BY <1>1 DEF IInv, TypeOK
  <2> QED BY <2>2, <2>3, <2>4, RecordThenRest
<1>2. IInv /\ DataInv => SuccessMeansAll
  BY <1>1 DEF SuccessMeansAll
<1> QED BY <1>2, ReceiveDataInv, PTL

-----------------------------------------------------------------------------
(* The work the kernel and the goroutine have still to do. *)
LengthsLeft(d) ==
  IF d = 8192 THEN 4 ELSE IF d = 65536 THEN 3 ELSE IF d = 524288 THEN 2
  ELSE IF d = 4194304 THEN 1 ELSE 0

Rest == StreamLen - BeginLen       \* what the kernel reads from the pipe
ReadsLeft == LengthsLeft(dst) * (Rest + 1) + (Rest - Len(consumed))

ReceiverLeft ==
  IF gpc = "begin" THEN ReadsLeft + 4 ELSE IF gpc = "ioctl" THEN ReadsLeft + 3
  ELSE IF gpc = "report" THEN 2 ELSE IF gpc = "close" THEN 1 ELSE 0

ReceiverSteps == KernelRuns \/ KernelRejects \/ KernelNoMem \/ Go

ReceiverAdvances ==
  /\ ReceiverLeft \in Nat /\ ReceiverLeft' \in Nat
  /\ ReceiverSteps => ReceiverLeft' < ReceiverLeft
  /\ ~ReceiverSteps => ReceiverLeft' = ReceiverLeft

LEMMA GrowTakesOne ==
  ASSUME NEW d \in DstSizes
  PROVE  /\ LengthsLeft(d) \in Nat
         /\ ~Exhausted(d) => LengthsLeft(Grow(d)) + 1 = LengthsLeft(d)
BY DEF DstSizes, LengthsLeft, Exhausted, Grow, DstLimit

LEMMA ReadsOrder ==
  ASSUME NEW l \in Nat, NEW n \in Nat, NEW k \in 0..n
  PROVE  /\ l * (n + 1) + (n - k) \in Nat
         /\ k < n => l * (n + 1) + (n - (k + 1)) < l * (n + 1) + (n - k)
         /\ l * (n + 1) + (n - 0) < (l + 1) * (n + 1) + (n - k)
<1>1. l * (n + 1) \in Nat /\ (l + 1) * (n + 1) = l * (n + 1) + (n + 1)
  OBVIOUS
<1>2. PICK p \in Nat : p = l * (n + 1)
  BY <1>1
<1>3. (l + 1) * (n + 1) = p + (n + 1)
  BY <1>1, <1>2
<1>4. /\ p + (n - k) \in Nat
      /\ k < n => p + (n - (k + 1)) < p + (n - k)
      /\ p + (n - 0) < (p + (n + 1)) + (n - k)
  OBVIOUS
<1> QED BY <1>2, <1>3, <1>4

LEMMA ReceiverLeftNat ==
  IInv /\ ReadInv => /\ Rest \in Nat /\ Len(consumed) \in 0..Rest /\ LengthsLeft(dst) \in Nat
                     /\ ReadsLeft \in Nat /\ ReceiverLeft \in Nat
<1> SUFFICES ASSUME IInv, ReadInv
             PROVE  /\ Rest \in Nat /\ Len(consumed) \in 0..Rest /\ LengthsLeft(dst) \in Nat
                    /\ ReadsLeft \in Nat /\ ReceiverLeft \in Nat
  OBVIOUS
<1>1. /\ LengthsLeft(dst) \in Nat /\ Len(consumed) \in Nat
      /\ BeginLen \in Nat /\ StreamLen \in Nat /\ BeginLen <= StreamLen
  BY GrowTakesOne, ReceiveAssumption, LenProperties DEF IInv, TypeOK
<1>2. Rest \in Nat /\ Len(consumed) \in 0..Rest
  BY <1>1 DEF ReadInv, Rest
<1>3. ReadsLeft \in Nat
  BY <1>1, <1>2, ReadsOrder DEF ReadsLeft
<1> QED BY <1>1, <1>2, <1>3 DEF ReceiverLeft

(* Receive's goroutine and the kernel working for it take at most 5 *      *)
(* (StreamLen - BeginLen + 1) + 3 steps, whatever the caller does and      *)
(* however often the ioctl is repeated: each step leaves fewer to come,    *)
(* and no step of the caller adds one.                                     *)
THEOREM ReceiveStepsBounded == Spec => [][ReceiverAdvances]_vars
<1>1. ASSUME IInv, ReadInv, IInv', ReadInv', Next PROVE ReceiverAdvances
  <2>0. /\ Rest \in Nat /\ Len(consumed) \in 0..Rest /\ LengthsLeft(dst) \in Nat
        /\ ReadsLeft \in Nat /\ ReceiverLeft \in Nat
    BY <1>1, ReceiverLeftNat
  <2>1. ReadsLeft' \in Nat /\ ReceiverLeft' \in Nat
    <3>1. (IInv /\ ReadInv => ReadsLeft \in Nat /\ ReceiverLeft \in Nat)'
      BY ReceiverLeftNat, PTL
    <3> QED BY <1>1, <3>1
  <2>2. CASE ReceiverSteps
    <3>1. ASSUME gpc = "begin", gpc' \in {"ioctl", "report"}, ReadsLeft' = ReadsLeft
          PROVE  ReceiverAdvances
      <4>1. /\ ReceiverLeft = ReadsLeft + 4
            /\ ReceiverLeft' = ReadsLeft + 3 \/ ReceiverLeft' = 2
        BY <3>1 DEF ReceiverLeft
      <4> QED BY <2>0, <2>1, <2>2, <4>1 DEF ReceiverAdvances
    <3>2. ASSUME gpc = "ioctl", gpc' = "ioctl", ReadsLeft' < ReadsLeft PROVE ReceiverAdvances
      <4>1. ReceiverLeft = ReadsLeft + 3 /\ ReceiverLeft' = ReadsLeft' + 3
        BY <3>2 DEF ReceiverLeft
      <4>2. PICK x \in Nat : x = ReadsLeft
        BY <2>0
      <4>3. PICK y \in Nat : y = ReadsLeft'
        BY <2>1
      <4>4. y < x
        BY <3>2, <4>2, <4>3, Zenon
      <4>5. y + 3 < x + 3
        BY <4>4
      <4> QED BY <2>0, <2>1, <2>2, <4>1, <4>2, <4>3, <4>5 DEF ReceiverAdvances
    <3>3. CASE gpc = "ioctl" /\ gpc' \in {"report", "panicked"}
      <4>1. ReceiverLeft = ReadsLeft + 3 /\ (ReceiverLeft' = 2 \/ ReceiverLeft' = 0)
        BY <3>3 DEF ReceiverLeft
      <4> QED BY <2>0, <2>1, <2>2, <4>1 DEF ReceiverAdvances
    <3>4. CASE KernelRead
      <4>1. /\ dst' = dst /\ gpc = "ioctl" /\ gpc' = gpc
            /\ BeginLen + Len(consumed) < StreamLen
        BY <3>4 DEF KernelRead, goVars
      <4>2. Len(consumed') = Len(consumed) + 1 /\ Len(consumed) < Rest
        <5>1. Head(pipe) \in Nat /\ consumed \in Seq(Nat) /\ Len(consumed) \in Nat
          BY <1>1, <3>4, HeadTailProperties, LenProperties DEF IInv, TypeOK, KernelRead
        <5>2. Len(consumed') = Len(consumed) + 1
          BY <3>4, <5>1, AppendProperties DEF KernelRead
        <5>3. Len(consumed) < Rest
          BY <4>1, <5>1, ReceiveAssumption DEF Rest
        <5> QED BY <5>2, <5>3
      <4>3. ReadsLeft' < ReadsLeft
        <5>1. PICK k \in 0..Rest : k = Len(consumed)
          BY <2>0
        <5>2. LengthsLeft(dst) * (Rest + 1) + (Rest - (k + 1))
                < LengthsLeft(dst) * (Rest + 1) + (Rest - k)
          BY <2>0, <4>2, <5>1, ReadsOrder
        <5> QED BY <4>1, <4>2, <5>1, <5>2 DEF ReadsLeft, Rest
      <4> QED BY <3>2, <4>1, <4>3
    <3>5. CASE KernelAnswers \/ GoPanics \/ KernelRejects
      BY <3>3, <3>5 DEF KernelAnswers, GoPanics, KernelRejects, Verdict
    <3>6. CASE KernelNoMem
      <4>1. CASE Exhausted(dst)
        BY <3>3, <3>6, <4>1 DEF KernelNoMem, Verdict
      <4>2. CASE ~Exhausted(dst)
        <5>1. /\ dst' = Grow(dst) /\ consumed' = <<>> /\ gpc = "ioctl" /\ gpc' = gpc
          BY <3>6, <4>2 DEF KernelNoMem, goVars
        <5>2. LengthsLeft(dst') + 1 = LengthsLeft(dst) /\ LengthsLeft(dst') \in Nat
          BY <1>1, <4>2, <5>1, GrowTakesOne DEF IInv, TypeOK
        <5>3. ReadsLeft' < ReadsLeft
          <6>1. PICK l \in Nat : l = LengthsLeft(dst')
            BY <5>2
          <6>2. l * (Rest + 1) + (Rest - 0) < (l + 1) * (Rest + 1) + (Rest - Len(consumed))
            BY <2>0, ReadsOrder
          <6>3. l + 1 = LengthsLeft(dst) /\ Len(consumed') = 0
            BY <5>1, <5>2, <6>1
          <6> QED BY <6>1, <6>2, <6>3 DEF ReadsLeft, Rest
        <5> QED BY <3>2, <5>1, <5>3
      <4> QED BY <4>1, <4>2
    <3>7. CASE GoGetsRecord
      <4>1. gpc = "begin" /\ gpc' \in {"ioctl", "report"} /\ ReadsLeft' = ReadsLeft
        BY <3>7 DEF GoGetsRecord, Verdict, ReadsLeft, Rest, kernelVars
      <4> QED BY <3>1, <4>1
    <3>8. CASE GoReports \/ GoCloses
      <4>1. ReceiverLeft' < ReceiverLeft
        BY <3>8 DEF GoReports, GoCloses, ReceiverLeft
      <4> QED BY <2>0, <2>1, <2>2, <4>1 DEF ReceiverAdvances
    <3> QED BY <2>2, <3>4, <3>5, <3>6, <3>7, <3>8 DEF ReceiverSteps, KernelRuns, Go
  <2>3. CASE ~ReceiverSteps
    <3>1. UNCHANGED <<gpc, consumed, dst>>
      BY <1>1, <2>3 DEF Next, ReceiverSteps, Caller, Blocked, Write, WriteRefused, WaitAndClose,
         PipeWrite, PipeBroken, WaitEnds, vars, kernelVars, goVars
    <3>2. ReceiverLeft' = ReceiverLeft
      BY <3>1 DEF ReceiverLeft, ReadsLeft, Rest
    <3> QED BY <2>0, <2>1, <2>3, <3>2 DEF ReceiverAdvances
  <2> QED BY <2>2, <2>3
<1>2. IInv /\ ReadInv /\ IInv' /\ ReadInv' /\ [Next]_vars => [ReceiverAdvances]_vars
  BY <1>1
<1> QED BY <1>2, ReceiveIInv, ReceiveReadInv, PTL DEF Spec
=============================================================================
