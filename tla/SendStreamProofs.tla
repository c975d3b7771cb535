-------------------------- MODULE SendStreamProofs --------------------------
(***************************************************************************)
(* Proofs about SendStream, for every stream length, pipe capacity and     *)
(* read buffer.  What is said of the verdict, of waiting and of the last   *)
(* StreamLen bytes holds for every kernel.  That nothing comes in front of *)
(* these needs ~LateENOMEM, and is refuted without it by the run of        *)
(* MCSendRetry.cfg.                                                        *)
(***************************************************************************)
EXTENDS SendStream, SequenceTheorems, TLAPS

(* Where the verdict is: with the ioctl until the goroutine has sent it,   *)
(* then in errorChan, then latched by the reader.  Only a goroutine that   *)
(* is done has closed the write end, so end of file means sent.            *)
VerdictInv ==
  /\ gpc \in {"unstarted", "ioctl", "report"} => errorChan = <<>> /\ ~isEOF
  /\ gpc \in {"close", "done"} =>
       IF isEOF THEN errorChan = <<>> ELSE Len(errorChan) = 1 /\ errorChan[1] = gerr
  /\ ~wOpen => gpc \in {"unstarted", "done"}
  /\ gpc = "unstarted" <=> cpc = "start" \/ (cpc = "failed" /\ ~isEOF)
  /\ cpc \in {"peekWait", "readWait"} => gpc = "done" /\ ~isEOF
  /\ isEOF => cpc \in {"idle", "failed"}
  /\ isEOF => lastError = (IF gerr = "nil" THEN "EOF" ELSE gerr)

IInv == TypeOK /\ VerdictInv

-----------------------------------------------------------------------------
(* Lengths the retry loop allocates: Grow stays among them unless the      *)
(* buffer is already exhausted (ioctl.go:53-56).                           *)
LEMMA DstGrows ==
  ASSUME NEW d \in DstSizes, ~Exhausted(d)
  PROVE  Grow(d) \in DstSizes
BY DEF DstSizes, Exhausted, Grow, DstLimit

(* The first n elements of a sequence of naturals, and the rest, are again *)
(* such sequences: what Read takes from peekBuf or the pipe, and leaves.   *)
LEMMA SplitType ==
  ASSUME NEW s \in Seq(Nat), NEW n \in Nat, n <= Len(s)
  PROVE  /\ SubSeq(s, 1, n) \in Seq(Nat)
         /\ SubSeq(s, n + 1, Len(s)) \in Seq(Nat)
         /\ Len(SubSeq(s, 1, n)) = n
         /\ Len(SubSeq(s, n + 1, Len(s))) = Len(s) - n
<1>1. Len(s) \in Nat /\ \A i \in 1..Len(s) : s[i] \in Nat
  BY ElementOfSeq, LenProperties
<1>2. /\ SubSeq(s, 1, n) \in Seq(Nat)
      /\ Len(SubSeq(s, 1, n)) = n
  BY <1>1, SubSeqProperties
<1>3. /\ SubSeq(s, n + 1, Len(s)) \in Seq(Nat)
      /\ Len(SubSeq(s, n + 1, Len(s))) = Len(s) - n
  BY <1>1, SubSeqProperties
<1> QED BY <1>2, <1>3

LEMMA InitIInv == Init => IInv
<1> SUFFICES ASSUME Init PROVE IInv
  OBVIOUS
<1>1. dst \in DstSizes
  BY DEF Init, DstSizes, InitialDst
<1>2. TypeOK
  <2>1. /\ pipe \in Seq(Nat) /\ Len(pipe) <= PipeCap
        /\ peekBuf \in Seq(Nat) /\ received \in Seq(Nat)
        /\ kpos \in 0..StreamLen
    BY SendAssumption DEF Init
  <2>2. errorChan \in Seq({"nil"} \cup KernelErrors) /\ Len(errorChan) <= 1
    BY DEF Init
  <2> QED BY <1>1, <2>1, <2>2 DEF Init, TypeOK, Streaming
<1>3. VerdictInv
  BY DEF Init, VerdictInv
<1> QED BY <1>2, <1>3 DEF IInv

(* Taking the verdict out of errorChan (wrappers.go:474-478, 457-461).     *)
LEMMA LatchType ==
  ASSUME TypeOK, Latch
  PROVE  /\ errorChan' \in Seq({"nil"} \cup KernelErrors) /\ Len(errorChan') <= 1
         /\ lastError' \in {"none", "EOF"} \cup KernelErrors
         /\ isEOF' \in BOOLEAN
<1>1. Head(errorChan) \in {"nil"} \cup KernelErrors
  BY HeadTailProperties DEF TypeOK, Latch
<1>2. errorChan' \in Seq({"nil"} \cup KernelErrors) /\ Len(errorChan') <= 1
  BY HeadTailProperties, LenProperties DEF TypeOK, Latch
<1> QED BY <1>1, <1>2 DEF Latch

LEMMA LatchVerdict ==
  ASSUME TypeOK, Latch, Len(errorChan) = 1, errorChan[1] = gerr
  PROVE  /\ errorChan' = <<>> /\ isEOF'
         /\ lastError' = (IF gerr = "nil" THEN "EOF" ELSE gerr)
<1> DEFINE V == {"nil"} \cup KernelErrors
<1>1. errorChan \in Seq(V)
  BY DEF TypeOK
<1> HIDE DEF V
<1>2. errorChan # <<>> /\ Head(errorChan) = gerr
  BY <1>1, EmptySeq
<1>3. Tail(errorChan) \in Seq(V) /\ Len(Tail(errorChan)) = 0
  BY <1>1, <1>2, HeadTailProperties
<1>4. Tail(errorChan) = <<>>
  BY <1>3, EmptySeq
<1> QED BY <1>2, <1>4 DEF Latch

(* Every step keeps the types. *)
LEMMA TypeStep == TypeOK /\ [Next]_vars => TypeOK'
<1> SUFFICES ASSUME TypeOK, [Next]_vars PROVE TypeOK'
  OBVIOUS
<1> USE SendAssumption DEF TypeOK, KernelErrors, Streaming
<1>1. CASE SendPipeFails
  BY <1>1 DEF SendPipeFails, ioVars, kernelVars, goVars, streamVars
<1>2. CASE SendStarts
  BY <1>2 DEF SendStarts, kernelVars, streamVars
<1>3. CASE KernelWrite
  BY <1>3 DEF KernelWrite, goVars, streamVars
<1>4. CASE KernelDone
  BY <1>4 DEF KernelDone, IoctlReturns, ioVars, kernelVars, streamVars
<1>5. CASE KernelFails
  BY <1>5 DEF KernelFails, IoctlReturns, ioVars, kernelVars, streamVars
<1>6. CASE KernelNoMem
  <2>1. CASE Exhausted(dst)
    BY <1>6, <2>1 DEF KernelNoMem, IoctlReturns, ioVars, kernelVars, streamVars
  <2>2. CASE ~Exhausted(dst)
    BY <1>6, <2>2, DstGrows DEF KernelNoMem, goVars, ioVars, streamVars
  <2> QED BY <2>1, <2>2
<1>7. CASE GoReports
  BY <1>7 DEF GoReports, ioVars, kernelVars, streamVars
<1>8. CASE GoCloses
  BY <1>8 DEF GoCloses, kernelVars, streamVars
<1>9. CASE PeekData
  BY <1>9 DEF PeekData, kernelVars, goVars
<1>10. CASE PeekEOF
  BY <1>10 DEF PeekEOF, ioVars, kernelVars, goVars, streamVars
<1>11. CASE PeekFails
  BY <1>11, LatchType DEF PeekFails, kernelVars, goVars
<1>12. CASE ReadLatched
  BY <1>12 DEF ReadLatched, vars, ioVars, kernelVars, goVars, streamVars
<1>13. CASE ReadPeeked
  <2>1. PICK n \in 1..MaxRead :
          LET m == IF n < Len(peekBuf) THEN n ELSE Len(peekBuf)
          IN  /\ received' = received \o SubSeq(peekBuf, 1, m)
              /\ peekBuf' = SubSeq(peekBuf, m + 1, Len(peekBuf))
    BY <1>13 DEF ReadPeeked
  <2> DEFINE m == IF n < Len(peekBuf) THEN n ELSE Len(peekBuf)
  <2>2. m \in Nat /\ m <= Len(peekBuf)
    BY LenProperties
  <2> HIDE DEF m
  <2>3. received' \in Seq(Nat) /\ peekBuf' \in Seq(Nat)
    BY <2>1, <2>2, SplitType, ConcatProperties DEF m
  <2> QED BY <1>13, <2>3 DEF ReadPeeked, ioVars, kernelVars, goVars
<1>14. CASE ReadBlocks
  BY <1>14 DEF ReadBlocks, ioVars, kernelVars, goVars, streamVars
<1>15. CASE ReadData
  <2>1. PICK n \in 1..MaxRead :
          /\ n <= Len(pipe)
          /\ received' = received \o SubSeq(pipe, 1, n)
          /\ pipe' = SubSeq(pipe, n + 1, Len(pipe))
    BY <1>15 DEF ReadData
  <2>2. received' \in Seq(Nat) /\ pipe' \in Seq(Nat) /\ Len(pipe') <= PipeCap
    BY <2>1, SplitType, ConcatProperties, LenProperties
  <2> QED BY <1>15, <2>2 DEF ReadData, kernelVars, goVars, streamVars
<1>16. CASE ReadEOF
  BY <1>16 DEF ReadEOF, ioVars, kernelVars, goVars, streamVars
<1>17. CASE ReadEnds
  BY <1>17, LatchType DEF ReadEnds, ioVars, kernelVars, goVars
<1>18. CASE ReadOnClosed
  BY <1>18 DEF ReadOnClosed, ioVars, kernelVars, goVars, streamVars
<1>19. CASE Close
  BY <1>19 DEF Close, kernelVars, goVars, streamVars
<1>20. CASE UNCHANGED vars
  BY <1>20 DEF vars, ioVars, kernelVars, goVars, streamVars
<1> QED
  BY <1>1, <1>2, <1>3, <1>4, <1>5, <1>6, <1>7, <1>8, <1>9, <1>10, <1>11, <1>12, <1>13,
     <1>14, <1>15, <1>16, <1>17, <1>18, <1>19, <1>20
  DEF Next, Kernel, Go, Progress, StartRead

(* Every step keeps the verdict where VerdictInv says it is. *)
LEMMA VerdictStep == IInv /\ [Next]_vars => VerdictInv'
<1> SUFFICES ASSUME IInv, [Next]_vars PROVE VerdictInv'
  OBVIOUS
<1>t. TypeOK /\ VerdictInv
  BY DEF IInv
<1>1. CASE SendPipeFails
  BY <1>t, <1>1 DEF VerdictInv, SendPipeFails, ioVars, kernelVars, goVars, streamVars
<1>2. CASE SendStarts
  BY <1>t, <1>2 DEF VerdictInv, SendStarts, kernelVars, streamVars
<1>3. CASE KernelWrite
  BY <1>t, <1>3 DEF VerdictInv, KernelWrite, goVars, streamVars
<1>4. CASE KernelDone
  BY <1>t, <1>4 DEF VerdictInv, KernelDone, IoctlReturns, ioVars, kernelVars, streamVars
<1>5. CASE KernelFails
  BY <1>t, <1>5 DEF VerdictInv, KernelFails, IoctlReturns, ioVars, kernelVars, streamVars
<1>6. CASE KernelNoMem
  BY <1>t, <1>6 DEF VerdictInv, KernelNoMem, IoctlReturns, ioVars, goVars, streamVars
<1>7. CASE GoReports
  <2>1. errorChan = <<>>
    BY <1>t, <1>7 DEF VerdictInv, GoReports
  <2>2. Len(errorChan') = 1 /\ errorChan'[1] = gerr
    BY <1>7, <2>1 DEF GoReports
  <2> QED BY <1>t, <1>7, <2>2 DEF VerdictInv, GoReports, ioVars, streamVars
<1>8. CASE GoCloses
  BY <1>t, <1>8 DEF VerdictInv, GoCloses, streamVars
<1>9. CASE PeekData
  BY <1>t, <1>9 DEF VerdictInv, PeekData, goVars
<1>10. CASE PeekEOF
  BY <1>t, <1>10 DEF VerdictInv, PeekEOF, PipeAtEOF, ioVars, goVars, streamVars
<1>11. CASE PeekFails
  <2>1. gpc = "done" /\ ~isEOF /\ Len(errorChan) = 1 /\ errorChan[1] = gerr
    BY <1>t, <1>11 DEF VerdictInv, PeekFails
  <2>2. errorChan' = <<>> /\ isEOF' /\ lastError' = (IF gerr = "nil" THEN "EOF" ELSE gerr)
    BY <1>t, <1>11, <2>1, LatchVerdict DEF PeekFails
  <2> QED BY <1>t, <1>11, <2>1, <2>2 DEF VerdictInv, PeekFails, goVars
<1>12. CASE ReadLatched
  BY <1>t, <1>12 DEF VerdictInv, ReadLatched, vars, ioVars, goVars, streamVars
<1>13. CASE ReadPeeked
  BY <1>t, <1>13 DEF VerdictInv, ReadPeeked, ioVars, goVars
<1>14. CASE ReadBlocks
  BY <1>t, <1>14 DEF VerdictInv, ReadBlocks, ioVars, goVars, streamVars
<1>15. CASE ReadData
  BY <1>t, <1>15 DEF VerdictInv, ReadData, goVars, streamVars
<1>16. CASE ReadEOF
  BY <1>t, <1>16 DEF VerdictInv, ReadEOF, PipeAtEOF, ioVars, goVars, streamVars
<1>17. CASE ReadEnds
  <2>1. gpc = "done" /\ ~isEOF /\ Len(errorChan) = 1 /\ errorChan[1] = gerr
    BY <1>t, <1>17 DEF VerdictInv, ReadEnds
  <2>2. errorChan' = <<>> /\ isEOF' /\ lastError' = (IF gerr = "nil" THEN "EOF" ELSE gerr)
    BY <1>t, <1>17, <2>1, LatchVerdict DEF ReadEnds
  <2> QED BY <1>t, <1>17, <2>1, <2>2 DEF VerdictInv, ReadEnds, ioVars, goVars
<1>18. CASE ReadOnClosed
  BY <1>t, <1>18 DEF VerdictInv, ReadOnClosed, ioVars, goVars, streamVars
<1>19. CASE Close
  BY <1>t, <1>19 DEF VerdictInv, Close, Streaming, goVars, streamVars
<1>20. CASE UNCHANGED vars
  BY <1>t, <1>20 DEF VerdictInv, vars, ioVars, goVars, streamVars
<1> QED
  BY <1>1, <1>2, <1>3, <1>4, <1>5, <1>6, <1>7, <1>8, <1>9, <1>10, <1>11, <1>12, <1>13,
     <1>14, <1>15, <1>16, <1>17, <1>18, <1>19, <1>20
  DEF Next, Kernel, Go, Progress, StartRead

LEMMA SendIInv == Spec => []IInv
<1>1. IInv /\ [Next]_vars => IInv'
  BY TypeStep, VerdictStep DEF IInv
<1> QED BY <1>1, InitIInv, PTL DEF Spec

(* The variables of Send and sendStream keep their types; in particular    *)
(* errorChan never holds more than one verdict, the pipe is never          *)
(* overfilled, and the reply buffer is one of the five lengths of          *)
(* NvlistIoctl.                                                            *)
THEOREM SendTypeCorrect == Spec => []TypeOK
<1>1. IInv => TypeOK
  BY DEF IInv
<1> QED BY <1>1, SendIInv, PTL

(* peek and Read never wait for a verdict after end of file.               *)
THEOREM SendVerdictPrecedesEOF == Spec => []VerdictPrecedesEOF
<1>1. IInv => VerdictPrecedesEOF
  BY DEF IInv, VerdictInv, VerdictPrecedesEOF
<1> QED BY <1>1, SendIInv, PTL

(* What peek and Read finally report is what the ioctl returned.           *)
THEOREM SendVerdictIsIoctls == Spec => []VerdictIsIoctls
<1>1. IInv => VerdictIsIoctls
  BY DEF IInv, VerdictInv, VerdictIsIoctls
<1> QED BY <1>1, SendIInv, PTL
-----------------------------------------------------------------------------
(* The bytes.  A run of positions starting above k: *)
Run(s, k) == \A i \in 1..Len(s) : s[i] = k + i

(* What Read has returned, the peeked byte and the pipe's content are, in  *)
(* this order, the bytes the kernel has written; a successful ioctl has    *)
(* written them all; and nothing is left anywhere at end of file.          *)
DataInv ==
  /\ Run(received, 0)
  /\ Run(peekBuf, Len(received))
  /\ Run(pipe, Len(received) + Len(peekBuf))
  /\ kpos = Len(received) + Len(peekBuf) + Len(pipe)
  /\ gpc \in {"report", "close", "done"} /\ gerr = "nil" => kpos = StreamLen
  /\ cpc \in {"start", "failed"} => kpos = 0
  /\ cpc \in {"start", "peek", "peekWait", "failed"} => received = <<>> /\ peekBuf = <<>>
  /\ cpc \in {"read", "readWait"} => peekBuf = <<>>
  /\ cpc \in {"peekWait", "readWait"} => pipe = <<>>
  /\ isEOF => pipe = <<>> /\ peekBuf = <<>> /\ gpc = "done"
  /\ cpc \in Streaming => kpos > 0

LEMMA RunSplit ==
  ASSUME NEW s \in Seq(Nat), NEW k \in Nat, Run(s, k), NEW n \in Nat, n <= Len(s)
  PROVE  Run(SubSeq(s, 1, n), k) /\ Run(SubSeq(s, n + 1, Len(s)), k + n)
<1>1. Len(s) \in Nat /\ \A i \in 1..Len(s) : s[i] = k + i
  BY LenProperties DEF Run
<1>2. /\ Len(SubSeq(s, 1, n)) = n
      /\ \A i \in 1..n : SubSeq(s, 1, n)[i] = s[i]
  BY <1>1, SubSeqProperties
<1>3. /\ Len(SubSeq(s, n + 1, Len(s))) = Len(s) - n
      /\ \A i \in 1..(Len(s) - n) : SubSeq(s, n + 1, Len(s))[i] = s[n + i]
  BY <1>1, SubSeqProperties
<1>4. Run(SubSeq(s, 1, n), k)
  BY <1>1, <1>2 DEF Run
<1>5. Run(SubSeq(s, n + 1, Len(s)), k + n)
  BY <1>1, <1>3 DEF Run
<1> QED BY <1>4, <1>5

LEMMA RunConcat ==
  ASSUME NEW r \in Seq(Nat), NEW s \in Seq(Nat), NEW k \in Nat,
         Run(r, k), Run(s, k + Len(r))
  PROVE  /\ Run(r \o s, k) /\ Len(r \o s) = Len(r) + Len(s)
<1>1. Len(r) \in Nat /\ Len(s) \in Nat
  BY LenProperties
<1>2. /\ Len(r \o s) = Len(r) + Len(s)
      /\ \A i \in 1..(Len(r) + Len(s)) :
            (r \o s)[i] = IF i <= Len(r) THEN r[i] ELSE s[i - Len(r)]
  BY ConcatProperties
<1>3. ASSUME NEW i \in 1..(Len(r) + Len(s)) PROVE (r \o s)[i] = k + i
  <2>1. CASE i <= Len(r)
    BY <1>1, <1>2, <2>1 DEF Run
  <2>2. CASE i > Len(r)
    <3>1. i - Len(r) \in 1..Len(s)
      BY <1>1, <2>2
    <3> QED BY <1>1, <1>2, <2>2, <3>1 DEF Run
  <2> QED BY <1>1, <2>1, <2>2
<1> QED BY <1>2, <1>3 DEF Run

LEMMA RunIsPrefix ==
  ASSUME NEW r \in Seq(Nat), Run(r, 0)
  PROVE  r = Transfer!Prefix(Len(r))
<1>1. Len(r) \in Nat /\ r = [i \in 1..Len(r) |-> r[i]]
  BY LenProperties
<1>2. \A i \in 1..Len(r) : r[i] = i
  BY <1>1 DEF Run
<1> QED BY <1>1, <1>2 DEF Transfer!Prefix

LEMMA DataInit == Init => DataInv
BY SendAssumption DEF Init, DataInv, Run, Streaming

(* Every step keeps the bytes in order, when no ENOMEM follows output.     *)
LEMMA DataStep ==
  ASSUME ~LateENOMEM, IInv, DataInv, [Next]_vars
  PROVE  DataInv'
<1>t. TypeOK /\ VerdictInv /\ DataInv
  BY DEF IInv
<1>l. /\ Len(received) \in Nat /\ Len(peekBuf) \in Nat /\ Len(pipe) \in Nat
      /\ received \in Seq(Nat) /\ peekBuf \in Seq(Nat) /\ pipe \in Seq(Nat)
  BY <1>t, LenProperties DEF TypeOK
<1> USE DEF Streaming
<1>1. CASE SendPipeFails
  BY <1>t, <1>1 DEF DataInv, SendPipeFails, ioVars, kernelVars, goVars, streamVars
<1>2. CASE SendStarts
  <2>1. gpc = "unstarted" /\ ~isEOF
    BY <1>t, <1>2 DEF VerdictInv, SendStarts
  <2> QED BY <1>t, <1>2, <2>1 DEF DataInv, SendStarts, kernelVars, streamVars
<1>3. CASE KernelWrite
  <2>1. /\ Len(pipe') = Len(pipe) + 1
        /\ \A i \in 1..Len(pipe) : pipe'[i] = pipe[i]
        /\ pipe'[Len(pipe) + 1] = Len(received) + Len(peekBuf) + Len(pipe) + 1
    BY <1>t, <1>l, <1>3, AppendProperties DEF KernelWrite, DataInv
  <2>2. Run(pipe', Len(received) + Len(peekBuf))
    <3> SUFFICES ASSUME NEW i \in 1..(Len(pipe) + 1)
                 PROVE  pipe'[i] = Len(received) + Len(peekBuf) + i
      BY <2>1 DEF Run
    <3>1. CASE i \in 1..Len(pipe)
      BY <1>t, <2>1, <3>1 DEF DataInv, Run
    <3>2. CASE i = Len(pipe) + 1
      BY <1>l, <2>1, <3>2
    <3> QED BY <1>l, <3>1, <3>2
  <2>3. ~isEOF /\ cpc \notin {"start", "failed", "peekWait", "readWait"}
    BY <1>t, <1>3 DEF VerdictInv, KernelWrite
  <2> QED BY <1>t, <1>l, <1>3, <2>1, <2>2, <2>3 DEF DataInv, KernelWrite, goVars, streamVars
<1>4. CASE KernelDone
  BY <1>t, <1>4 DEF DataInv, VerdictInv, KernelDone, IoctlReturns, ioVars, kernelVars,
     streamVars
<1>5. CASE KernelFails
  BY <1>t, <1>5 DEF DataInv, VerdictInv, KernelFails, IoctlReturns, ioVars, kernelVars,
     streamVars
<1>6. CASE KernelNoMem
  <2>1. kpos = 0 /\ gpc = "ioctl" /\ ~isEOF
    BY <1>t, <1>6 DEF KernelNoMem, VerdictInv
  <2>2. CASE Exhausted(dst)
    BY <1>t, <1>6, <2>1, <2>2 DEF DataInv, KernelNoMem, IoctlReturns, ioVars, kernelVars,
       streamVars
  <2>3. CASE ~Exhausted(dst)
    BY <1>t, <1>6, <2>1, <2>3 DEF DataInv, KernelNoMem, ioVars, goVars, streamVars
  <2> QED BY <2>2, <2>3
<1>7. CASE GoReports
  BY <1>t, <1>7 DEF DataInv, VerdictInv, GoReports, ioVars, kernelVars, streamVars
<1>8. CASE GoCloses
  BY <1>t, <1>8 DEF DataInv, GoCloses, kernelVars, streamVars
<1>9. CASE PeekData
  <2>1. received = <<>> /\ peekBuf = <<>> /\ ~isEOF
    BY <1>t, <1>9 DEF PeekData, DataInv, VerdictInv
  <2>2. /\ Len(pipe) > 0 /\ Head(pipe) = pipe[1]
        /\ Len(pipe') = Len(pipe) - 1
        /\ \A i \in 1..(Len(pipe) - 1) : pipe'[i] = pipe[i + 1]
    BY <1>l, <1>9, EmptySeq, HeadTailProperties DEF PeekData
  <2>3. Len(peekBuf') = 1 /\ peekBuf'[1] = pipe[1]
    BY <1>9, <2>1, <2>2 DEF PeekData
  <2>4. Run(peekBuf', 0) /\ Run(pipe', 1)
    BY <1>t, <1>l, <2>1, <2>2, <2>3 DEF DataInv, Run
  <2> QED
    BY <1>t, <1>l, <1>9, <2>1, <2>2, <2>3, <2>4 DEF DataInv, PeekData, kernelVars, goVars
<1>10. CASE PeekEOF
  BY <1>t, <1>10 DEF DataInv, PeekEOF, PipeAtEOF, ioVars, kernelVars, goVars, streamVars
<1>11. CASE PeekFails
  <2>1. kpos = 0 /\ pipe = <<>> /\ peekBuf = <<>> /\ gpc = "done"
    BY <1>t, <1>11 DEF PeekFails, DataInv, VerdictInv
  <2> QED BY <1>t, <1>11, <2>1 DEF DataInv, PeekFails, kernelVars, goVars
<1>12. CASE ReadLatched
  BY <1>t, <1>12 DEF DataInv, ReadLatched, vars, ioVars, kernelVars, goVars, streamVars
<1>13. CASE ReadPeeked
  <2>1. PICK n \in 1..MaxRead :
          LET m == IF n < Len(peekBuf) THEN n ELSE Len(peekBuf)
          IN  /\ received' = received \o SubSeq(peekBuf, 1, m)
              /\ peekBuf' = SubSeq(peekBuf, m + 1, Len(peekBuf))
    BY <1>13 DEF ReadPeeked
  <2> DEFINE m == IF n < Len(peekBuf) THEN n ELSE Len(peekBuf)
  <2>2. m \in Nat /\ m <= Len(peekBuf)
    BY <1>l
  <2> HIDE DEF m
  <2>3. /\ received' = received \o SubSeq(peekBuf, 1, m)
        /\ peekBuf' = SubSeq(peekBuf, m + 1, Len(peekBuf))
    BY <2>1 DEF m
  <2>4. /\ Len(SubSeq(peekBuf, 1, m)) = m /\ Len(peekBuf') = Len(peekBuf) - m
        /\ SubSeq(peekBuf, 1, m) \in Seq(Nat)
    BY <1>l, <2>2, <2>3, SplitType
  <2>5. /\ Run(SubSeq(peekBuf, 1, m), Len(received))
        /\ Run(peekBuf', Len(received) + m)
    BY <1>t, <1>l, <2>2, <2>3, RunSplit DEF DataInv
  <2>6. Run(received', 0) /\ Len(received') = Len(received) + m
    <3>1. Run(received, 0) /\ Run(SubSeq(peekBuf, 1, m), 0 + Len(received))
      BY <1>t, <1>l, <2>5 DEF DataInv
    <3> QED BY <1>l, <2>3, <2>4, <3>1, RunConcat
  <2>7. Len(received') + Len(peekBuf') = Len(received) + Len(peekBuf)
    BY <1>l, <2>2, <2>4, <2>6
  <2> QED
    BY <1>t, <1>l, <1>13, <2>2, <2>4, <2>5, <2>6, <2>7 DEF DataInv, ReadPeeked, ioVars,
       kernelVars, goVars
<1>14. CASE ReadBlocks
  BY <1>t, <1>14 DEF DataInv, ReadBlocks, ioVars, kernelVars, goVars, streamVars
<1>15. CASE ReadData
  <2>1. PICK n \in 1..MaxRead :
          /\ n <= Len(pipe)
          /\ received' = received \o SubSeq(pipe, 1, n)
          /\ pipe' = SubSeq(pipe, n + 1, Len(pipe))
    BY <1>15 DEF ReadData
  <2>2. peekBuf = <<>> /\ Len(peekBuf) = 0 /\ ~isEOF /\ n \in Nat
    BY <1>t, <1>15, SendAssumption DEF ReadData, DataInv, VerdictInv
  <2>3. /\ Len(SubSeq(pipe, 1, n)) = n /\ Len(pipe') = Len(pipe) - n
        /\ SubSeq(pipe, 1, n) \in Seq(Nat)
    BY <1>l, <2>1, <2>2, SplitType
  <2>4. Run(SubSeq(pipe, 1, n), Len(received)) /\ Run(pipe', Len(received) + n)
    BY <1>t, <1>l, <2>1, <2>2, RunSplit DEF DataInv
  <2>5. Run(received', 0) /\ Len(received') = Len(received) + n
    <3>1. Run(received, 0) /\ Run(SubSeq(pipe, 1, n), 0 + Len(received))
      BY <1>t, <1>l, <2>4 DEF DataInv
    <3> QED BY <1>l, <2>1, <2>3, <3>1, RunConcat
  <2>6. /\ UNCHANGED <<peekBuf, isEOF, kpos, gpc, gerr>> /\ cpc' = "idle"
        /\ cpc \in Streaming
    BY <1>15 DEF ReadData, kernelVars, goVars, streamVars
  <2>7. /\ Run(peekBuf', Len(received'))
        /\ Run(pipe', Len(received') + Len(peekBuf'))
        /\ kpos' = Len(received') + Len(peekBuf') + Len(pipe')
    <3>1. Run(peekBuf', Len(received'))
      BY <2>2, <2>6 DEF Run
    <3>2. Len(received') + Len(peekBuf') = Len(received) + n
      BY <1>l, <2>2, <2>5, <2>6
    <3> QED BY <1>t, <1>l, <2>2, <2>3, <2>4, <2>5, <2>6, <3>1, <3>2 DEF DataInv
  <2> QED BY <1>t, <2>2, <2>5, <2>6, <2>7 DEF DataInv
<1>16. CASE ReadEOF
  BY <1>t, <1>16 DEF DataInv, ReadEOF, PipeAtEOF, ioVars, kernelVars, goVars, streamVars
<1>17. CASE ReadEnds
  <2>1. pipe = <<>> /\ peekBuf = <<>> /\ gpc = "done"
    BY <1>t, <1>17 DEF ReadEnds, DataInv, VerdictInv
  <2> QED BY <1>t, <1>17, <2>1 DEF DataInv, ReadEnds, ioVars, kernelVars, goVars
<1>18. CASE ReadOnClosed
  BY <1>t, <1>18 DEF DataInv, ReadOnClosed, ioVars, kernelVars, goVars, streamVars
<1>19. CASE Close
  BY <1>t, <1>19 DEF DataInv, Close, kernelVars, goVars, streamVars
<1>20. CASE UNCHANGED vars
  BY <1>t, <1>20 DEF DataInv, vars, ioVars, kernelVars, goVars, streamVars
<1> QED
  BY <1>1, <1>2, <1>3, <1>4, <1>5, <1>6, <1>7, <1>8, <1>9, <1>10, <1>11, <1>12, <1>13,
     <1>14, <1>15, <1>16, <1>17, <1>18, <1>19, <1>20
  DEF Next, Kernel, Go, Progress, StartRead

LEMMA SendDataInv ==
  ASSUME ~LateENOMEM
  PROVE  Spec => [](IInv /\ DataInv)
<1>1. Init => IInv /\ DataInv
  BY InitIInv, DataInit
<1>2. IInv /\ DataInv /\ [Next]_vars => IInv' /\ DataInv'
  BY TypeStep, VerdictStep, DataStep DEF IInv
<1> QED BY <1>1, <1>2, PTL DEF Spec

(* Unless the kernel answers ENOMEM after output, Send returns a stream    *)
(* only when a byte was written, and fails only when none was.             *)
THEOREM SendFailFast ==
  ASSUME ~LateENOMEM
  PROVE  Spec => []FailFast
<1>1. IInv /\ DataInv => FailFast
  BY DEF DataInv, FailFast
<1> QED BY <1>1, SendDataInv, PTL

(* Unless the kernel answers ENOMEM after output, Read delivers the        *)
(* snapshot stream in order, without a gap or a repetition, and io.EOF is  *)
(* reported only after all of it: Send implements SnapshotTransfer.        *)
THEOREM SendRefinement ==
  ASSUME ~LateENOMEM
  PROVE  Spec => ImplementsTransfer
<1>1. Init => Transfer!Init
  BY DEF Init, Transfer!Init
<1>2. ASSUME IInv, DataInv, IInv', DataInv', [Next]_vars
      PROVE  [Transfer!Next]_Transfer!vars
  <2>t. /\ Len(received) \in Nat /\ Len(peekBuf) \in Nat /\ Len(pipe) \in Nat
        /\ received \in Seq(Nat) /\ peekBuf \in Seq(Nat) /\ pipe \in Seq(Nat)
        /\ received' \in Seq(Nat) /\ Len(received') \in Nat
        /\ kpos \in 0..StreamLen /\ StreamLen \in Nat /\ MaxRead \in Nat
    BY <1>2, LenProperties, SendAssumption DEF IInv, TypeOK
  <2>p. /\ received = Transfer!Prefix(Len(received))
        /\ received' = Transfer!Prefix(Len(received'))
    BY <1>2, <2>t, RunIsPrefix DEF DataInv
  <2> USE DEF Transfer!vars
  <2>d. ASSUME ~isEOF, ~isEOF', Len(received') > Len(received)
        PROVE  Transfer!Deliver
    <3>1. Len(received') \in (Len(received) + 1)..StreamLen
      <4>1. kpos' \in 0..StreamLen /\ Len(peekBuf') \in Nat /\ Len(pipe') \in Nat
        BY <1>2, LenProperties DEF IInv, TypeOK
      <4>2. kpos' = Len(received') + Len(peekBuf') + Len(pipe')
        BY <1>2 DEF DataInv
      <4> QED BY <2>t, <2>d, <4>1, <4>2
    <3> QED BY <2>d, <2>p, <3>1 DEF Transfer!Deliver
  <2>e. ASSUME Latch, gpc = "done", ~isEOF, pipe = <<>>, peekBuf = <<>>,
               UNCHANGED <<received, gerr>>
        PROVE  Transfer!Next
    <3>1. isEOF' /\ lastError' = (IF gerr = "nil" THEN "EOF" ELSE gerr)
      BY <1>2, <2>e DEF IInv, VerdictInv, Latch
    <3>2. CASE gerr = "nil"
      <4>1. Len(received) = StreamLen
        BY <1>2, <2>e, <2>t, <3>2 DEF DataInv
      <4>2. received = Transfer!Prefix(StreamLen)
        BY <2>p, <4>1
      <4>3. Transfer!Complete
        BY <2>e, <3>1, <3>2, <4>2 DEF Transfer!Complete
      <4> QED BY <4>3 DEF Transfer!Next
    <3>3. CASE gerr # "nil"
      <4>1. lastError' # "EOF"
        BY <1>2, <3>1, <3>3 DEF IInv, TypeOK, KernelErrors
      <4> QED BY <2>e, <3>1, <4>1 DEF Transfer!Next, Transfer!Fail
    <3> QED BY <3>2, <3>3
  <2>1. CASE SendPipeFails \/ SendStarts \/ Kernel \/ Go
    BY <2>1 DEF SendPipeFails, SendStarts, Kernel, KernelWrite, KernelDone, KernelFails,
       KernelNoMem, Go, GoReports, GoCloses, streamVars
  <2>2. CASE PeekData \/ PeekEOF \/ ReadBlocks \/ ReadEOF \/ ReadOnClosed \/ Close
    BY <2>2 DEF PeekData, PeekEOF, ReadBlocks, ReadEOF, ReadOnClosed, Close, streamVars
  <2>3. CASE ReadLatched \/ UNCHANGED vars
    BY <2>3 DEF ReadLatched, vars, streamVars
  <2>4. CASE ReadPeeked
    <3>1. PICK n \in 1..MaxRead :
            LET m == IF n < Len(peekBuf) THEN n ELSE Len(peekBuf)
            IN  received' = received \o SubSeq(peekBuf, 1, m)
      BY <2>4 DEF ReadPeeked
    <3> DEFINE m == IF n < Len(peekBuf) THEN n ELSE Len(peekBuf)
    <3>2. m \in Nat /\ m > 0 /\ m <= Len(peekBuf)
      BY <2>t, <2>4 DEF ReadPeeked
    <3>3. received' = received \o SubSeq(peekBuf, 1, m)
      BY <3>1
    <3> HIDE DEF m
    <3>4. Len(received') = Len(received) + m
      BY <2>t, <3>2, <3>3, SplitType, ConcatProperties
    <3> QED BY <2>d, <2>t, <2>4, <3>2, <3>4 DEF ReadPeeked, Transfer!Next
  <2>5. CASE ReadData
    <3>1. PICK n \in 1..MaxRead : n <= Len(pipe) /\ received' = received \o SubSeq(pipe, 1, n)
      BY <2>5 DEF ReadData
    <3>2. Len(received') = Len(received) + n
      BY <2>t, <3>1, SplitType, ConcatProperties
    <3>3. ~isEOF /\ ~isEOF'
      BY <1>2, <2>5 DEF ReadData, IInv, VerdictInv, streamVars
    <3> QED BY <2>d, <2>t, <3>1, <3>2, <3>3 DEF Transfer!Next
  <2>6. CASE PeekFails
    BY <1>2, <2>e, <2>6 DEF PeekFails, IInv, VerdictInv, DataInv, goVars
  <2>7. CASE ReadEnds
    BY <1>2, <2>e, <2>7 DEF ReadEnds, IInv, VerdictInv, DataInv, goVars
  <2> QED BY <1>2, <2>1, <2>2, <2>3, <2>4, <2>5, <2>6, <2>7 DEF Next, Progress, StartRead
<1> QED BY <1>1, <1>2, SendDataInv, PTL DEF Spec, ImplementsTransfer, Transfer!Spec

EOFMeansAll == isEOF /\ lastError = "EOF" => received = Transfer!Prefix(StreamLen)

(* Unless the kernel answers ENOMEM after output, a caller that sees       *)
(* io.EOF has got exactly the snapshot stream.                             *)
THEOREM SendEOFMeansAll ==
  ASSUME ~LateENOMEM
  PROVE  Spec => []EOFMeansAll
<1>1. ASSUME IInv, DataInv, isEOF, lastError = "EOF" PROVE received = Transfer!Prefix(StreamLen)
  <2>1. gerr = "nil"
    BY <1>1 DEF IInv, VerdictInv, TypeOK, KernelErrors
  <2>2. received \in Seq(Nat) /\ Run(received, 0) /\ Len(received) \in Nat
    BY <1>1, LenProperties DEF IInv, TypeOK, DataInv
  <2>3. Len(received) = StreamLen
    BY <1>1, <2>1, <2>2 DEF DataInv
  <2> QED BY <2>2, <2>3, RunIsPrefix
<1>2. IInv /\ DataInv => EOFMeansAll
  BY <1>1 DEF EOFMeansAll
<1> QED BY <1>2, SendDataInv, PTL

-----------------------------------------------------------------------------
(* End of file, with any kernel: also with one that answers ENOMEM after   *)
(* output and is made to write the stream anew by NvlistIoctl.             *)
Written == (received \o peekBuf) \o pipe

EndsWith(s, k) == k <= Len(s) /\ \A i \in 1..k : s[Len(s) - k + i] = i

(* What the present execution of the handler has written is the end of all *)
(* that was written.                                                       *)
SuffixInv ==
  /\ EndsWith(Written, kpos)
  /\ gpc \in {"report", "close", "done"} /\ gerr = "nil" => kpos = StreamLen
  /\ cpc \in {"start", "peek", "peekWait", "failed", "read", "readWait"} => peekBuf = <<>>
  /\ cpc \in {"peekWait", "readWait"} => pipe = <<>>
  /\ isEOF => pipe = <<>> /\ peekBuf = <<>> /\ gpc = "done"

EOFMeansWhole == isEOF /\ lastError = "EOF" => EndsWith(received, StreamLen)


LEMMA WrittenType ==
  ASSUME TypeOK
  PROVE  /\ Written \in Seq(Nat) /\ Len(Written) \in Nat
         /\ received \in Seq(Nat) /\ peekBuf \in Seq(Nat) /\ pipe \in Seq(Nat)
<1>1. received \in Seq(Nat) /\ peekBuf \in Seq(Nat) /\ pipe \in Seq(Nat)
  BY DEF TypeOK
<1>2. received \o peekBuf \in Seq(Nat)
  BY <1>1, ConcatProperties
<1>3. Written \in Seq(Nat)
  BY <1>1, <1>2, ConcatProperties DEF Written
<1> QED BY <1>1, <1>3, LenProperties

(* What a read takes and what it leaves are what there was.                *)
LEMMA SplitJoins ==
  ASSUME NEW q \in Seq(Nat), NEW n \in Nat, n <= Len(q)
  PROVE  SubSeq(q, 1, n) \o SubSeq(q, n + 1, Len(q)) = q
<1>1. Len(q) \in Nat
  BY LenProperties
<1>2. 1 \in 1..(Len(q) + 1) /\ n \in (1 - 1)..Len(q) /\ Len(q) \in n..Len(q)
  BY <1>1
<1>3. SubSeq(q, 1, n) \o SubSeq(q, n + 1, Len(q)) = SubSeq(q, 1, Len(q))
  BY <1>2, ConcatAdjacentSubSeq
<1> QED BY <1>3, SubSeqFull

LEMMA Regroup == \A r, b, q \in Seq(Nat) : (r \o b) \o q = r \o (b \o q)
<1> SUFFICES ASSUME NEW r \in Seq(Nat), NEW b \in Seq(Nat), NEW q \in Seq(Nat)
             PROVE  (r \o b) \o q = r \o (b \o q)
  BY SMTT(30)
<1>0. Len(r) \in Nat /\ Len(b) \in Nat /\ Len(q) \in Nat
  BY LenProperties
<1>1. /\ r \o b \in Seq(Nat) /\ Len(r \o b) = Len(r) + Len(b)
      /\ \A i \in 1..(Len(r) + Len(b)) : (r \o b)[i] = IF i <= Len(r) THEN r[i] ELSE b[i - Len(r)]
  BY ConcatProperties
<1>2. /\ b \o q \in Seq(Nat) /\ Len(b \o q) = Len(b) + Len(q)
      /\ \A i \in 1..(Len(b) + Len(q)) : (b \o q)[i] = IF i <= Len(b) THEN b[i] ELSE q[i - Len(b)]
  BY ConcatProperties
<1> DEFINE x == r \o b
           y == b \o q
<1> HIDE DEF x, y
<1>3. /\ x \o q \in Seq(Nat) /\ Len(x \o q) = Len(r) + Len(b) + Len(q)
      /\ \A i \in 1..(Len(r) + Len(b) + Len(q)) :
            (x \o q)[i] = IF i <= Len(x) THEN x[i] ELSE q[i - Len(x)]
  BY <1>1, ConcatProperties DEF x
<1>4. /\ r \o y \in Seq(Nat) /\ Len(r \o y) = Len(r) + (Len(b) + Len(q))
      /\ \A i \in 1..(Len(r) + (Len(b) + Len(q))) :
            (r \o y)[i] = IF i <= Len(r) THEN r[i] ELSE y[i - Len(r)]
  BY <1>2, ConcatProperties DEF y
<1>5. ASSUME NEW i \in 1..(Len(r) + Len(b) + Len(q)) PROVE (x \o q)[i] = (r \o y)[i]
  <2>1. CASE i <= Len(r)
    BY <1>0, <1>1, <1>3, <1>4, <2>1 DEF x
  <2>2. CASE Len(r) < i /\ i <= Len(r) + Len(b)
    <3>1. i - Len(r) \in 1..(Len(b) + Len(q)) /\ i - Len(r) <= Len(b)
      BY <1>0, <2>2
    <3>2. y[i - Len(r)] = b[i - Len(r)]
      BY <1>2, <3>1 DEF y
    <3> QED BY <1>0, <1>1, <1>3, <1>4, <2>2, <3>2 DEF x
  <2>3. CASE Len(r) + Len(b) < i
    <3>1. /\ i - Len(r) \in 1..(Len(b) + Len(q)) /\ ~(i - Len(r) <= Len(b))
          /\ (i - Len(r)) - Len(b) = i - (Len(r) + Len(b))
      BY <1>0, <2>3
    <3>2. y[i - Len(r)] = q[i - (Len(r) + Len(b))]
      BY <1>2, <3>1 DEF y
    <3> QED BY <1>0, <1>1, <1>3, <1>4, <2>3, <3>2 DEF x
  <2>4. i <= Len(r) \/ (Len(r) < i /\ i <= Len(r) + Len(b)) \/ Len(r) + Len(b) < i
    BY <1>0
  <2> QED BY <2>1, <2>2, <2>3, <2>4, Zenon
<1>6. x \o q = r \o y
  <2> DEFINE v == x \o q
             w == r \o y
  <2>1. v \in Seq(Nat) /\ w \in Seq(Nat) /\ Len(v) = Len(w)
    BY <1>0, <1>3, <1>4
  <2>2. \A i \in 1..Len(v) : v[i] = w[i]
    BY <1>3, <1>5
  <2> HIDE DEF v, w
  <2>3. v = w
    BY <2>1, <2>2, SeqEqual
  <2> QED BY <2>3 DEF v, w
<1> QED BY <1>6 DEF x, y

(* Taking one byte (peek), taking from peekBuf and taking from the pipe    *)
(* (Read) moves bytes without changing their order.                        *)
LEMMA PeekMoves ==
  ASSUME NEW r \in Seq(Nat), NEW b \in Seq(Nat), NEW q \in Seq(Nat), q # <<>>
  PROVE  (r \o Append(b, Head(q))) \o Tail(q) = (r \o b) \o q
<1>1. /\ Head(q) \in Nat /\ Tail(q) \in Seq(Nat) /\ Len(q) \in Nat /\ Len(q) > 0
      /\ Head(q) = q[1] /\ Len(Tail(q)) = Len(q) - 1
      /\ \A i \in 1..(Len(q) - 1) : Tail(q)[i] = q[i + 1]
  BY HeadTailProperties, LenProperties, EmptySeq
<1> DEFINE x == Append(b, Head(q))
<1>2. /\ x \in Seq(Nat) /\ Len(b) \in Nat /\ Len(x) = Len(b) + 1
      /\ x[Len(b) + 1] = q[1] /\ \A i \in 1..Len(b) : x[i] = b[i]
  BY <1>1, AppendProperties, LenProperties
<1> HIDE DEF x
<1>3. x \o Tail(q) = b \o q
  <2>1. /\ x \o Tail(q) \in Seq(Nat) /\ Len(x \o Tail(q)) = Len(x) + Len(Tail(q))
        /\ \A i \in 1..(Len(x) + Len(Tail(q))) :
             (x \o Tail(q))[i] = IF i <= Len(x) THEN x[i] ELSE Tail(q)[i - Len(x)]
    BY <1>1, <1>2, ConcatProperties
  <2>2. /\ b \o q \in Seq(Nat) /\ Len(b \o q) = Len(b) + Len(q)
        /\ \A i \in 1..(Len(b) + Len(q)) :
             (b \o q)[i] = IF i <= Len(b) THEN b[i] ELSE q[i - Len(b)]
    BY ConcatProperties
  <2>3. Len(x) + Len(Tail(q)) = Len(b) + Len(q)
    BY <1>1, <1>2
  <2>4. ASSUME NEW i \in 1..(Len(b) + Len(q)) PROVE (x \o Tail(q))[i] = (b \o q)[i]
    <3>1. CASE i <= Len(b)
      BY <1>2, <2>1, <2>2, <2>3, <3>1
    <3>2. CASE i = Len(b) + 1
      BY <1>1, <1>2, <2>1, <2>2, <2>3, <3>2
    <3>3. CASE i > Len(b) + 1
      <4>1. i - Len(x) \in 1..(Len(q) - 1) /\ (i - Len(x)) + 1 = i - Len(b)
        BY <1>1, <1>2, <3>3
      <4>2. Tail(q)[i - Len(x)] = q[i - Len(b)]
        BY <1>1, <4>1
      <4>3. (b \o q)[i] = q[i - Len(b)]
        BY <1>2, <2>2, <3>3
      <4>4. i \in 1..(Len(x) + Len(Tail(q))) /\ ~(i <= Len(x))
        BY <1>1, <1>2, <2>3, <3>3
      <4>5. (x \o Tail(q))[i] = Tail(q)[i - Len(x)]
        BY <2>1, <4>4
      <4> QED BY <4>2, <4>3, <4>5
    <3> QED BY <1>2, <3>1, <3>2, <3>3
  <2> QED BY <2>1, <2>2, <2>3, <2>4, SeqEqual
<1>4. (r \o x) \o Tail(q) = r \o (x \o Tail(q)) /\ (r \o b) \o q = r \o (b \o q)
  BY <1>1, <1>2, Regroup, ZenonT(40)
<1> QED BY <1>3, <1>4 DEF x

LEMMA ReadMoves ==
  ASSUME NEW r \in Seq(Nat), NEW q \in Seq(Nat), NEW n \in Nat, n <= Len(q)
  PROVE  (r \o SubSeq(q, 1, n)) \o SubSeq(q, n + 1, Len(q)) = r \o q
<1>1. SubSeq(q, 1, n) \in Seq(Nat) /\ SubSeq(q, n + 1, Len(q)) \in Seq(Nat)
  BY SplitType
<1>2. (r \o SubSeq(q, 1, n)) \o SubSeq(q, n + 1, Len(q))
        = r \o (SubSeq(q, 1, n) \o SubSeq(q, n + 1, Len(q)))
  BY <1>1, Regroup, Zenon
<1> QED BY <1>2, SplitJoins

LEMMA WriteExtends ==
  ASSUME NEW w \in Seq(Nat), NEW q \in Seq(Nat), NEW k \in Nat, EndsWith(w \o q, k)
  PROVE  EndsWith(w \o Append(q, k + 1), k + 1)
<1>1. /\ Append(q, k + 1) \in Seq(Nat) /\ Len(q) \in Nat /\ Len(w) \in Nat
      /\ Len(Append(q, k + 1)) = Len(q) + 1
      /\ Append(q, k + 1)[Len(q) + 1] = k + 1
      /\ \A i \in 1..Len(q) : Append(q, k + 1)[i] = q[i]
  BY AppendProperties, LenProperties
<1> DEFINE x == Append(q, k + 1)
           m == Len(w) + Len(q)
<1> HIDE DEF x
<1>2. /\ Len(w \o q) = m
      /\ \A i \in 1..m : (w \o q)[i] = IF i <= Len(w) THEN w[i] ELSE q[i - Len(w)]
  BY ConcatProperties
<1>3. /\ Len(w \o x) = m + 1
      /\ \A i \in 1..(m + 1) : (w \o x)[i] = IF i <= Len(w) THEN w[i] ELSE x[i - Len(w)]
  BY <1>1, ConcatProperties DEF x
<1>4. k <= m /\ \A i \in 1..k : (w \o q)[m - k + i] = i
  BY <1>2 DEF EndsWith
<1>5. ASSUME NEW i \in 1..(k + 1) PROVE (w \o x)[(m + 1) - (k + 1) + i] = i
  <2>0. (m + 1) - (k + 1) + i = m - k + i /\ m - k + i \in 1..(m + 1)
    BY <1>1, <1>4
  <2>1. CASE i = k + 1
    <3>1. m - k + i = m + 1 /\ ~(m + 1 <= Len(w)) /\ (m + 1) - Len(w) = Len(q) + 1
      BY <1>1, <2>1
    <3> QED BY <1>1, <1>3, <2>0, <2>1, <3>1 DEF x
  <2>2. CASE i # k + 1
    <3>1. i \in 1..k /\ m - k + i \in 1..m
      BY <1>1, <1>4, <2>2
    <3>2. (w \o q)[m - k + i] = i
      BY <1>4, <3>1
    <3>3. (w \o x)[m - k + i] = (w \o q)[m - k + i]
      <4>1. CASE m - k + i <= Len(w)
        BY <1>2, <1>3, <2>0, <3>1, <4>1
      <4>2. CASE ~(m - k + i <= Len(w))
        <5>1. (m - k + i) - Len(w) \in 1..Len(q)
          BY <1>1, <1>4, <3>1, <4>2
        <5> QED BY <1>1, <1>2, <1>3, <2>0, <3>1, <4>2, <5>1 DEF x
      <4> QED BY <4>1, <4>2
    <3> QED BY <2>0, <3>2, <3>3
  <2> QED BY <2>1, <2>2
<1>6. k + 1 <= m + 1
  BY <1>1, <1>4
<1> QED BY <1>3, <1>5, <1>6 DEF EndsWith, x

(* Whatever the caller does with the bytes, and whatever the goroutine     *)
(* does, keeps what was written; only the kernel adds to it.               *)
LEMMA WrittenKept ==
  ASSUME IInv, SuffixInv, [Next]_vars, ~KernelWrite
  PROVE  Written' = Written
<1>t. /\ TypeOK /\ received \in Seq(Nat) /\ peekBuf \in Seq(Nat) /\ pipe \in Seq(Nat)
      /\ Len(received) \in Nat /\ Len(peekBuf) \in Nat /\ Len(pipe) \in Nat
  BY WrittenType, LenProperties DEF IInv
<1>1. CASE PeekData
  <2>1. /\ received' = received /\ pipe # <<>> /\ pipe' = Tail(pipe)
        /\ peekBuf' = Append(peekBuf, Head(pipe))
    BY <1>1 DEF PeekData
  <2> QED BY <1>t, <2>1, PeekMoves DEF Written
<1>2. CASE ReadPeeked
  <2>1. PICK n \in 1..MaxRead :
          LET m == IF n < Len(peekBuf) THEN n ELSE Len(peekBuf)
          IN  /\ received' = received \o SubSeq(peekBuf, 1, m)
              /\ peekBuf' = SubSeq(peekBuf, m + 1, Len(peekBuf))
    BY <1>2 DEF ReadPeeked
  <2> DEFINE m == IF n < Len(peekBuf) THEN n ELSE Len(peekBuf)
  <2>2. m \in Nat /\ m <= Len(peekBuf)
    BY <1>t
  <2> HIDE DEF m
  <2>3. /\ received' = received \o SubSeq(peekBuf, 1, m) /\ pipe' = pipe
        /\ peekBuf' = SubSeq(peekBuf, m + 1, Len(peekBuf))
    BY <1>2, <2>1 DEF m, ReadPeeked, ioVars
  <2>4. received' \o peekBuf' = received \o peekBuf
    BY <1>t, <2>2, <2>3, ReadMoves
  <2> QED BY <2>3, <2>4 DEF Written
<1>3. CASE ReadData
  <2>1. PICK n \in 1..MaxRead :
          /\ n <= Len(pipe)
          /\ received' = received \o SubSeq(pipe, 1, n)
          /\ pipe' = SubSeq(pipe, n + 1, Len(pipe))
    BY <1>3 DEF ReadData
  <2>2. peekBuf = <<>> /\ peekBuf' = <<>> /\ n \in Nat
    BY <1>3, SendAssumption DEF ReadData, SuffixInv, streamVars
  <2>3. received' \in Seq(Nat)
    BY <1>t, <2>1, <2>2, SplitType, ConcatProperties
  <2>4. received' \o pipe' = received \o pipe
    BY <1>t, <2>1, <2>2, ReadMoves, ZenonT(30)
  <2>5. received' \o <<>> = received' /\ received \o <<>> = received
    BY <1>t, <2>3, ConcatEmptySeq
  <2> QED BY <2>2, <2>4, <2>5 DEF Written
<1>4. CASE UNCHANGED <<received, peekBuf, pipe>>
  BY <1>4 DEF Written
<1>5. CASE SendPipeFails \/ SendStarts \/ KernelDone \/ KernelFails \/ KernelNoMem
             \/ GoReports \/ GoCloses
  BY <1>4, <1>5 DEF SendPipeFails, SendStarts, KernelDone, KernelFails, KernelNoMem,
     GoReports, GoCloses, ioVars, streamVars
<1>6. CASE PeekEOF \/ PeekFails \/ ReadEOF \/ ReadEnds \/ ReadOnClosed \/ ReadLatched
             \/ ReadBlocks \/ Close \/ UNCHANGED vars
  BY <1>4, <1>6 DEF PeekEOF, PeekFails, ReadEOF, ReadEnds, ReadOnClosed, ReadLatched,
     ReadBlocks, Close, vars, ioVars, streamVars
<1> QED BY <1>1, <1>2, <1>3, <1>5, <1>6 DEF Next, Kernel, Go, Progress, StartRead

LEMMA SuffixStep == IInv /\ SuffixInv /\ [Next]_vars => SuffixInv'
<1> SUFFICES ASSUME IInv, SuffixInv, [Next]_vars PROVE SuffixInv'
  OBVIOUS
<1>t. TypeOK /\ VerdictInv /\ SuffixInv
  BY DEF IInv
<1>k. kpos \in Nat /\ StreamLen \in Nat
  BY <1>t, SendAssumption DEF TypeOK
<1>w. ~KernelWrite /\ kpos' = kpos => EndsWith(Written, kpos)'
  BY WrittenKept DEF SuffixInv, EndsWith
<1> USE DEF SuffixInv
<1>1. CASE SendPipeFails \/ SendStarts
  <2>1. ~KernelWrite /\ gpc = "unstarted" /\ ~isEOF
    BY <1>t, <1>1 DEF SendPipeFails, SendStarts, KernelWrite, VerdictInv
  <2> QED BY <1>t, <1>w, <1>1, <2>1 DEF SendPipeFails, SendStarts, ioVars, kernelVars, goVars,
         streamVars
<1>2. CASE KernelWrite
  <2>1. (received \o peekBuf) \in Seq(Nat) /\ pipe \in Seq(Nat)
    BY <1>t, WrittenType, ConcatProperties
  <2>2. EndsWith((received \o peekBuf) \o Append(pipe, kpos + 1), kpos + 1)
    BY <1>k, <2>1, WriteExtends DEF Written
  <2>3. EndsWith(Written, kpos)'
    BY <1>2, <2>2 DEF KernelWrite, Written, streamVars, EndsWith
  <2>4. gpc = "ioctl" /\ ~isEOF /\ cpc \notin {"peekWait", "readWait"}
    BY <1>t, <1>2 DEF KernelWrite, VerdictInv
  <2> QED BY <1>2, <2>3, <2>4 DEF KernelWrite, goVars, streamVars
<1>3. CASE KernelDone \/ KernelFails
  <2>1. gpc = "ioctl" /\ ~isEOF /\ ~KernelWrite
    BY <1>t, <1>3 DEF KernelDone, KernelFails, KernelWrite, VerdictInv, IoctlReturns, goVars
  <2> QED BY <1>w, <1>3, <2>1 DEF KernelDone, KernelFails, IoctlReturns, ioVars, kernelVars,
         streamVars
<1>4. CASE KernelNoMem
  <2>1. gpc = "ioctl" /\ ~isEOF
    BY <1>t, <1>4 DEF KernelNoMem, VerdictInv
  <2>2. EndsWith(Written, kpos)'
    <3>1. CASE Exhausted(dst)
      <4>1. ~KernelWrite /\ kpos' = kpos
        BY <1>4, <3>1, <2>1 DEF KernelNoMem, KernelWrite, IoctlReturns, goVars, kernelVars
      <4> QED BY <1>w, <4>1
    <3>2. CASE ~Exhausted(dst)
      <4>1. kpos' = 0 /\ Written' = Written
        BY <1>4, <3>2 DEF KernelNoMem, Written, ioVars, streamVars
      <4>2. Len(Written) \in Nat
        BY <1>t, WrittenType
      <4> QED BY <4>1, <4>2 DEF EndsWith
    <3> QED BY <3>1, <3>2
  <2> QED BY <1>4, <2>1, <2>2 DEF KernelNoMem, IoctlReturns, ioVars, kernelVars, goVars,
         streamVars
<1>5. CASE GoReports \/ GoCloses
  <2>1. gpc \in {"report", "close"} /\ ~KernelWrite /\ ~isEOF
    <3>1. gpc \in {"report", "close"} /\ ~KernelWrite
      BY <1>5 DEF GoReports, GoCloses, KernelWrite
    <3> QED BY <1>t, <3>1 DEF SuffixInv
  <2> QED BY <1>w, <1>5, <2>1 DEF GoReports, GoCloses, ioVars, kernelVars, streamVars
<1>6. CASE Progress \/ StartRead \/ Close \/ UNCHANGED vars
  <2>0. kpos' = kpos /\ gpc' = gpc /\ gerr' = gerr
    BY <1>6 DEF Progress, StartRead, PeekData, PeekEOF, PeekFails, ReadData, ReadEOF, ReadEnds,
       ReadOnClosed, ReadLatched, ReadPeeked, ReadBlocks, Close, vars, kernelVars, goVars
  <2>w. EndsWith(Written, kpos)'
    <3>1. ~KernelWrite
      BY <1>k, <2>0 DEF KernelWrite
    <3> QED BY <1>w, <2>0, <3>1
  <2>1. CASE PeekData
    BY <1>t, <2>0, <2>w, <2>1 DEF PeekData, VerdictInv
  <2>2. CASE PeekEOF \/ ReadEOF
    BY <2>0, <2>w, <2>2 DEF PeekEOF, ReadEOF, PipeAtEOF, ioVars, streamVars
  <2>3. CASE PeekFails \/ ReadEnds
    <3>1. gpc = "done" /\ pipe = <<>> /\ peekBuf = <<>>
      BY <1>t, <2>3 DEF PeekFails, ReadEnds, VerdictInv
    <3> QED BY <2>0, <2>w, <2>3, <3>1 DEF PeekFails, ReadEnds, ioVars
  <2>4. CASE ReadData
    <3>1. ~isEOF /\ ~isEOF' /\ cpc' = "idle"
      BY <1>t, <2>4 DEF ReadData, VerdictInv, streamVars
    <3> QED BY <2>0, <2>w, <3>1
  <2>5. CASE ReadPeeked
    <3>1. ~isEOF /\ ~isEOF' /\ cpc' = "idle"
      BY <2>5 DEF ReadPeeked
    <3> QED BY <2>0, <2>w, <3>1
  <2>6. CASE ReadBlocks \/ ReadOnClosed
    BY <2>0, <2>w, <2>6 DEF ReadBlocks, ReadOnClosed, ioVars, streamVars
  <2>7. CASE Close
    BY <2>0, <2>w, <2>7 DEF Close, streamVars
  <2>8. CASE ReadLatched \/ UNCHANGED vars
    BY <2>0, <2>w, <2>8 DEF ReadLatched, vars, ioVars, streamVars
  <2> QED BY <1>6, <2>1, <2>2, <2>3, <2>4, <2>5, <2>6, <2>7, <2>8 DEF Progress, StartRead
<1> QED BY <1>1, <1>2, <1>3, <1>4, <1>5, <1>6 DEF Next, Kernel, Go

(* With any kernel, when Read reports io.EOF the last StreamLen bytes it   *)
(* has delivered are the whole snapshot stream: a repeated ioctl can only  *)
(* have put beginnings of the stream in front of it.                       *)
THEOREM SendEOFMeansWhole == Spec => []EOFMeansWhole
<1>1. Init => SuffixInv
  <2> SUFFICES ASSUME Init PROVE SuffixInv
    OBVIOUS
  <2>1. TypeOK
    BY InitIInv DEF IInv
  <2>2. EndsWith(Written, kpos)
    BY <2>1, WrittenType DEF Init, EndsWith
  <2> QED BY <2>2 DEF Init, SuffixInv
<1>2. ASSUME IInv, SuffixInv, isEOF, lastError = "EOF" PROVE EndsWith(received, StreamLen)
  <2>1. pipe = <<>> /\ peekBuf = <<>> /\ gpc = "done"
    BY <1>2 DEF SuffixInv
  <2>2. received \in Seq(Nat)
    BY <1>2 DEF IInv, TypeOK
  <2>3. Written = received
    <3>1. received \o <<>> = received
      BY <2>2, ConcatEmptySeq
    <3> QED BY <2>1, <3>1 DEF Written
  <2>4. gerr = "nil"
    BY <1>2 DEF IInv, VerdictInv, TypeOK, KernelErrors
  <2> QED BY <1>2, <2>1, <2>3, <2>4 DEF SuffixInv
<1>3. IInv /\ SuffixInv => EOFMeansWhole
  BY <1>2 DEF EOFMeansWhole
<1> QED BY <1>1, <1>3, SuffixStep, SendIInv, PTL DEF Spec

-----------------------------------------------------------------------------
(* Who can take a step: the guards of KernelRuns, Go and Progress.         *)
KernelCanRun == gpc = "ioctl" /\ (kpos = StreamLen \/ ~rOpen \/ Len(pipe) < PipeCap)
GoCanRun == (gpc = "report" /\ Len(errorChan) < 1) \/ gpc = "close"
CallerCanRun ==
  \/ cpc = "peek" /\ (pipe # <<>> \/ PipeAtEOF)
  \/ cpc = "read" /\ (~rOpen \/ pipe # <<>> \/ PipeAtEOF)
  \/ cpc \in {"peekWait", "readWait"} /\ errorChan # <<>>

(* Nobody waits for somebody who waits: a call of Send or Read always has  *)
(* an actor that can go on, and the goroutine waits at most for a caller   *)
(* between two calls.                                                      *)
NeverStuck ==
  /\ cpc \in {"peek", "peekWait", "read", "readWait"} =>
       KernelCanRun \/ GoCanRun \/ CallerCanRun
  /\ gpc \in {"ioctl", "report", "close"} =>
       KernelCanRun \/ GoCanRun \/ CallerCanRun \/ cpc = "idle"

OpenInv ==
  /\ cpc \in {"peek", "peekWait"} => rOpen
  /\ gpc = "done" => ~wOpen


LEMMA OpenStep == IInv /\ OpenInv /\ [Next]_vars => OpenInv'
<1> SUFFICES ASSUME IInv, OpenInv, [Next]_vars PROVE OpenInv'
  OBVIOUS
<1>t. VerdictInv
  BY DEF IInv
<1> USE DEF OpenInv
<1>1. CASE SendPipeFails \/ SendStarts
  BY <1>t, <1>1 DEF SendPipeFails, SendStarts, VerdictInv, ioVars, goVars
<1>2. CASE Kernel
  BY <1>2 DEF Kernel, KernelWrite, KernelDone, KernelFails, KernelNoMem, IoctlReturns, ioVars,
     goVars
<1>3. CASE Go
  BY <1>3 DEF Go, GoReports, GoCloses, ioVars
<1>4. CASE PeekData \/ PeekEOF \/ PeekFails
  BY <1>4 DEF PeekData, PeekEOF, PeekFails, ioVars, goVars
<1>5. CASE ReadData \/ ReadEOF \/ ReadEnds \/ ReadOnClosed
  BY <1>5 DEF ReadData, ReadEOF, ReadEnds, ReadOnClosed, ioVars, goVars
<1>6. CASE StartRead \/ UNCHANGED vars
  <2>1. UNCHANGED <<rOpen, wOpen, gpc>> /\ (cpc' = cpc \/ cpc' = "read")
    BY <1>6 DEF StartRead, ReadLatched, ReadPeeked, ReadBlocks, vars, ioVars, goVars
  <2> QED BY <2>1
<1>7. CASE Close
  BY <1>7 DEF Close, Streaming, goVars
<1> QED BY <1>1, <1>2, <1>3, <1>4, <1>5, <1>6, <1>7 DEF Next, Progress

(* Send, Read, the goroutine and the kernel never all wait: a full pipe, an *)
(* empty pipe, the channel errorChan or the closing of an end always lets   *)
(* one of them go on, whatever the kernel answered and whoever closed what. *)
THEOREM SendNeverStuck == Spec => []NeverStuck
<1>1. Init => OpenInv
  BY DEF Init, OpenInv
<1>2. ASSUME IInv, OpenInv PROVE NeverStuck
  <2>t. /\ TypeOK /\ VerdictInv /\ PipeCap \in Nat /\ PipeCap > 0
        /\ Len(<<>>) = 0 /\ Len(pipe) \in Nat
    BY <1>2, SendAssumption, LenProperties, EmptySeq DEF IInv, TypeOK
  <2>1. gpc \in {"report", "close"} => GoCanRun
    <3>1. gpc = "report" => Len(errorChan) < 1
      BY <2>t DEF VerdictInv
    <3> QED BY <3>1 DEF GoCanRun
  <2>2. gpc = "ioctl" /\ ~KernelCanRun => pipe # <<>> /\ rOpen
    BY <2>t DEF KernelCanRun
  <2>3. cpc \in {"peek", "read"} /\ pipe # <<>> => CallerCanRun
    BY DEF CallerCanRun
  <2>4. cpc \in {"peekWait", "readWait"} => CallerCanRun
    <3>1. cpc \in {"peekWait", "readWait"} => errorChan # <<>>
      BY <2>t DEF VerdictInv
    <3> QED BY <3>1 DEF CallerCanRun
  <2>5. cpc \in {"peek", "read"} /\ gpc = "done" => CallerCanRun
    BY <1>2 DEF OpenInv, CallerCanRun, PipeAtEOF
  <2>6. cpc \in {"peek", "read"} => gpc # "unstarted"
    BY <2>t DEF VerdictInv
  <2>7. gpc = "ioctl" => cpc \notin {"start", "failed"}
    BY <2>t DEF VerdictInv
  <2> QED BY <2>t, <2>1, <2>2, <2>3, <2>4, <2>5, <2>6, <2>7 DEF NeverStuck, TypeOK, Streaming
<1>3. IInv /\ OpenInv => NeverStuck
  BY <1>2
<1> QED BY <1>1, <1>3, OpenStep, SendIInv, PTL DEF Spec

-----------------------------------------------------------------------------
(* The work the kernel and the goroutine have still to do. *)
LengthsLeft(d) ==
  IF d = 8192 THEN 4 ELSE IF d = 65536 THEN 3 ELSE IF d = 524288 THEN 2
  ELSE IF d = 4194304 THEN 1 ELSE 0

WritesLeft == LengthsLeft(dst) * (StreamLen + 1) + (StreamLen - kpos)

SenderLeft ==
  IF gpc = "unstarted" THEN WritesLeft + 4 ELSE IF gpc = "ioctl" THEN WritesLeft + 3
  ELSE IF gpc = "report" THEN 2 ELSE IF gpc = "close" THEN 1 ELSE 0

SenderSteps == SendStarts \/ Kernel \/ Go

SenderAdvances ==
  /\ SenderLeft \in Nat /\ SenderLeft' \in Nat
  /\ SenderSteps => SenderLeft' < SenderLeft
  /\ ~SenderSteps => SenderLeft' = SenderLeft

LEMMA GrowTakesOne ==
  ASSUME NEW d \in DstSizes
  PROVE  /\ LengthsLeft(d) \in Nat
         /\ ~Exhausted(d) => LengthsLeft(Grow(d)) + 1 = LengthsLeft(d)
BY DEF DstSizes, LengthsLeft, Exhausted, Grow, DstLimit

LEMMA WritesOrder ==
  ASSUME NEW l \in Nat, NEW n \in Nat, NEW k \in 0..n
  PROVE  /\ l * (n + 1) + (n - k) \in Nat
         /\ k < n => l * (n + 1) + (n - (k + 1)) < l * (n + 1) + (n - k)
         /\ l * (n + 1) + (n - 0) < (l + 1) * (n + 1) + (n - k)
<1>1. l * (n + 1) \in Nat /\ (l + 1) * (n + 1) = l * (n + 1) + (n + 1)
  OBVIOUS
<1>2. PICK p \in Nat : p = l * (n + 1)
  BY <1>1
<1>3. (l + 1) * (n + 1) = p + (n + 1)
  BY <1>1, <1>2
<1>4. /\ p + (n - k) \in Nat
      /\ k < n => p + (n - (k + 1)) < p + (n - k)
      /\ p + (n - 0) < (p + (n + 1)) + (n - k)
  OBVIOUS
<1> QED BY <1>2, <1>3, <1>4

LEMMA WritesLeftNat == TypeOK => WritesLeft \in Nat /\ SenderLeft \in Nat
<1> SUFFICES ASSUME TypeOK PROVE WritesLeft \in Nat /\ SenderLeft \in Nat
  OBVIOUS
<1>1. LengthsLeft(dst) \in Nat /\ StreamLen \in Nat /\ kpos \in 0..StreamLen
  BY GrowTakesOne, SendAssumption DEF TypeOK
<1>2. WritesLeft \in Nat
  BY <1>1, WritesOrder DEF WritesLeft
<1> QED BY <1>2 DEF SenderLeft

(* Send's goroutine and the kernel working for it take at most 5 *         *)
(* (StreamLen + 1) + 3 steps, whatever the caller does and however often   *)
(* the ioctl is repeated: each step leaves fewer to come, and no step of   *)
(* the caller adds one.                                                    *)
THEOREM SendStepsBounded == Spec => [][SenderAdvances]_vars
<1>1. ASSUME IInv, TypeOK', Next PROVE SenderAdvances
  <2>0. /\ LengthsLeft(dst) \in Nat /\ StreamLen \in Nat /\ kpos \in 0..StreamLen
        /\ WritesLeft \in Nat /\ SenderLeft \in Nat
    BY <1>1, GrowTakesOne, WritesLeftNat, SendAssumption DEF IInv, TypeOK
  <2>1. WritesLeft' \in Nat /\ SenderLeft' \in Nat
    <3>1. (TypeOK => WritesLeft \in Nat /\ SenderLeft \in Nat)'
      BY WritesLeftNat, PTL
    <3> QED BY <1>1, <3>1
  <2>2. CASE SenderSteps
    <3>1. CASE SendStarts
      <4>1. gpc = "unstarted" /\ gpc' = "ioctl" /\ WritesLeft' = WritesLeft
        BY <1>1, <3>1 DEF SendStarts, IInv, VerdictInv, WritesLeft, kernelVars
      <4>2. SenderLeft = WritesLeft + 4 /\ SenderLeft' = WritesLeft + 3
        BY <4>1 DEF SenderLeft
      <4> QED BY <2>0, <2>1, <2>2, <4>2 DEF SenderAdvances
    <3>2. ASSUME gpc = "ioctl", gpc' = "ioctl", WritesLeft' < WritesLeft PROVE SenderAdvances
      <4>1. SenderLeft = WritesLeft + 3 /\ SenderLeft' = WritesLeft' + 3
        BY <3>2 DEF SenderLeft
      <4>2. PICK x \in Nat : x = WritesLeft
        BY <2>0
      <4>3. PICK y \in Nat : y = WritesLeft'
        BY <2>1
      <4>4. y < x
        BY <3>2, <4>2, <4>3, Zenon
      <4>5. y + 3 < x + 3
        BY <4>4
      <4> QED BY <2>0, <2>1, <2>2, <4>1, <4>2, <4>3, <4>5 DEF SenderAdvances
    <3>3. CASE KernelWrite
      <4>1. kpos' = kpos + 1 /\ dst' = dst /\ kpos < StreamLen /\ gpc = "ioctl" /\ gpc' = gpc
        BY <3>3 DEF KernelWrite, goVars
      <4>2. WritesLeft' < WritesLeft
        BY <2>0, <4>1, WritesOrder DEF WritesLeft
      <4> QED BY <3>2, <4>1, <4>2
    <3>4. CASE gpc = "ioctl" /\ gpc' = "report"
      <4>1. SenderLeft = WritesLeft + 3 /\ SenderLeft' = 2
        BY <3>4 DEF SenderLeft
      <4> QED BY <2>0, <2>1, <2>2, <4>1 DEF SenderAdvances
    <3>5. CASE KernelDone \/ KernelFails
      BY <3>4, <3>5 DEF KernelDone, KernelFails, IoctlReturns
    <3>6. CASE KernelNoMem
      <4>1. CASE Exhausted(dst)
        BY <3>4, <3>6, <4>1 DEF KernelNoMem, IoctlReturns
      <4>2. CASE ~Exhausted(dst)
        <5>1. /\ dst' = Grow(dst) /\ kpos' = 0 /\ gpc = "ioctl" /\ gpc' = gpc
          BY <3>6, <4>2 DEF KernelNoMem, goVars
        <5>2. LengthsLeft(dst') + 1 = LengthsLeft(dst) /\ LengthsLeft(dst') \in Nat
          BY <1>1, <4>2, <5>1, GrowTakesOne DEF IInv, TypeOK
        <5>3. WritesLeft' < WritesLeft
          <6>1. PICK l \in Nat : l = LengthsLeft(dst')
            BY <5>2
          <6>2. l * (StreamLen + 1) + (StreamLen - 0)
                  < (l + 1) * (StreamLen + 1) + (StreamLen - kpos)
            BY <2>0, WritesOrder
          <6>3. l + 1 = LengthsLeft(dst)
            BY <5>2, <6>1
          <6> QED BY <5>1, <6>1, <6>2, <6>3 DEF WritesLeft
        <5> QED BY <3>2, <5>1, <5>3
      <4> QED BY <4>1, <4>2
    <3>7. CASE Go
      <4>1. SenderLeft' < SenderLeft
        BY <3>7 DEF Go, GoReports, GoCloses, SenderLeft
      <4> QED BY <2>0, <2>1, <2>2, <4>1 DEF SenderAdvances
    <3> QED BY <2>2, <3>1, <3>3, <3>5, <3>6, <3>7 DEF SenderSteps, Kernel
  <2>3. CASE ~SenderSteps
    <3>1. UNCHANGED <<gpc, kpos, dst>>
      BY <1>1, <2>3 DEF Next, SenderSteps, SendPipeFails, Progress, PeekData, PeekEOF, PeekFails,
         ReadData, ReadEOF, ReadEnds, ReadOnClosed, StartRead, ReadLatched, ReadPeeked, ReadBlocks,
         Close, vars, kernelVars, goVars
    <3>2. SenderLeft' = SenderLeft
      BY <3>1 DEF SenderLeft, WritesLeft
    <3> QED BY <2>0, <2>1, <2>3, <3>2 DEF SenderAdvances
  <2> QED BY <2>2, <2>3
<1>2. IInv => TypeOK
  BY DEF IInv
<1>3. IInv /\ TypeOK' /\ [Next]_vars => [SenderAdvances]_vars
  BY <1>1
<1> QED BY <1>2, <1>3, SendIInv, PTL DEF Spec
=============================================================================
