-------------------------- MODULE NvlistIoctlProofs --------------------------
(***************************************************************************)
(* Proofs about NvlistIoctl and the NUL-delimited strings it passes to the *)
(* kernel, for every name, reply size and kernel behaviour.                *)
(***************************************************************************)
EXTENDS NvlistIoctl, SequenceTheorems, WellFoundedInduction, TLAPS

-----------------------------------------------------------------------------
(* Strings in buffers. *)

LEMMA TerminatorIs ==
  ASSUME NEW s \in Seq(Nat), NEW n \in 1..(Len(s) + 1),
         n <= Len(s) => s[n] = NUL,
         \A j \in 1..(n - 1) : s[j] # NUL
  PROVE  Terminator(s) = n
<1> DEFINE P(i) == /\ i <= Len(s) => s[i] = NUL
                   /\ \A j \in 1..(i - 1) : s[j] # NUL
<1>0. Len(s) \in Nat
  BY LenProperties
<1>1. P(n)
  OBVIOUS
<1>2. ASSUME NEW i \in 1..(Len(s) + 1), P(i) PROVE i = n
  <2>1. ~(i < n)
    <3>1. ASSUME i < n PROVE FALSE
      <4>1. i \in 1..(n - 1) /\ i <= Len(s)
        BY <1>0, <3>1
      <4> QED BY <1>2, <4>1
    <3> QED BY <3>1
  <2>2. ~(n < i)
    <3>1. ASSUME n < i PROVE FALSE
      <4>1. n \in 1..(i - 1) /\ n <= Len(s)
        BY <1>0, <3>1
      <4> QED BY <1>2, <4>1
    <3> QED BY <3>1
  <2> QED BY <1>0, <2>1, <2>2
<1>3. Terminator(s) = CHOOSE i \in 1..(Len(s) + 1) : P(i)
  BY DEF Terminator
<1> HIDE DEF P
<1> QED BY <1>1, <1>2, <1>3

(* A set of natural numbers has a least element. *)
LEMMA LeastElement ==
  ASSUME NEW T \in SUBSET Nat, T # {}
  PROVE  \E x \in T : \A y \in T : x <= y
<1> DEFINE R == OpToRel(<, Nat)
<1>1. IsWellFoundedOn(R, Nat)
  BY NatLessThanWellFounded
<1>2. \A x, y \in Nat : <<y, x>> \in R <=> y < x
  BY DEF OpToRel
<1> HIDE DEF R
<1>3. PICK x \in T : \A y \in T : ~(<<y, x>> \in R)
  BY <1>1, WFMin
<1>4. \A y \in T : ~(y < x)
  BY <1>2, <1>3
<1>5. x \in Nat /\ \A y \in T : y \in Nat
  OBVIOUS
<1> QED BY <1>4, <1>5

(* The bytes before the first NUL of a string, or all of them. *)
IsHead(s, k) ==
  /\ k \in 0..Len(s)
  /\ k < Len(s) => s[k + 1] = NUL
  /\ \A j \in 1..k : s[j] # NUL

LEMMA HeadExists ==
  ASSUME NEW s \in Seq(Nat)
  PROVE  \E k : IsHead(s, k)
<1> DEFINE T == {i \in 1..Len(s) : s[i] = NUL}
<1>0. Len(s) \in Nat
  BY LenProperties
<1>1. CASE T = {}
  <2>1. IsHead(s, Len(s))
    BY <1>0, <1>1 DEF IsHead
  <2> QED BY <2>1
<1>2. CASE T # {}
  <2>0. T \in SUBSET Nat
    BY <1>0
  <2>1. PICK x \in T : \A y \in T : x <= y
    BY <1>2, <2>0, LeastElement
  <2>2. x \in 1..Len(s) /\ s[x] = NUL /\ x \in Nat
    BY <1>0
  <2>3. /\ x - 1 \in 0..Len(s) /\ (x - 1) + 1 = x
        /\ \A j \in 1..(x - 1) : j \in 1..Len(s) /\ ~(x <= j)
    BY <1>0, <2>2
  <2>4. \A j \in 1..(x - 1) : s[j] # NUL
    BY <2>1, <2>3
  <2>5. IsHead(s, x - 1)
    BY <2>2, <2>3, <2>4 DEF IsHead
  <2> QED BY <2>5
<1> QED BY <1>1, <1>2

LEMMA HeadTerminator ==
  ASSUME NEW s \in Seq(Nat), NEW k, IsHead(s, k)
  PROVE  Terminator(s) = k + 1
<1>0. Len(s) \in Nat /\ k \in Nat
  BY LenProperties DEF IsHead
<1>1. k + 1 \in 1..(Len(s) + 1) /\ (k + 1 <= Len(s) => s[k + 1] = NUL)
  BY <1>0 DEF IsHead
<1>2. \A j \in 1..((k + 1) - 1) : s[j] # NUL
  BY <1>0 DEF IsHead
<1> QED BY <1>1, <1>2, TerminatorIs

(* What stringToDelimitedBuf leaves in a buffer. *)
LEMMA BufferType ==
  ASSUME NEW n \in Nat, NEW str \in Seq(Nat), NEW b \in [1..n -> Nat]
  PROVE  StringToDelimitedBuf(str, b) \in [1..n -> Nat]
<1>1. b \in Seq(Nat) /\ Len(b) = n
  <2>1. b = [i \in 1..n |-> b[i]] /\ \A i \in 1..n : b[i] \in Nat
    OBVIOUS
  <2> QED BY <2>1, IsASeq
<1>2. PICK k : IsHead(str, k)
  BY HeadExists
<1>3. Len(str) \in Nat /\ k \in 0..Len(str) /\ Terminator(str) = k + 1
  BY <1>2, HeadTerminator, LenProperties DEF IsHead
<1>4. \A i \in 1..n : (IF i < k + 1 THEN str[i] ELSE b[i]) \in Nat
  <2> SUFFICES ASSUME NEW i \in 1..n, i < k + 1 PROVE str[i] \in Nat
    OBVIOUS
  <2>1. i \in 1..Len(str)
    BY <1>3
  <2> QED BY <2>1, ElementOfSeq
<1>5. StringToDelimitedBuf(str, b) \in {b, [i \in 1..n |-> IF i < k + 1 THEN str[i] ELSE b[i]]}
  BY <1>1, <1>3 DEF StringToDelimitedBuf
<1> QED BY <1>4, <1>5

(* What is read back from a zeroed buffer the string fits into: the bytes  *)
(* before its first NUL.                                                   *)
LEMMA DelimitedHead ==
  ASSUME NEW n \in Nat, NEW str \in Seq(Nat), Len(str) < n, NEW k, IsHead(str, k)
  PROVE  DelimitedBufToString(StringToDelimitedBuf(str, [i \in 1..n |-> NUL])) = SubSeq(str, 1, k)
<1> DEFINE zeros == [i \in 1..n |-> NUL]
           buf   == StringToDelimitedBuf(str, zeros)
<1>0. /\ Len(str) \in Nat /\ k \in Nat /\ k <= Len(str) /\ k < n /\ NUL \in Nat
      /\ \A i \in 1..k : str[i] \in Nat
  <2>1. Len(str) \in Nat /\ NUL \in Nat
    BY LenProperties DEF NUL
  <2>2. k \in Nat /\ k <= Len(str) /\ k < n
    BY <2>1 DEF IsHead
  <2>3. \A i \in 1..k : i \in 1..Len(str)
    BY <2>1, <2>2
  <2> QED BY <2>1, <2>2, <2>3, ElementOfSeq
<1>1. zeros \in Seq(Nat) /\ Len(zeros) = n
  BY <1>0, IsASeq
<1>2. Terminator(str) = k + 1
  BY HeadTerminator
<1>3. buf = [i \in 1..n |-> IF i < k + 1 THEN str[i] ELSE NUL]
  <2>1. ~(Len(str) > Len(zeros) - 1)
    BY <1>0, <1>1
  <2>2. buf = [i \in 1..Len(zeros) |-> IF i < Terminator(str) THEN str[i] ELSE zeros[i]]
    BY <2>1 DEF StringToDelimitedBuf
  <2>3. \A i \in 1..n : zeros[i] = NUL
    OBVIOUS
  <2> HIDE DEF zeros, buf
  <2> QED BY <1>1, <1>2, <2>2, <2>3
<1> HIDE DEF buf, zeros
<1>4. buf \in Seq(Nat) /\ Len(buf) = n
  <2>1. \A i \in 1..n : (IF i < k + 1 THEN str[i] ELSE NUL) \in Nat
    BY <1>0
  <2> QED BY <1>3, <2>1, IsASeq
<1>5. IsHead(buf, k)
  BY <1>0, <1>3, <1>4 DEF IsHead
<1>6. DelimitedBufToString(buf) = SubSeq(buf, 1, k)
  BY <1>0, <1>4, <1>5, HeadTerminator DEF DelimitedBufToString
<1>7. \A i \in 1..k : buf[i] = str[i] /\ buf[i] \in Nat
  BY <1>0, <1>3
<1>8. /\ SubSeq(buf, 1, k) \in Seq(Nat) /\ Len(SubSeq(buf, 1, k)) = k
      /\ \A i \in 1..k : SubSeq(buf, 1, k)[i] = str[i]
  BY <1>0, <1>7, SubSeqProperties
<1>9. /\ SubSeq(str, 1, k) \in Seq(Nat) /\ Len(SubSeq(str, 1, k)) = k
      /\ \A i \in 1..k : SubSeq(str, 1, k)[i] = str[i]
  BY <1>0, SubSeqProperties
<1>10. SubSeq(buf, 1, k) = SubSeq(str, 1, k)
  BY <1>8, <1>9, SeqEqual
<1> QED BY <1>6, <1>10 DEF buf, zeros

(* A string without NUL that leaves room for one comes back from a zeroed  *)
(* buffer as it went in: the buffers of Cmd are read by the kernel exactly *)
(* as delimitedBufToString reads them.                                     *)
THEOREM DelimitedRoundTrip ==
  ASSUME NEW n \in Nat, NEW str \in Seq(Nat), Len(str) < n,
         \A i \in 1..Len(str) : str[i] # NUL
  PROVE  DelimitedBufToString(StringToDelimitedBuf(str, [i \in 1..n |-> NUL])) = str
<1>0. Len(str) \in Nat
  BY LenProperties
<1>1. IsHead(str, Len(str))
  BY <1>0 DEF IsHead
<1>2. SubSeq(str, 1, Len(str)) = str
  BY SubSeqFull
<1> QED BY <1>1, <1>2, DelimitedHead

-----------------------------------------------------------------------------
(* The call. *)

(* The caller's Cmd stays as the wrapper made it until Finish; the copy    *)
(* given to the handler starts from it in every round of the loop.         *)
CmdInv ==
  /\ pc # "idle" => \E c \in Cookies : cmd = FreshCmd(c)
  /\ pc = "kernel" =>
       privateCmd = [cmd EXCEPT !.name = StringToDelimitedBuf(args.name, @)]
  /\ pc = "answered" => privateCmd.cookie = cmd.cookie + 1

(* An ENOMEM means that the reply did not fit or memory ran out.           *)
RetryInv ==
  /\ pc = "answered" /\ errno = "ENOMEM" => oom \/ ~ReplyFits
  /\ pc # "idle" => result = "none"
  /\ result = "tooBig" => dst >= DstLimit /\ (oom \/ ~ReplyFits)

IInv == dst \in DstSizes /\ need \in Nat /\ CmdInv /\ RetryInv

LEMMA InitIInv == Init => IInv
BY IoctlAssumption DEF Init, IInv, CmdInv, RetryInv, DstSizes, InitialDst

LEMMA DstStep == IInv /\ [Next]_vars => dst' \in DstSizes
<1> SUFFICES ASSUME dst \in DstSizes, [Next]_vars PROVE dst' \in DstSizes
  BY DEF IInv
<1>1. CASE Call
  BY <1>1 DEF Call, DstSizes, InitialDst
<1>2. CASE Retry
  BY <1>2 DEF Retry, DstSizes, Exhausted, DstLimit, Grow
<1>3. CASE MarshalRequest \/ BuildCmd \/ ConfigFails \/ HandlerAnswers \/ HandlerNoMem
             \/ GiveUp \/ Finish \/ UNCHANGED vars
  BY <1>3 DEF MarshalRequest, BuildCmd, ConfigFails, HandlerAnswers, HandlerNoMem, GiveUp,
     Finish, vars
<1> QED BY <1>1, <1>2, <1>3 DEF Next, Work

LEMMA NeedStep == IInv /\ [Next]_vars => need' \in Nat
BY IoctlAssumption DEF IInv, Next, Work, Call, MarshalRequest, BuildCmd, ConfigFails,
   HandlerAnswers, HandlerNoMem, Retry, GiveUp, Finish, vars

LEMMA CmdStep == IInv /\ [Next]_vars => CmdInv'
<1> SUFFICES ASSUME CmdInv, [Next]_vars PROVE CmdInv'
  BY DEF IInv
<1>1. CASE Call
  BY <1>1 DEF Call, CmdInv
<1>2. CASE MarshalRequest \/ ConfigFails \/ GiveUp \/ Retry
  BY <1>2 DEF MarshalRequest, ConfigFails, GiveUp, Retry, Return, CmdInv
<1>3. CASE BuildCmd
  BY <1>3 DEF BuildCmd, CmdInv
<1>4. CASE HandlerAnswers \/ HandlerNoMem
  <2>0. pc = "kernel" /\ pc' = "answered" /\ cmd' = cmd /\ HandlerWrites
    BY <1>4 DEF HandlerAnswers, HandlerNoMem
  <2>1. privateCmd'.cookie = privateCmd.cookie + 1
    BY <2>0 DEF HandlerWrites
  <2>2. privateCmd.cookie = cmd.cookie
    BY <2>0 DEF CmdInv, FreshCmd
  <2> QED BY <2>0, <2>1, <2>2 DEF CmdInv
<1>5. CASE Finish
  BY <1>5 DEF Finish, Return, CmdInv
<1>6. CASE UNCHANGED vars
  BY <1>6 DEF vars, CmdInv
<1> QED BY <1>1, <1>2, <1>3, <1>4, <1>5, <1>6 DEF Next, Work

LEMMA RetryStep == IInv /\ [Next]_vars => RetryInv'
<1> SUFFICES ASSUME IInv, [Next]_vars PROVE RetryInv'
  OBVIOUS
<1> USE DEF RetryInv, ReplyFits, Return
<1>i. RetryInv
  BY DEF IInv
<1>1. CASE Call
  BY <1>1 DEF Call
<1>2. CASE MarshalRequest \/ ConfigFails \/ BuildCmd
  BY <1>i, <1>2 DEF MarshalRequest, ConfigFails, BuildCmd
<1>3. CASE HandlerAnswers
  BY <1>i, <1>3 DEF HandlerAnswers
<1>4. CASE HandlerNoMem
  BY <1>i, <1>4 DEF HandlerNoMem
<1>5. CASE Retry
  BY <1>i, <1>5 DEF Retry
<1>6. CASE GiveUp
  BY <1>i, <1>6 DEF GiveUp, Exhausted
<1>7. CASE Finish
  BY <1>i, <1>7 DEF Finish
<1>8. CASE UNCHANGED vars
  BY <1>i, <1>8 DEF vars
<1> QED BY <1>1, <1>2, <1>3, <1>4, <1>5, <1>6, <1>7, <1>8 DEF Next, Work

LEMMA IoctlIInv == Spec => []IInv
<1>1. IInv /\ [Next]_vars => IInv'
  BY DstStep, NeedStep, CmdStep, RetryStep DEF IInv
<1> QED BY <1>1, InitIInv, PTL DEF Spec

(* NvlistIoctl gives up only on a reply of more than 32 MiB or on a kernel *)
(* without memory.                                                         *)
THEOREM IoctlGaveUpOnlyIfTooBig == Spec => []GaveUpOnlyIfTooBig
<1>1. ASSUME IInv PROVE GaveUpOnlyIfTooBig
  <2> SUFFICES ASSUME result = "tooBig", ~oom
               PROVE  args.response # "nil" /\ need > 32 * 1024 * 1024
    BY DEF GaveUpOnlyIfTooBig
  <2>1. dst >= 16 * 1024 * 1024 /\ args.response # "nil" /\ ~(need <= dst)
    BY <1>1 DEF IInv, RetryInv, ReplyFits, DstLimit
  <2>2. dst = 32 * 1024 * 1024
    BY <1>1, <2>1 DEF IInv, DstSizes
  <2>3. need \in Nat
    BY <1>1 DEF IInv
  <2> QED BY <2>1, <2>2, <2>3
<1> QED BY <1>1, IoctlIInv, PTL

(* The variables of the call keep their types: the buffers of the Cmds,    *)
(* the caller's and the copies, keep their lengths whatever the names and  *)
(* the handler's answers, and the reply buffer has one of five lengths.    *)
THEOREM IoctlTypeCorrect == Spec => []TypeOK
<1>1. Init => TypeOK
  <2> SUFFICES ASSUME Init PROVE TypeOK
    OBVIOUS
  <2>1. PICK c \in Cookies : cmd = FreshCmd(c) /\ privateCmd = FreshCmd(c)
    BY DEF Init
  <2>2. FreshCmd(c) \in Cmd
    BY IoctlAssumption DEF FreshCmd, Cmd, NUL
  <2>3. args \in Args
    BY DEF Init, Args, Params
  <2>4. dst \in DstSizes
    BY DEF Init, DstSizes, InitialDst
  <2>5. oom \in BOOLEAN
    BY Zenon DEF Init
  <2> QED BY <2>1, <2>2, <2>3, <2>4, <2>5 DEF Init, TypeOK
<1>2. ASSUME IInv, TypeOK, [Next]_vars PROVE TypeOK'
  <2>0. dst' \in DstSizes /\ NameLen \in Nat /\ args.name \in Seq(Nat)
    BY <1>2, DstStep, IoctlAssumption DEF TypeOK, Args
  <2> USE <1>2 DEF TypeOK, Return
  <2>1. CASE Call
    <3>1. PICK c \in Cookies : cmd' = FreshCmd(c) /\ privateCmd' = FreshCmd(c)
      BY <2>1 DEF Call
    <3>2. FreshCmd(c) \in Cmd
      BY IoctlAssumption DEF FreshCmd, Cmd, NUL
    <3> QED BY <2>0, <2>1, <3>1, <3>2 DEF Call
  <2>2. CASE MarshalRequest \/ ConfigFails \/ GiveUp \/ Retry
    BY <2>0, <2>2 DEF MarshalRequest, ConfigFails, GiveUp, Retry
  <2>3. CASE BuildCmd
    <3>1. privateCmd' \in Cmd
      <4>1. cmd.name \in [1..NameLen -> Nat]
        BY DEF Cmd
      <4>2. StringToDelimitedBuf(args.name, cmd.name) \in [1..NameLen -> Nat]
        BY <2>0, <4>1, BufferType
      <4> QED BY <2>3, <4>2 DEF BuildCmd, Cmd
    <3> QED BY <2>0, <2>3, <3>1 DEF BuildCmd
  <2>4. CASE HandlerAnswers \/ HandlerNoMem
    <3>1. HandlerWrites
      BY <2>4 DEF HandlerAnswers, HandlerNoMem
    <3>2. \A i \in 1..NameLen : (IF i <= Len(ReplyName) THEN ReplyName[i]
                                 ELSE IF i = Len(ReplyName) + 1 THEN NUL
                                 ELSE privateCmd.name[i]) \in Nat
      <4>1. Len(ReplyName) \in Nat
        BY IoctlAssumption, LenProperties
      <4>2. \A i \in 1..Len(ReplyName) : ReplyName[i] \in Nat
        BY IoctlAssumption, ElementOfSeq
      <4>3. \A i \in 1..NameLen : privateCmd.name[i] \in Nat
        BY DEF Cmd
      <4> QED BY <2>0, <4>1, <4>2, <4>3 DEF NUL
    <3>3. privateCmd.cookie + 1 \in Nat
      BY DEF Cmd
    <3>4. privateCmd' \in Cmd
      BY <3>1, <3>2, <3>3 DEF HandlerWrites, Cmd
    <3> QED BY <2>0, <2>4, <3>4 DEF HandlerAnswers, HandlerNoMem
  <2>5. CASE Finish
    BY <2>0, <2>5 DEF Finish
  <2>6. CASE UNCHANGED vars
    BY <2>6 DEF vars
  <2> QED BY <2>1, <2>2, <2>3, <2>4, <2>5, <2>6 DEF Next, Work
<1> QED BY <1>1, <1>2, IoctlIInv, PTL DEF Spec

(* Every execution of the handler, also after a retry, is given the        *)
(* caller's name, or a beginning of it when it is too long or has a NUL    *)
(* inside: what an earlier execution wrote into the Cmd is never seen.     *)
THEOREM IoctlKernelSeesName == Spec => []KernelSeesName
<1>1. ASSUME IInv, TypeOK PROVE KernelSeesName
  <2> DEFINE zeros == [i \in 1..NameLen |-> NUL]
             buf == StringToDelimitedBuf(args.name, zeros)
             seen == DelimitedBufToString(privateCmd.name)
  <2> SUFFICES ASSUME pc = "kernel"
               PROVE  IF Legal(args.name) THEN seen = args.name
                      ELSE \E n \in 0..(Len(args.name) - 1) : seen = SubSeq(args.name, 1, n)
    BY DEF KernelSeesName
  <2>0. args.name \in Seq(Nat) /\ Len(args.name) \in Nat /\ NameLen \in Nat /\ NameLen # 0
    BY <1>1, IoctlAssumption, LenProperties DEF TypeOK, Args
  <2>1. PICK c \in Cookies : cmd = FreshCmd(c)
    BY <1>1 DEF IInv, CmdInv
  <2>2. seen = DelimitedBufToString(buf)
    BY <1>1, <2>1 DEF IInv, CmdInv, FreshCmd
  <2> HIDE DEF seen
  <2>3. CASE Legal(args.name)
    <3>1. DelimitedBufToString(buf) = args.name
      BY <2>0, <2>3, DelimitedRoundTrip DEF Legal
    <3> QED BY <2>2, <2>3, <3>1
  <2>4. CASE ~Legal(args.name) /\ Len(args.name) < NameLen
    <3>1. PICK k : IsHead(args.name, k)
      BY <2>0, HeadExists
    <3>2. DelimitedBufToString(buf) = SubSeq(args.name, 1, k)
      BY <2>0, <2>4, <3>1, DelimitedHead
    <3>3. k \in 0..(Len(args.name) - 1)
      <4>1. k \in 0..Len(args.name) /\ k # Len(args.name)
        BY <2>4, <3>1 DEF IsHead, Legal
      <4> QED BY <2>0, <4>1
    <3> QED BY <2>2, <2>4, <3>2, <3>3
  <2>5. CASE ~(Len(args.name) < NameLen)     \* the buffer stays empty
    <3>1. zeros \in Seq(Nat) /\ Len(zeros) = NameLen
      BY <2>0, IsASeq DEF NUL
    <3>2. buf = zeros
      BY <2>0, <2>5, <3>1 DEF StringToDelimitedBuf
    <3>3. IsHead(zeros, 0)
      BY <2>0, <3>1 DEF IsHead
    <3> HIDE DEF buf, zeros
    <3>4. DelimitedBufToString(buf) = SubSeq(zeros, 1, 0)
      BY <3>1, <3>2, <3>3, HeadTerminator DEF DelimitedBufToString
    <3>5. SubSeq(zeros, 1, 0) = <<>> /\ SubSeq(args.name, 1, 0) = <<>>
      BY <2>0, <3>1, SubSeqEmpty
    <3>6. ~Legal(args.name) /\ 0 \in 0..(Len(args.name) - 1)
      BY <2>0, <2>5 DEF Legal
    <3> QED BY <2>2, <3>4, <3>5, <3>6
  <2> QED BY <2>3, <2>4, <2>5
<1> QED BY <1>1, IoctlIInv, IoctlTypeCorrect, PTL

-----------------------------------------------------------------------------
(* NvlistIoctl implements IoctlCall: one execution of the handler, or none.*)
THEOREM IoctlRefinement == Spec => ImplementsOneCall
<1>1. Init => OneCall!Init
  BY DEF Init, OneCall!Init, FreshCmd
<1>2. ASSUME IInv, [Next]_vars PROVE [OneCall!Next]_OneCall!vars
  <2> USE DEF OneCall!vars, Return
  <2>1. CASE Call
    BY <2>1 DEF Call, FreshCmd, OneCall!Next, OneCall!Call
  <2>2. CASE MarshalRequest
    BY <2>2 DEF MarshalRequest, OneCall!Next, OneCall!Refuse
  <2>3. CASE ConfigFails
    BY <2>3 DEF ConfigFails, OneCall!Next, OneCall!Refuse
  <2>4. CASE GiveUp
    BY <2>4 DEF GiveUp, OneCall!Next, OneCall!Refuse
  <2>5. CASE BuildCmd \/ HandlerAnswers \/ HandlerNoMem \/ Retry
    BY <2>5 DEF BuildCmd, HandlerAnswers, HandlerNoMem, Retry
  <2>6. CASE Finish
    <3>1. cmd'.cookie = cmd.cookie + 1
      BY <1>2, <2>6 DEF Finish, IInv, CmdInv
    <3>2. result' \in {"nil", "errno", "unmarshal"}
      BY <2>6 DEF Finish
    <3> QED BY <2>6, <3>1, <3>2 DEF Finish, OneCall!Next, OneCall!Answer
  <2>7. CASE UNCHANGED vars
    BY <2>7 DEF vars
  <2> QED BY <1>2, <2>1, <2>2, <2>3, <2>4, <2>5, <2>6, <2>7 DEF Next, Work
<1> QED BY <1>1, <1>2, IoctlIInv, PTL DEF Spec, ImplementsOneCall, OneCall!Spec

-----------------------------------------------------------------------------
(* How long a call can take: the lengths of dst still to be tried, and the *)
(* way from here to the end of this round of the loop.                     *)
LengthsLeft(d) ==
  IF d = 8192 THEN 4 ELSE IF d = 65536 THEN 3 ELSE IF d = 524288 THEN 2
  ELSE IF d = 4194304 THEN 1 ELSE 0

ToRoundEnd ==
  IF pc = "idle" THEN 0 ELSE IF pc = "answered" THEN 1 ELSE IF pc = "kernel" THEN 2
  ELSE IF pc = "loop" THEN 3 ELSE 4

StepsLeft == 4 * LengthsLeft(dst) + ToRoundEnd
StepsDecrease == Work => StepsLeft \in Nat /\ StepsLeft' \in Nat /\ StepsLeft' < StepsLeft
StartsAtTwenty == Call => StepsLeft' = 20

(* Growing the reply buffer by eight (ioctl.go:53-56) leaves one length    *)
(* less to try.                                                            *)
LEMMA GrowTakesOne ==
  ASSUME NEW d \in DstSizes
  PROVE  /\ LengthsLeft(d) \in 0..4
         /\ ~Exhausted(d) => LengthsLeft(Grow(d)) + 1 = LengthsLeft(d)
BY DEF DstSizes, LengthsLeft, Exhausted, Grow, DstLimit

LEMMA RoundOrder ==
  ASSUME NEW a \in Nat, NEW b \in Nat, NEW i \in 0..4, NEW j \in 0..4,
         (a = b /\ j < i) \/ (b + 1 = a /\ i = 1 /\ j = 3)
  PROVE  4 * a + i \in Nat /\ 4 * b + j \in Nat /\ 4 * b + j < 4 * a + i
OBVIOUS

(* A call of NvlistIoctl takes at most twenty steps, five of them system   *)
(* calls, whatever the kernel answers each time: every step leaves fewer   *)
(* to come.                                                                *)
THEOREM IoctlStepsBounded == Spec => [][StepsDecrease /\ StartsAtTwenty]_vars
<1>1. ASSUME IInv, Work PROVE StepsLeft \in Nat /\ StepsLeft' \in Nat /\ StepsLeft' < StepsLeft
  <2> DEFINE a == LengthsLeft(dst)
             b == LengthsLeft(dst')
             i == ToRoundEnd
             j == ToRoundEnd'
  <2>1. a \in Nat /\ b \in Nat
    <3>1. dst \in DstSizes /\ dst' \in DstSizes
      BY <1>1, DstStep DEF IInv, Next
    <3> QED BY <3>1, GrowTakesOne
  <2>2. i \in 0..4 /\ j \in 0..4
    BY DEF ToRoundEnd
  <2>3. CASE Retry
    <3>1. b + 1 = a
      BY <1>1, <2>3, GrowTakesOne DEF Retry, IInv
    <3>2. i = 1 /\ j = 3
      BY <2>3 DEF Retry, ToRoundEnd
    <3> HIDE DEF a, b, i, j
    <3>3. 4 * a + i \in Nat /\ 4 * b + j \in Nat /\ 4 * b + j < 4 * a + i
      BY <2>1, <2>2, <3>1, <3>2, RoundOrder
    <3> QED BY <3>3 DEF StepsLeft, a, b, i, j
  <2>4. CASE ~Retry
    <3>1. dst' = dst /\ j < i
      <4>1. CASE MarshalRequest \/ ConfigFails
        BY <4>1 DEF MarshalRequest, ConfigFails, Return, ToRoundEnd
      <4>2. CASE BuildCmd
        BY <4>2 DEF BuildCmd, ToRoundEnd
      <4>3. CASE HandlerAnswers \/ HandlerNoMem
        <5>1. pc = "kernel" /\ pc' = "answered" /\ dst' = dst
          BY <4>3 DEF HandlerAnswers, HandlerNoMem
        <5> QED BY <5>1 DEF ToRoundEnd
      <4>4. CASE GiveUp \/ Finish
        BY <4>4 DEF GiveUp, Finish, Return, ToRoundEnd
      <4> QED BY <1>1, <2>4, <4>1, <4>2, <4>3, <4>4 DEF Work
    <3>2. a = b
      BY <3>1
    <3> HIDE DEF a, b, i, j
    <3>3. 4 * a + i \in Nat /\ 4 * b + j \in Nat /\ 4 * b + j < 4 * a + i
      BY <2>1, <2>2, <3>1, <3>2, RoundOrder
    <3> QED BY <3>3 DEF StepsLeft, a, b, i, j
  <2> QED BY <2>3, <2>4
<1>2. ASSUME Call PROVE StepsLeft' = 20
  <2>1. dst' = 8192 /\ pc' = "marshal"
    BY <1>2 DEF Call, InitialDst
  <2>2. LengthsLeft(dst)' = 4 /\ ToRoundEnd' = 4
    BY <2>1 DEF LengthsLeft, ToRoundEnd
  <2> QED BY <2>2 DEF StepsLeft
<1>3. IInv /\ [Next]_vars => [StepsDecrease /\ StartsAtTwenty]_vars
  BY <1>1, <1>2 DEF StepsDecrease, StartsAtTwenty
<1> QED BY <1>3, IoctlIInv, PTL DEF Spec
=============================================================================
