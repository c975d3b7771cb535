----------------------------- MODULE SendStream -----------------------------
(***************************************************************************)
(* Send and sendStream of ioctl/wrappers.go.  Three actors share a pipe    *)
(* and the channel errorChan: the goroutine that Send starts, the kernel   *)
(* working for it inside NvlistIoctl(ZFS_IOC_SEND_NEW), and the caller,    *)
(* first inside Send (peek), then calling Read and Close on the stream.    *)
(* Close only closes the read end, so another goroutine may call it while  *)
(* a Read is in progress.                                                  *)
(*                                                                         *)
(* Byte i of the snapshot stream is represented by its position i.  The    *)
(* kernel is external: it writes the stream into the pipe, can fail at any *)
(* time, and gets EPIPE once nobody can read.  NvlistIoctl repeats the     *)
(* whole call on ENOMEM (KernelNoMem); LateENOMEM says whether the kernel  *)
(* may answer ENOMEM after some output was written.                        *)
(***************************************************************************)
EXTENDS DstBuffer, Sequences

CONSTANTS
  StreamLen,   \* bytes in the snapshot stream
  PipeCap,     \* bytes the pipe holds
  MaxRead,     \* longest buffer passed to Read
  LateENOMEM   \* may ENOMEM follow output?

ASSUME SendAssumption ==
  /\ StreamLen \in Nat
  /\ PipeCap \in Nat \ {0}
  /\ MaxRead \in Nat \ {0}
  /\ LateENOMEM \in BOOLEAN

VARIABLES
  pipe, rOpen, wOpen,          \* os.Pipe
  gpc, gerr,                   \* the goroutine and what NvlistIoctl gave it
  kpos, dst,                   \* kernel: bytes written; reply buffer length
  errorChan,                   \* make(chan error, 1)
  cpc,                         \* where the caller is
  peekBuf, isEOF, lastError,   \* fields of sendStream
  received                     \* history: bytes Read has returned

ioVars     == <<pipe, rOpen, wOpen>>
kernelVars == <<kpos, dst>>
goVars     == <<gpc, gerr>>
streamVars == <<peekBuf, isEOF, lastError>>
vars == <<ioVars, kernelVars, goVars, errorChan, cpc, streamVars, received>>

Streaming == {"idle", "read", "readWait"}     \* Send has returned a stream
KernelErrors == {"errno", "tooBig"}

TypeOK ==
  /\ pipe \in Seq(Nat) /\ Len(pipe) <= PipeCap
  /\ rOpen \in BOOLEAN /\ wOpen \in BOOLEAN
  /\ gpc \in {"unstarted", "ioctl", "report", "close", "done"}
  /\ gerr \in {"nil"} \cup KernelErrors
  /\ kpos \in 0..StreamLen
  /\ dst \in DstSizes
  /\ errorChan \in Seq({"nil"} \cup KernelErrors) /\ Len(errorChan) <= 1
  /\ cpc \in {"start", "peek", "peekWait", "failed"} \cup Streaming
  /\ peekBuf \in Seq(Nat)
  /\ isEOF \in BOOLEAN
  /\ lastError \in {"none", "EOF"} \cup KernelErrors
  /\ received \in Seq(Nat)

Init ==
  /\ pipe = <<>> /\ rOpen = FALSE /\ wOpen = FALSE
  /\ gpc = "unstarted" /\ gerr = "nil"
  /\ kpos = 0 /\ dst = InitialDst
  /\ errorChan = <<>>
  /\ cpc = "start"
  /\ peekBuf = <<>> /\ isEOF = FALSE /\ lastError = "none"
  /\ received = <<>>

-----------------------------------------------------------------------------
(* Send up to the call of peek. *)

SendPipeFails ==
  /\ cpc = "start"
  /\ cpc' = "failed"
  /\ UNCHANGED <<ioVars, kernelVars, goVars, errorChan, streamVars, received>>

SendStarts ==
  /\ cpc = "start"
  /\ rOpen' = TRUE /\ wOpen' = TRUE
  /\ gpc' = "ioctl"
  /\ cpc' = "peek"
  /\ UNCHANGED <<pipe, gerr, kernelVars, errorChan, streamVars, received>>

-----------------------------------------------------------------------------
(* The kernel inside the ioctl, and the retry loop around it. *)

IoctlReturns(e) ==
  /\ gerr' = e
  /\ gpc' = "report"

KernelWrite ==
  /\ gpc = "ioctl" /\ rOpen
  /\ kpos < StreamLen /\ Len(pipe) < PipeCap
  /\ pipe' = Append(pipe, kpos + 1)
  /\ kpos' = kpos + 1
  /\ UNCHANGED <<rOpen, wOpen, dst, goVars, errorChan, cpc, streamVars, received>>

KernelDone ==
  /\ gpc = "ioctl" /\ kpos = StreamLen
  /\ IoctlReturns("nil")
  /\ UNCHANGED <<ioVars, kernelVars, errorChan, cpc, streamVars, received>>

KernelFails ==   \* EPIPE, any other errno, or an error of Marshal or Unmarshal
  /\ gpc = "ioctl"
  /\ IoctlReturns("errno")
  /\ UNCHANGED <<ioVars, kernelVars, errorChan, cpc, streamVars, received>>

KernelNoMem ==
  /\ gpc = "ioctl"
  /\ LateENOMEM \/ kpos = 0
  /\ IF Exhausted(dst)
     THEN IoctlReturns("tooBig") /\ UNCHANGED kernelVars
     ELSE dst' = Grow(dst) /\ kpos' = 0 /\ UNCHANGED goVars
  /\ UNCHANGED <<ioVars, errorChan, cpc, streamVars, received>>

Kernel == KernelWrite \/ KernelDone \/ KernelFails \/ KernelNoMem

-----------------------------------------------------------------------------
(* The goroutine once the ioctl has returned. *)

\* Possible slip: the write end is closed before the error is sent.
GoReportsAfterClose ==
  /\ gpc \in {"report", "close"}
  /\ IF gpc = "report"
     THEN wOpen' = FALSE /\ gpc' = "close" /\ UNCHANGED errorChan
     ELSE errorChan' = Append(errorChan, gerr) /\ gpc' = "done" /\ UNCHANGED wOpen
  /\ UNCHANGED <<pipe, rOpen, kernelVars, gerr, cpc, streamVars, received>>

\* Possible slip: errorChan is unbuffered, so the send waits for a receiver.
GoReportsUnbuffered ==
  /\ gpc = "report" /\ cpc \in {"peekWait", "readWait"}
  /\ errorChan' = Append(errorChan, gerr)
  /\ gpc' = "close"
  /\ UNCHANGED <<ioVars, kernelVars, gerr, cpc, streamVars, received>>

GoReports ==
  /\ gpc = "report" /\ Len(errorChan) < 1
  /\ errorChan' = Append(errorChan, gerr)
  /\ gpc' = "close"
  /\ UNCHANGED <<ioVars, kernelVars, gerr, cpc, streamVars, received>>

GoCloses ==
  /\ gpc = "close"
  /\ wOpen' = FALSE
  /\ gpc' = "done"
  /\ UNCHANGED <<pipe, rOpen, kernelVars, gerr, errorChan, cpc, streamVars, received>>

-----------------------------------------------------------------------------
(* End of file on the pipe: take the ioctl's verdict from errorChan. *)

\* Possible slip: end of file is taken as success whatever the ioctl returned.
LatchIgnoresError ==
  /\ errorChan # <<>>
  /\ errorChan' = Tail(errorChan)
  /\ lastError' = "EOF"
  /\ isEOF' = TRUE

Latch ==
  /\ errorChan # <<>>
  /\ errorChan' = Tail(errorChan)
  /\ lastError' = IF Head(errorChan) = "nil" THEN "EOF" ELSE Head(errorChan)
  /\ isEOF' = TRUE

PipeAtEOF == rOpen /\ pipe = <<>> /\ ~wOpen

(* peek, called by Send with a one-byte buffer. *)

PeekData ==
  /\ cpc = "peek" /\ pipe # <<>>
  /\ peekBuf' = Append(peekBuf, Head(pipe))
  /\ pipe' = Tail(pipe)
  /\ cpc' = "idle"
  /\ UNCHANGED <<rOpen, wOpen, kernelVars, goVars, errorChan, isEOF, lastError, received>>

\* Possible slip: an immediate end of file is not treated as a failure of Send.
PeekEOFAccepted ==
  /\ cpc = "peek" /\ PipeAtEOF
  /\ cpc' = "idle"
  /\ UNCHANGED <<ioVars, kernelVars, goVars, errorChan, streamVars, received>>

PeekEOF ==
  /\ cpc = "peek" /\ PipeAtEOF
  /\ cpc' = "peekWait"
  /\ UNCHANGED <<ioVars, kernelVars, goVars, errorChan, streamVars, received>>

PeekFails ==   \* Send closes both ends and returns the error
  /\ cpc = "peekWait"
  /\ Latch
  /\ rOpen' = FALSE /\ wOpen' = FALSE
  /\ cpc' = "failed"
  /\ UNCHANGED <<pipe, kernelVars, goVars, peekBuf, received>>

-----------------------------------------------------------------------------
(* Read and Close. *)

ReadLatched ==     \* isEOF: every further Read returns lastError
  /\ cpc = "idle" /\ isEOF
  /\ UNCHANGED vars

\* Possible slip: the pipe is read while peekBuf still holds a byte.
ReadPeekedLast ==
  /\ cpc = "idle" /\ ~isEOF /\ Len(peekBuf) > 0
  /\ cpc' = "read"
  /\ UNCHANGED <<ioVars, kernelVars, goVars, errorChan, streamVars, received>>

ReadPeeked ==
  /\ cpc = "idle" /\ ~isEOF /\ Len(peekBuf) > 0
  /\ \E n \in 1..MaxRead :
       LET m == IF n < Len(peekBuf) THEN n ELSE Len(peekBuf)
       IN  /\ received' = received \o SubSeq(peekBuf, 1, m)
           /\ peekBuf' = SubSeq(peekBuf, m + 1, Len(peekBuf))
  /\ UNCHANGED <<ioVars, kernelVars, goVars, errorChan, cpc, isEOF, lastError>>

ReadBlocks ==
  /\ cpc = "idle" /\ ~isEOF /\ peekBuf = <<>>
  /\ cpc' = "read"
  /\ UNCHANGED <<ioVars, kernelVars, goVars, errorChan, streamVars, received>>

ReadData ==
  /\ cpc = "read" /\ rOpen
  /\ \E n \in 1..MaxRead :
       /\ n <= Len(pipe)
       /\ received' = received \o SubSeq(pipe, 1, n)
       /\ pipe' = SubSeq(pipe, n + 1, Len(pipe))
  /\ cpc' = "idle"
  /\ UNCHANGED <<rOpen, wOpen, kernelVars, goVars, errorChan, streamVars>>

ReadEOF ==
  /\ cpc = "read" /\ PipeAtEOF
  /\ cpc' = "readWait"
  /\ UNCHANGED <<ioVars, kernelVars, goVars, errorChan, streamVars, received>>

ReadEnds ==
  /\ cpc = "readWait"
  /\ Latch
  /\ cpc' = "idle"
  /\ UNCHANGED <<ioVars, kernelVars, goVars, peekBuf, received>>

ReadOnClosed ==    \* os.ErrClosed, not latched
  /\ cpc = "read" /\ ~rOpen
  /\ cpc' = "idle"
  /\ UNCHANGED <<ioVars, kernelVars, goVars, errorChan, streamVars, received>>

Close ==
  /\ cpc \in Streaming /\ rOpen
  /\ rOpen' = FALSE
  /\ UNCHANGED <<pipe, wOpen, kernelVars, goVars, errorChan, cpc, streamVars, received>>

-----------------------------------------------------------------------------
StartRead == ReadLatched \/ ReadPeeked \/ ReadBlocks
Progress  == PeekData \/ PeekEOF \/ PeekFails \/ ReadData \/ ReadEOF \/ ReadEnds
               \/ ReadOnClosed
Go        == GoReports \/ GoCloses
\* What the kernel cannot put off; failures other than EPIPE never have to occur.
KernelRuns == KernelWrite \/ KernelDone \/ (KernelFails /\ ~rOpen)

Next == SendPipeFails \/ SendStarts \/ Kernel \/ Go \/ Progress \/ StartRead \/ Close

Spec == Init /\ [][Next]_vars

\* The kernel writes on while the pipe has room, runnable goroutines run, and
\* the caller does what io.Copy does: it calls Read again and again.
FairSpec ==
  /\ Spec
  /\ WF_vars(KernelRuns)
  /\ WF_vars(Go)
  /\ WF_vars(Progress)
  /\ WF_vars(StartRead)

-----------------------------------------------------------------------------
(* A caller that got end of file (or Send itself, in peek) never waits for *)
(* the verdict: the goroutine puts it into errorChan before it closes the  *)
(* write end, and nobody else takes it out.                                *)
VerdictPrecedesEOF ==
  cpc \in {"peekWait", "readWait"} => errorChan # <<>>

(* Fail-fast: Send hands out a stream only when the kernel has produced a  *)
(* byte; when Send fails after the pipe was made, no byte was produced and *)
(* the error is the ioctl's (io.EOF for an empty success).                 *)
FailFast ==
  /\ cpc \in Streaming => kpos > 0
  /\ cpc = "failed" /\ isEOF => kpos = 0 /\ received = <<>> /\ gpc = "done"

(* The reader's final answer is the ioctl's result: io.EOF exactly when    *)
(* the ioctl succeeded, otherwise the ioctl's own error.                   *)
VerdictIsIoctls ==
  isEOF => lastError = (IF gerr = "nil" THEN "EOF" ELSE gerr)

(* Send delivers a growing prefix of the snapshot stream and reports end   *)
(* of file only after the whole of it (abstract module SnapshotTransfer).  *)
Transfer == INSTANCE SnapshotTransfer WITH
  delivered <- received,
  outcome   <- IF ~isEOF THEN "open"
               ELSE IF lastError = "EOF" THEN "complete" ELSE "failed"

ImplementsTransfer == Transfer!Spec

(* No leak: the goroutine ends and both pipe ends get closed, whether the  *)
(* caller drains the stream or closes it half-way, or Send fails.  The     *)
(* read end is the caller's to close once it has seen the end.             *)
SenderEnds ==
  <>[]( /\ gpc \in {"unstarted", "done"}
        /\ ~wOpen
        /\ rOpen => isEOF )
=============================================================================
