---------------------------- MODULE ReceiveStream ----------------------------
(***************************************************************************)
(* Receive and ReceiveStream of ioctl/wrappers.go.  The caller Writes the  *)
(* stream: its first BeginLen bytes (312 in the code) are collected in     *)
(* beginRecord and handed to the goroutine through beginRecordChan, the    *)
(* rest goes into a pipe that the kernel reads inside                      *)
(* NvlistIoctl(ZFS_IOC_RECV_NEW).  WaitAndClose waits for the goroutine's  *)
(* verdict on errorChan.                                                   *)
(*                                                                         *)
(* Byte i of the stream is represented by its position i.  Init chooses    *)
(* the caller: whether ReceiveOpts.BeginRecord was set (then the stream's  *)
(* first BeginLen bytes are not written), and how far it will write before *)
(* it calls WaitAndClose.  The kernel is external: it reads the stream to  *)
(* its last record, can fail at any time, and sees a short stream only     *)
(* when the write end is closed.                                           *)
(***************************************************************************)
EXTENDS DstBuffer, Sequences

CONSTANTS
  BeginLen,      \* length of the begin record
  StreamLen,     \* length of a complete stream, begin record included
  PipeCap,       \* bytes the pipe holds
  MaxWrite,      \* longest buffer passed to Write
  SupplyLens,    \* how far into the stream a caller may write
  Presets,       \* may ReceiveOpts.BeginRecord be set? subset of BOOLEAN
  LateENOMEM,    \* may ENOMEM follow input?
  PropErrors     \* may the reply name properties that were not applied?

ASSUME ReceiveAssumption ==
  /\ BeginLen \in Nat \ {0}
  /\ StreamLen \in Nat /\ StreamLen >= BeginLen
  /\ PipeCap \in Nat \ {0}
  /\ MaxWrite \in Nat
  /\ SupplyLens \subseteq Nat
  /\ Presets \subseteq BOOLEAN
  /\ LateENOMEM \in BOOLEAN /\ PropErrors \in BOOLEAN

VARIABLES
  preset, supply,                \* the caller's choices
  pipe, rOpen, wOpen,            \* os.Pipe
  beginRecordChan,               \* make(chan []byte, 2), slices by length
  errorChan,                     \* make(chan error, 1)
  beginRecord,                   \* bytes collected; its length is beginRecordPointer
  lastError,                     \* field of ReceiveStream
  cpc, buf, written, result,     \* caller: place, bytes still to be piped,
                                 \* stream position, result of WaitAndClose
  gpc, gerr,                     \* the goroutine and its verdict
  consumed, dst                  \* kernel: bytes read; reply buffer length

ioVars     == <<pipe, rOpen, wOpen>>
callerVars == <<beginRecord, lastError, cpc, buf, written, result>>
goVars     == <<gpc, gerr>>
kernelVars == <<consumed, dst>>
vars == <<preset, supply, ioVars, beginRecordChan, errorChan, callerVars, goVars, kernelVars>>

Verdicts == {"nil", "props", "errno", "tooBig", "short"}

\* len(r.beginRecord): what Write has to collect.
BeginToRead == IF preset THEN 0 ELSE BeginLen

TypeOK ==
  /\ preset \in Presets /\ supply \in SupplyLens
  /\ pipe \in Seq(Nat) /\ Len(pipe) <= PipeCap
  /\ rOpen \in BOOLEAN /\ wOpen \in BOOLEAN
  /\ beginRecordChan \in Seq({0, BeginLen}) /\ Len(beginRecordChan) <= 2
  /\ errorChan \in Seq(Verdicts) /\ Len(errorChan) <= 1
  /\ beginRecord \in Seq(Nat) /\ Len(beginRecord) <= BeginToRead
  /\ lastError \in {"none", "broken"}
  /\ cpc \in {"idle", "write", "wait", "returned"}
  /\ buf \in Seq(Nat)
  /\ written \in Nat
  /\ result \in {"none"} \cup Verdicts
  /\ gpc \in {"begin", "ioctl", "report", "close", "done", "panicked"}
  /\ gerr \in {"none"} \cup Verdicts
  /\ consumed \in Seq(Nat)
  /\ dst \in DstSizes

Init ==   \* Receive has returned: the goroutine is running
  /\ preset \in Presets
  /\ supply \in SupplyLens
  /\ pipe = <<>> /\ rOpen = TRUE /\ wOpen = TRUE
  /\ beginRecordChan = <<>> /\ errorChan = <<>>
  /\ beginRecord = <<>> /\ lastError = "none"
  /\ cpc = "idle" /\ buf = <<>> /\ result = "none"
  /\ written = (IF preset THEN BeginLen ELSE 0)
  /\ gpc = "begin" /\ gerr = "none"
  /\ consumed = <<>> /\ dst = InitialDst

Min2(a, b) == IF a < b THEN a ELSE b
Bytes(from, n) == [i \in 1..n |-> from + i]

-----------------------------------------------------------------------------
(* Write of n bytes. *)

\* Possible slip: the begin record is also sent down the pipe.
IntoPipeAll(n, nBegin) == Bytes(written, n)
IntoPipe(n, nBegin) == Bytes(written + nBegin, n - nBegin)

\* Possible slip: a Write that brings exactly the last byte does not hand over.
HandOverMissed(nMissing, nBegin) == nMissing > 1 /\ nMissing = nBegin
\* Possible slip: the record is sent each time Write finds it complete.
HandOverAgain(nMissing, nBegin) == nMissing = nBegin
HandOver(nMissing, nBegin) == nMissing > 0 /\ nMissing = nBegin

Write(n) ==
  LET nMissing == BeginToRead - Len(beginRecord)
      nBegin   == Min2(nMissing, n)
  IN  /\ cpc = "idle" /\ lastError = "none"
      /\ written < supply /\ written + n <= supply
      /\ beginRecord' = beginRecord \o Bytes(written, nBegin)
      /\ IF HandOver(nMissing, nBegin)
         THEN /\ Len(beginRecordChan) < 2
              /\ beginRecordChan' = Append(beginRecordChan, BeginLen)
         ELSE UNCHANGED beginRecordChan
      /\ buf' = IntoPipe(n, nBegin)
      /\ cpc' = IF buf' = <<>> THEN "idle" ELSE "write"
      /\ written' = written + n
      /\ UNCHANGED <<preset, supply, ioVars, errorChan, lastError, result, goVars, kernelVars>>

WriteRefused ==   \* lastError is returned, nothing happens
  /\ cpc = "idle" /\ lastError # "none"
  /\ UNCHANGED vars

PipeWrite ==      \* r.w.Write: as much as fits; done when all went in
  /\ cpc = "write" /\ rOpen /\ Len(pipe) < PipeCap
  /\ LET m == Min2(Len(buf), PipeCap - Len(pipe))
     IN  /\ pipe' = pipe \o SubSeq(buf, 1, m)
         /\ buf' = SubSeq(buf, m + 1, Len(buf))
  /\ cpc' = IF buf' = <<>> THEN "idle" ELSE "write"
  /\ UNCHANGED <<preset, supply, rOpen, wOpen, beginRecordChan, errorChan,
                 beginRecord, lastError, written, result, goVars, kernelVars>>

PipeBroken ==     \* EPIPE is remembered; later Writes return it at once
  /\ cpc = "write" /\ ~rOpen
  /\ lastError' = "broken"
  /\ buf' = <<>>
  /\ cpc' = "idle"
  /\ UNCHANGED <<preset, supply, ioVars, beginRecordChan, errorChan,
                 beginRecord, written, result, goVars, kernelVars>>

-----------------------------------------------------------------------------
(* WaitAndClose. *)

\* Sends an empty record, for a goroutine still waiting, and closes the channel.
WaitAndClose ==
  /\ cpc = "idle"
  /\ written >= supply \/ lastError # "none"
  /\ Len(beginRecordChan) < 2
  /\ beginRecordChan' = Append(beginRecordChan, 0)
  /\ cpc' = "wait"
  /\ UNCHANGED <<preset, supply, ioVars, errorChan, beginRecord, lastError, buf,
                 written, result, goVars, kernelVars>>

\* Possible slip: the write end is left open.
WaitEndsLeavesPipe ==
  /\ cpc = "wait" /\ errorChan # <<>>
  /\ result' = Head(errorChan)
  /\ errorChan' = Tail(errorChan)
  /\ cpc' = "returned"
  /\ UNCHANGED <<preset, supply, ioVars, beginRecordChan, beginRecord, lastError,
                 buf, written, goVars, kernelVars>>

WaitEnds ==
  /\ cpc = "wait" /\ errorChan # <<>>
  /\ result' = Head(errorChan)
  /\ errorChan' = Tail(errorChan)
  /\ wOpen' = FALSE
  /\ cpc' = "returned"
  /\ UNCHANGED <<preset, supply, pipe, rOpen, beginRecordChan, beginRecord,
                 lastError, buf, written, goVars, kernelVars>>

-----------------------------------------------------------------------------
(* The goroutine and the kernel. *)

Verdict(e) ==
  /\ gerr' = e
  /\ gpc' = "report"

\* The channel is closed by WaitAndClose; receiving then yields an empty slice.
RecordReceived == IF beginRecordChan = <<>> THEN 0 ELSE Head(beginRecordChan)

\* Possible slip: the goroutine returns without an error when there was no record.
GoGetsRecordSilently ==
  /\ gpc = "begin"
  /\ beginRecordChan # <<>> \/ cpc \in {"wait", "returned"}
  /\ beginRecordChan' = IF beginRecordChan = <<>> THEN <<>> ELSE Tail(beginRecordChan)
  /\ gpc' = IF RecordReceived = BeginLen THEN "ioctl" ELSE "close"
  /\ UNCHANGED <<preset, supply, ioVars, errorChan, callerVars, gerr, kernelVars>>

GoGetsRecord ==
  /\ gpc = "begin"
  /\ beginRecordChan # <<>> \/ cpc \in {"wait", "returned"}
  /\ beginRecordChan' = IF beginRecordChan = <<>> THEN <<>> ELSE Tail(beginRecordChan)
  /\ IF RecordReceived = BeginLen
     THEN gpc' = "ioctl" /\ UNCHANGED gerr
     ELSE Verdict("short")
  /\ UNCHANGED <<preset, supply, ioVars, errorChan, callerVars, kernelVars>>

KernelRead ==
  /\ gpc = "ioctl" /\ pipe # <<>>
  /\ BeginLen + Len(consumed) < StreamLen
  /\ consumed' = Append(consumed, Head(pipe))
  /\ pipe' = Tail(pipe)
  /\ UNCHANGED <<preset, supply, rOpen, wOpen, beginRecordChan, errorChan,
                 callerVars, goVars, dst>>

\* The last record was read (res.ErrorFlags may be set), or the stream ends early.
KernelAnswers ==
  LET complete == BeginLen + Len(consumed) = StreamLen
  IN  /\ gpc = "ioctl"
      /\ complete \/ (pipe = <<>> /\ ~wOpen)
      /\ \E e \in (IF complete THEN {"nil", "props"} ELSE {"errno"}) : Verdict(e)
      /\ UNCHANGED <<preset, supply, ioVars, beginRecordChan, errorChan, callerVars,
                     kernelVars>>

\* The stream was received, but the reply's list of properties is to go into
\* ErrorList, a nil map: Unmarshal panics, and the process ends.
GoPanics ==
  /\ PropErrors
  /\ gpc = "ioctl" /\ BeginLen + Len(consumed) = StreamLen
  /\ gpc' = "panicked"
  /\ UNCHANGED <<preset, supply, ioVars, beginRecordChan, errorChan, callerVars, gerr,
                 kernelVars>>

KernelRejects ==  \* bad data, full pool, ..., or a reply Unmarshal refuses
  /\ gpc = "ioctl"
  /\ Verdict("errno")
  /\ UNCHANGED <<preset, supply, ioVars, beginRecordChan, errorChan, callerVars, kernelVars>>

KernelNoMem ==
  /\ gpc = "ioctl"
  /\ LateENOMEM \/ consumed = <<>>
  /\ IF Exhausted(dst)
     THEN Verdict("tooBig") /\ UNCHANGED kernelVars
     ELSE dst' = Grow(dst) /\ consumed' = <<>> /\ UNCHANGED goVars
  /\ UNCHANGED <<preset, supply, ioVars, beginRecordChan, errorChan, callerVars>>

\* Possible slip: the read end is closed before the verdict is sent.
GoReportsAfterClose ==
  /\ gpc \in {"report", "close"}
  /\ IF gpc = "report"
     THEN rOpen' = FALSE /\ gpc' = "close" /\ UNCHANGED errorChan
     ELSE errorChan' = Append(errorChan, gerr) /\ gpc' = "done" /\ UNCHANGED rOpen
  /\ UNCHANGED <<preset, supply, pipe, wOpen, beginRecordChan, callerVars, gerr, kernelVars>>

GoReports ==
  /\ gpc = "report" /\ Len(errorChan) < 1
  /\ errorChan' = Append(errorChan, gerr)
  /\ gpc' = "close"
  /\ UNCHANGED <<preset, supply, ioVars, beginRecordChan, callerVars, gerr, kernelVars>>

\* Possible slip: the goroutine ends without closing its end of the pipe.
GoForgetsClose ==
  /\ gpc = "close"
  /\ gpc' = "done"
  /\ UNCHANGED <<preset, supply, ioVars, beginRecordChan, errorChan, callerVars, gerr, kernelVars>>

GoCloses ==       \* defer r.Close()
  /\ gpc = "close"
  /\ rOpen' = FALSE
  /\ gpc' = "done"
  /\ UNCHANGED <<preset, supply, pipe, wOpen, beginRecordChan, errorChan, callerVars,
                 gerr, kernelVars>>

-----------------------------------------------------------------------------
Alive == gpc # "panicked"
Caller == Alive /\ ((\E n \in 0..MaxWrite : Write(n)) \/ WriteRefused \/ WaitAndClose)
Blocked == Alive /\ (PipeWrite \/ PipeBroken \/ WaitEnds)
\* The kernel's obligatory steps; rejecting and ENOMEM are never obligatory.
KernelRuns == KernelRead \/ KernelAnswers \/ GoPanics
Go == GoGetsRecord \/ GoReports \/ GoCloses

Next == Caller \/ Blocked \/ KernelRuns \/ KernelRejects \/ KernelNoMem \/ Go

Spec == Init /\ [][Next]_vars

\* Runnable goroutines run, the kernel reads on while there is data, and the
\* caller goes on writing (at least a byte at a time) and then waits.
FairSpec ==
  /\ Spec
  /\ WF_vars(Go)
  /\ WF_vars(KernelRuns)
  /\ WF_vars(Blocked)
  /\ WF_vars(Alive /\ ((\E n \in 1..MaxWrite : Write(n)) \/ WaitAndClose))

-----------------------------------------------------------------------------
(* The kernel side gets a growing prefix of the stream, begin record first *)
(* and each byte once, and WaitAndClose returns success (or the property   *)
(* errors of a completed receive) only for the complete stream.            *)
Transfer == INSTANCE SnapshotTransfer WITH
  delivered <- IF gpc = "begin" \/ gerr = "short" THEN <<>> ELSE beginRecord \o consumed,
  outcome   <- CASE result = "none" -> "open"
                 [] result \in {"nil", "props"} -> "complete"
                 [] OTHER -> "failed"

ImplementsTransfer == Transfer!Spec

(* What WaitAndClose returns is the goroutine's verdict, and a Write that  *)
(* fails does so only after that verdict was delivered: calling            *)
(* WaitAndClose then yields the kernel's reason without waiting.           *)
WriteErrorHasVerdict ==
  lastError # "none" =>
    /\ ~rOpen
    /\ \/ errorChan = <<gerr>>
       \/ cpc = "returned" /\ result = gerr

(* Each of the two channels has room whenever a send is due, so neither    *)
(* Write (completing the record) nor WaitAndClose nor the goroutine ever   *)
(* blocks on a channel send.                                               *)
SendsNeverBlock ==
  /\ cpc = "idle" => Len(beginRecordChan) < 2
  /\ gpc = "report" => errorChan = <<>>

(* "Not enough data received for BeginRecord" is the answer only when the  *)
(* caller gave fewer than BeginLen bytes: the empty record WaitAndClose    *)
(* sends never overtakes a complete one.  A record in ReceiveOpts does not *)
(* count: the goroutine replaces it by what comes through the channel.     *)
ShortOnlyIfShort == gerr = "short" => preset \/ written < BeginLen

(* A Write never hangs: the kernel drains the pipe, or the goroutine has   *)
(* closed the read end and the Write fails.  With a record in ReceiveOpts  *)
(* the goroutine waits for another, and a Write that fills the pipe hangs. *)
WriteReturns == (cpc = "write" /\ ~preset) ~> (cpc # "write" \/ ~Alive)

\* The kernel has a begin record and waits for more of the stream.
Starved == ~preset /\ written \in BeginLen..(StreamLen - 1)

(* WaitAndClose returns, unless the goroutine's panic ends the process or  *)
(* the stream stops after its begin record: the write end is closed only   *)
(* after the verdict, and the kernel's reading never ends.                 *)
WaitReturns == (cpc = "wait" /\ ~Starved) ~> (cpc = "returned" \/ ~Alive)

(* Once WaitAndClose has returned, the goroutine ends and both ends of the *)
(* pipe are closed.                                                        *)
ClosesEverything == (cpc = "returned") ~> (gpc = "done" /\ ~rOpen /\ ~wOpen)
=============================================================================
