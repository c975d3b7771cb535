----------------------------- MODULE NvlistIoctl -----------------------------
(***************************************************************************)
(* NvlistIoctl of ioctl/ioctl.go: marshal, then a loop that builds a       *)
(* private copy of the caller's Cmd and issues the system call, repeated   *)
(* with a longer reply buffer while the kernel answers ENOMEM.             *)
(*                                                                         *)
(* Cmd is reduced to its Name buffer and its Cookie.  The kernel's handler *)
(* is external: it may write both even when it answers ENOMEM, as the      *)
(* comment in the loop says; here it advances the cookie and overwrites    *)
(* the name as the listing ioctls do.  A reply that does not fit gives     *)
(* ENOMEM, and so may a handler that is out of memory.                     *)
(***************************************************************************)
EXTENDS DstBuffer, DelimitedBuf

CONSTANTS
  NameLen,     \* length of Cmd.Name (4096 in the code)
  Names,       \* names passed by callers
  ReplyName,   \* name the handler writes
  Cookies,     \* cookies passed by callers
  Needs        \* sizes of the kernel's replies

ASSUME IoctlAssumption ==
  /\ NameLen \in Nat \ {0}
  /\ Names \subseteq Seq(Nat)
  /\ ReplyName \in Seq(Nat \ {NUL}) /\ Len(ReplyName) < NameLen
  /\ Cookies \subseteq Nat
  /\ Needs \subseteq Nat

VARIABLES
  pc,           \* where the call is; "idle" between calls
  args,         \* arguments of the call; how marshalling them will go
  cmd,          \* the caller's Cmd
  privateCmd,   \* the copy given to the kernel
  dst,          \* len(dst)
  errno,        \* of the last system call
  result,       \* of the last NvlistIoctl
  need, oom     \* kernel: size of the reply; ran out of memory in this call

vars == <<pc, args, cmd, privateCmd, dst, errno, result, need, oom>>

Cmd == [name : [1..NameLen -> Nat], cookie : Nat]
FreshCmd(c) == [name |-> [i \in 1..NameLen |-> NUL], cookie |-> c]

\* nil, or a value that nvlist can or cannot handle
Params == {"nil", "good", "bad"}
Args == [name : Names, request : Params, config : Params, response : Params]

TypeOK ==
  /\ pc \in {"idle", "marshal", "loop", "kernel", "answered"}
  /\ args \in Args
  /\ cmd \in Cmd /\ privateCmd \in Cmd
  /\ dst \in DstSizes
  /\ errno \in {"ok", "errno", "ENOMEM"}
  /\ result \in {"none", "nil", "marshal", "errno", "tooBig", "unmarshal"}
  /\ need \in Needs
  /\ oom \in BOOLEAN

Init ==
  /\ pc = "idle"
  /\ args \in [name : Names, request : {"nil"}, config : {"nil"}, response : {"nil"}]
  /\ \E c \in Cookies : cmd = FreshCmd(c) /\ privateCmd = FreshCmd(c)
  /\ dst = InitialDst
  /\ errno = "ok" /\ result = "none"
  /\ need \in Needs /\ oom = FALSE

-----------------------------------------------------------------------------
(* A wrapper makes a Cmd and calls; the locals of the call are fresh. *)
Call ==
  /\ pc = "idle"
  /\ pc' = "marshal"
  /\ args' \in Args
  /\ \E c \in Cookies : cmd' = FreshCmd(c) /\ privateCmd' = FreshCmd(c)
  /\ need' \in Needs /\ oom' = FALSE
  /\ dst' = InitialDst /\ errno' = "ok" /\ result' = "none"

Return(r) ==
  /\ pc' = "idle"
  /\ result' = r

MarshalRequest ==
  /\ pc = "marshal"
  /\ IF args.request = "bad"
     THEN Return("marshal")
     ELSE pc' = "loop" /\ UNCHANGED result
  /\ UNCHANGED <<args, cmd, privateCmd, dst, errno, need, oom>>

\* Possible slip: the copy of *cmd is made once, before the loop.
BuildCmdOnce ==
  LET base == IF dst = InitialDst THEN cmd ELSE privateCmd
  IN  /\ pc = "loop" /\ args.config # "bad"
      /\ privateCmd' = [base EXCEPT !.name = StringToDelimitedBuf(args.name, @)]
      /\ pc' = "kernel"
      /\ UNCHANGED <<args, cmd, dst, errno, result, need, oom>>

BuildCmd ==       \* a too long name or a NUL in it goes unnoticed
  /\ pc = "loop" /\ args.config # "bad"
  /\ privateCmd' = [cmd EXCEPT !.name = StringToDelimitedBuf(args.name, @)]
  /\ pc' = "kernel"
  /\ UNCHANGED <<args, cmd, dst, errno, result, need, oom>>

ConfigFails ==    \* the config is marshalled in the loop, before the call
  /\ pc = "loop" /\ args.config = "bad"
  /\ Return("marshal")
  /\ UNCHANGED <<args, cmd, privateCmd, dst, errno, need, oom>>

-----------------------------------------------------------------------------
(* The kernel: what the handler leaves in the Cmd it was given. *)
HandlerWrites ==
  privateCmd' =
    [name   |-> [i \in 1..NameLen |-> IF i <= Len(ReplyName) THEN ReplyName[i]
                                      ELSE IF i = Len(ReplyName) + 1 THEN NUL
                                      ELSE privateCmd.name[i]],
     cookie |-> privateCmd.cookie + 1]

ReplyFits == args.response # "nil" => need <= dst

HandlerAnswers ==
  /\ pc = "kernel" /\ ReplyFits
  /\ HandlerWrites
  /\ errno' \in {"ok", "errno"}
  /\ pc' = "answered"
  /\ UNCHANGED <<args, cmd, dst, result, need, oom>>

HandlerNoMem ==
  /\ pc = "kernel"
  /\ HandlerWrites
  /\ errno' = "ENOMEM"
  /\ oom' \in {oom, TRUE} /\ (ReplyFits => oom')
  /\ pc' = "answered"
  /\ UNCHANGED <<args, cmd, dst, result, need>>

-----------------------------------------------------------------------------
Retry ==
  /\ pc = "answered" /\ errno = "ENOMEM" /\ ~Exhausted(dst)
  /\ dst' = Grow(dst)
  /\ pc' = "loop"
  /\ UNCHANGED <<args, cmd, privateCmd, errno, result, need, oom>>

GiveUp ==
  /\ pc = "answered" /\ errno = "ENOMEM" /\ Exhausted(dst)
  /\ Return("tooBig")
  /\ UNCHANGED <<args, cmd, privateCmd, dst, errno, need, oom>>

Finish ==
  /\ pc = "answered" /\ errno # "ENOMEM"
  /\ cmd' = privateCmd
  /\ Return(CASE errno = "errno" -> "errno"
              [] errno = "ok" /\ args.response = "bad" -> "unmarshal"
              [] OTHER -> "nil")
  /\ UNCHANGED <<args, privateCmd, dst, errno, need, oom>>

Work == MarshalRequest \/ BuildCmd \/ ConfigFails \/ HandlerAnswers \/ HandlerNoMem
          \/ Retry \/ GiveUp \/ Finish

Next == Call \/ Work

Spec == Init /\ [][Next]_vars

\* A call in progress goes on: the handler answers, and the loop is sequential.
FairSpec == Spec /\ WF_vars(Work)

-----------------------------------------------------------------------------
(* However often the system call was repeated, the caller's Cmd is left    *)
(* with the effect of exactly one handler execution, and untouched when    *)
(* the call is refused (abstract module IoctlCall).                        *)
OneCall == INSTANCE IoctlCall WITH
  busy <- pc # "idle", cookie <- cmd.cookie

ImplementsOneCall == OneCall!Spec

\* A name Cmd.Name can hold: no NUL, and room for the terminator.
Legal(name) == Len(name) < NameLen /\ \A i \in 1..Len(name) : name[i] # NUL

(* Every execution of the handler, repeated ones included, gets the name   *)
(* the caller passed, although an earlier execution wrote another into its *)
(* copy of the Cmd.  NvlistIoctl drops stringToDelimitedBuf's error, so    *)
(* the handler gets only a beginning of a name that is not legal.          *)
KernelSeesName ==
  pc = "kernel" =>
    LET seen == DelimitedBufToString(privateCmd.name)
    IN  IF Legal(args.name) THEN seen = args.name
        ELSE \E n \in 0..(Len(args.name) - 1) : seen = SubSeq(args.name, 1, n)

(* "return buffer is bigger than 16MiB" is the answer only when a reply    *)
(* does not even fit 32 MiB (the last buffer tried) or the kernel itself   *)
(* was out of memory.                                                      *)
GaveUpOnlyIfTooBig ==
  result = "tooBig" => oom \/ (args.response # "nil" /\ need > 32 * 1024 * 1024)

(* Every call returns: the retries end, whatever the kernel answers.       *)
CallReturns == (pc # "idle") ~> (pc = "idle")
=============================================================================
