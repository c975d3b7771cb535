-------------------------------- MODULE Trace --------------------------------
(***************************************************************************)
(* The tracer of ioctl/trace/main.go and the program it runs.  The program *)
(* (external) makes a sequence of system calls and exits; PTRACE_SYSCALL   *)
(* lets it run until it enters or leaves one, until a signal arrives, or   *)
(* until it is gone.  The tracer does not look at the status Wait4 has and *)
(* counts on the stops alternating: exit is TRUE at every second one.      *)
(*                                                                         *)
(* Ptrace requests count only when they come from the thread that started  *)
(* the program.  The tracer does not lock its goroutine to a thread, so it *)
(* may go on with another one after each of its calls.  When main is over, *)
(* the kernel lets go of the program, which then runs on untraced.         *)
(***************************************************************************)
EXTENDS Naturals, Sequences, FiniteSets

CONSTANTS
  Programs,     \* sequences of "zfs", "ioctl" and "plain" calls: an ioctl of ZFS
                \* whose lists can be decoded when it has ended; any other ioctl,
                \* of another device or one that failed, left its dst unfilled or
                \* asked for a larger one; and any other system call
  MaxSignals,   \* signals the program gets
  Migrates      \* may the tracer's goroutine change threads

ASSUME TraceAssumption ==
  /\ Programs \subseteq Seq({"zfs", "ioctl", "plain"})
  /\ MaxSignals \in Nat /\ Migrates \in BOOLEAN

VARIABLES
  program,   \* the system calls it makes before exit_group
  at,        \* number of the one it is in or has made last
  stop,      \* where it is: not there, stopped at a place, running or gone
  left,      \* it has left system call at
  signals,   \* signals so far
  pc,        \* where the tracer is
  exit,      \* its variable exit
  thread,    \* it runs on the thread that started the program
  reports    \* what it has printed: the call, and whether that had ended

vars == <<program, at, stop, left, signals, pc, exit, thread, reports>>

Over == pc \in {"done", "panicked"}

TypeOK ==
  /\ program \in Programs /\ at \in 0..(Len(program) + 1)
  /\ stop \in {"none", "exec", "entry", "exit", "signal", "running", "gone"}
  /\ left \in BOOLEAN /\ exit \in BOOLEAN /\ thread \in BOOLEAN
  /\ signals \in 0..MaxSignals
  /\ pc \in {"start", "regs", "print", "cont", "wait", "done", "panicked"}
  /\ stop = "running" => pc = "wait"
  /\ \A i \in 1..Len(reports) : reports[i] \in [call : 1..at, ended : BOOLEAN]

\* Possible slip: the first stop is taken for an entry.
FirstStopEntry == FALSE
FirstStop == TRUE     \* exit := true

Init ==
  /\ program \in Programs
  /\ at = 0 /\ stop = "none" /\ left = TRUE /\ signals = 0
  /\ pc = "start" /\ exit = FirstStop /\ thread = TRUE /\ reports = <<>>

-----------------------------------------------------------------------------
(* The program. *)

Gone == at > Len(program)     \* in exit_group

Enter ==
  /\ stop = "running" /\ left
  /\ at' = at + 1 /\ left' = FALSE
  /\ stop' = "entry"
  /\ UNCHANGED signals

Leave ==
  /\ stop = "running" /\ ~left
  /\ left' = TRUE
  /\ stop' = IF Gone THEN "gone" ELSE "exit"
  /\ UNCHANGED <<at, signals>>

Signal ==
  /\ stop = "running" /\ left /\ signals < MaxSignals
  /\ signals' = signals + 1
  /\ stop' = "signal"
  /\ UNCHANGED <<at, left>>

Killed ==             \* by SIGKILL, also within a system call
  /\ stop = "running" /\ signals < MaxSignals
  /\ signals' = signals + 1
  /\ stop' = "gone"
  /\ UNCHANGED <<at, left>>

RunsOn ==             \* its tracer is over
  /\ Over /\ stop \notin {"none", "gone"}
  /\ at' = Len(program) + 1 /\ left' = TRUE
  /\ stop' = "gone"
  /\ UNCHANGED signals

Runs ==
  /\ Enter \/ Leave \/ Signal \/ Killed \/ RunsOn
  /\ UNCHANGED <<program, pc, exit, thread, reports>>

-----------------------------------------------------------------------------
(* The tracer. *)

Kernel == UNCHANGED <<program, at, left, signals>>

\* The next step may be made by another thread; when main is over there is none.
GoesOn(p) == pc' = p /\ thread' \in {t \in BOOLEAN : t = thread \/ Migrates}
Ends(p) == pc' = p /\ UNCHANGED thread

Answers == thread /\ stop \notin {"none", "running", "gone"}     \* to a ptrace request

\* Start's error is dropped; without a Process, main goes no further.
Start ==
  /\ pc = "start"
  /\ \/ stop' = "exec" /\ GoesOn("regs")
     \/ UNCHANGED stop /\ Ends("panicked")
  /\ Kernel /\ UNCHANGED <<exit, reports>>

\* Orig_rax is the number of the system call the program is in or returns from;
\* a signal may find it elsewhere.
InIoctl == at \in DOMAIN program /\ program[at] \in {"zfs", "ioctl"}

PtraceGetRegs ==
  /\ pc = "regs"
  /\ \/ ~exit /\ GoesOn("cont")
     \/ exit /\ ~Answers /\ Ends("done")
     \/ exit /\ Answers /\ InIoctl /\ GoesOn("print")
     \/ exit /\ Answers /\ (~InIoctl \/ stop = "signal") /\ GoesOn("cont")
  /\ Kernel /\ UNCHANGED <<stop, exit, reports>>

PrintsCall ==
  /\ pc = "print" /\ Answers
  /\ reports' = Append(reports, [call |-> at, ended |-> left])
  /\ GoesOn("cont")
  /\ Kernel /\ UNCHANGED <<stop, exit>>

\* What Rdx points to need not be a Cmd, nor be as long as one; and what a Cmd
\* points to need not be a list, least of all before the call has ended.
Unreadable == program[at] = "ioctl" \/ ~left

Misread ==     \* any of the panics between PtracePeekData and MarshalIndent
  /\ pc = "print" /\ (~Answers \/ Unreadable)
  /\ Ends("panicked")
  /\ Kernel /\ UNCHANGED <<stop, exit, reports>>

PtraceSyscall ==
  /\ pc = "cont"
  /\ \/ Answers /\ stop' = "running" /\ GoesOn("wait")
     \/ ~Answers /\ UNCHANGED stop /\ Ends("panicked")
  /\ Kernel /\ UNCHANGED <<exit, reports>>

\* Possible slip: the loop goes on without turning exit over.
ToggledNot == exit
Toggled == ~exit

Wait4 ==
  /\ pc = "wait" /\ stop # "running"
  /\ exit' = Toggled
  /\ GoesOn("regs")
  /\ Kernel /\ UNCHANGED <<stop, reports>>

Next == Runs \/ Start \/ PtraceGetRegs \/ PrintsCall \/ Misread \/ PtraceSyscall \/ Wait4
Ended == Over /\ stop \in {"none", "gone"} /\ UNCHANGED vars

Spec == Init /\ [][Next \/ Ended]_vars
FairSpec == Spec /\ WF_vars(Next)

-----------------------------------------------------------------------------
Ioctls == {k \in DOMAIN program : program[k] # "plain"}
Printed == {reports[i].call : i \in 1..Len(reports)}

(* Until a signal arrives, an ioctl is printed when it has ended, with the *)
(* answer in its buffers, and no earlier.                                  *)
ReportsEnded == signals = 0 => \A i \in 1..Len(reports) : reports[i].ended

(* On its thread and without signals, the tracer leaves its loop only when *)
(* the program is gone, and has then printed every ioctl of it, each once  *)
(* and in order.                                                           *)
Complete ==
  pc = "done" /\ signals = 0 /\ thread =>
    /\ stop = "gone" /\ Printed = Ioctls
    /\ \A i, j \in 1..Len(reports) : i < j => reports[i].call < reports[j].call

(* Whatever signals do, the program does not get past an ioctl that was    *)
(* not printed while the tracer is in its loop, nor when it has left it by *)
(* break on its own thread; and a signal costs at most one repeated print. *)
(* After a break on another thread, or a panic, the program runs on unseen.*)
SignalsOnlyRepeat ==
  /\ ~Over \/ (pc = "done" /\ thread) => \A k \in Ioctls : k < at => k \in Printed
  /\ Len(reports) <= Cardinality({k \in Ioctls : k <= at}) + signals

(* Why main may panic: the program was not started, exit is out of step    *)
(* after a signal, the program does not answer to this thread, or it makes *)
(* an ioctl that cannot be printed.                                        *)
HasReason ==
  stop = "none" \/ signals > 0 \/ ~thread \/ "ioctl" \in {program[k] : k \in Ioctls}

(* The tracer comes to its end: by the loop's break, unless it has one of  *)
(* these reasons to panic.                                                 *)
TracerEnds == <>(pc = "done" \/ (pc = "panicked" /\ HasReason))
=============================================================================
