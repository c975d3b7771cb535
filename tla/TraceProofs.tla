----------------------------- MODULE TraceProofs -----------------------------
(***************************************************************************)
(* Proofs about Trace, for any programs, any number of signals, and with   *)
(* or without a change of the tracer's thread.                             *)
(***************************************************************************)
EXTENDS Trace, SequenceTheorems, FiniteSetTheorems, TLAPS

Report == [call : Nat, ended : BOOLEAN]

(* Where the program is. *)
ShapeInv ==
  /\ TypeOK /\ reports \in Seq(Report)
  /\ \A i \in 1..Len(reports) : reports[i].call \in Ioctls /\ reports[i].call <= at
  /\ stop = "entry" => ~left
  /\ stop \in {"none", "exec", "exit", "signal"} => left
  /\ stop \in {"none", "exec"} => at = 0
  /\ left /\ at > Len(program) => stop = "gone"
  /\ stop = "gone" /\ signals = 0 => left /\ at > Len(program)
  /\ pc = "start" => stop = "none"
  /\ stop = "none" => pc \in {"start", "panicked"}
  /\ pc = "print" => at \in Ioctls /\ exit /\ stop \in {"entry", "exit", "signal"}

(* Until a signal arrives, exit is TRUE just when the program has left its *)
(* system call, from the moment Wait4 has returned until it stops anew.    *)
PhaseInv ==
  signals = 0 =>
    /\ ~Over => IF pc = "wait" /\ stop # "running" THEN exit <=> ~left ELSE exit <=> left
    /\ \A i \in 1..Len(reports) : reports[i].ended
    /\ \A i, j \in 1..Len(reports) : i < j => reports[i].call < reports[j].call
    /\ ~Over /\ (~left \/ pc \in {"regs", "print"} \/ (pc = "wait" /\ stop # "running")) =>
         \A i \in 1..Len(reports) : reports[i].call < at

(* The stops of the present system call at which it will be printed are    *)
(* still to come: of its entry and its exit, at one exit is TRUE.          *)
Unseen ==
  /\ stop # "gone"
  /\ \/ ~left /\ \/ pc = "wait" /\ (stop = "entry" \/ ~exit)
                 \/ pc \in {"regs", "print"}
                 \/ pc = "cont" /\ ~exit
     \/ left /\ stop = "exit" /\ ((pc = "wait" /\ ~exit) \/ (pc \in {"regs", "print"} /\ exit))

IsPrinted(k) == \E i \in 1..Len(reports) : reports[i].call = k

PrintedInv ==
  /\ ~Over \/ (pc = "done" /\ thread) => \A k \in Ioctls : k < at => IsPrinted(k)
  /\ at \in Ioctls => IsPrinted(at) \/ Unseen \/ stop = "gone" \/ Over

(* One print for every ioctl entered and every signal, at most; one of     *)
(* them is still due at a stop that has not been dealt with.               *)
Entered(n) == {k \in Ioctls : k <= n}
Due == (at \in Ioctls /\ Unseen) \/ (stop = "signal" /\ pc \in {"wait", "regs", "print"})

CountInv == Len(reports) + (IF Due THEN 1 ELSE 0) <= Cardinality(Entered(at)) + signals

\* The tracer has left its loop by break, on its thread.
DoneInv == pc = "done" /\ thread => stop = "gone"

IInv == ShapeInv /\ PhaseInv /\ PrintedInv /\ CountInv /\ DoneInv

-----------------------------------------------------------------------------
LEMMA ProgramType ==
  ASSUME TypeOK
  PROVE  /\ program \in Seq({"zfs", "ioctl", "plain"}) /\ Len(program) \in Nat
         /\ DOMAIN program = 1..Len(program)
         /\ \A k \in 1..Len(program) : program[k] \in {"zfs", "ioctl", "plain"}
         /\ Ioctls \subseteq 1..Len(program)
         /\ \A k : k \in Ioctls <=> k \in DOMAIN program /\ program[k] \in {"zfs", "ioctl"}
         /\ at \in Nat /\ signals \in Nat
<1> DEFINE C == {"zfs", "ioctl", "plain"}
<1>1. program \in Seq(C)
  BY TraceAssumption DEF TypeOK
<1> HIDE DEF C
<1>2. Len(program) \in Nat /\ DOMAIN program = 1..Len(program)
  BY <1>1, LenProperties
<1>3. \A k \in 1..Len(program) : program[k] \in C
  BY <1>1, <1>2, ElementOfSeq
<1>4. at \in Nat /\ signals \in Nat
  BY <1>2, TraceAssumption DEF TypeOK
<1> QED BY <1>1, <1>2, <1>3, <1>4 DEF C, Ioctls

(* Printing one more call. *)
LEMMA ReportAppended ==
  ASSUME reports \in Seq(Report), NEW r \in Report, reports' = Append(reports, r)
  PROVE  /\ reports' \in Seq(Report) /\ Len(reports) \in Nat
         /\ Len(reports') = Len(reports) + 1
         /\ reports'[Len(reports) + 1] = r
         /\ \A i \in 1..Len(reports) : reports'[i] = reports[i]
         /\ \A i \in 1..Len(reports') : i \in 1..Len(reports) \/ i = Len(reports) + 1
         /\ Len(reports) + 1 \in 1..Len(reports')
         /\ 1..Len(reports) \subseteq 1..Len(reports')
<1>1. /\ reports' \in Seq(Report) /\ Len(reports) \in Nat
      /\ Len(reports') = Len(reports) + 1
      /\ reports'[Len(reports) + 1] = r
      /\ \A i \in 1..Len(reports) : reports'[i] = reports[i]
  BY AppendProperties, LenProperties
<1>2. \A n \in Nat : /\ \A i \in 1..(n + 1) : i \in 1..n \/ i = n + 1
                     /\ n + 1 \in 1..(n + 1) /\ 1..n \subseteq 1..(n + 1)
  OBVIOUS
<1> QED BY <1>1, <1>2

LEMMA PrintsReport ==
  ASSUME ShapeInv, PrintsCall
  PROVE  /\ at \in Ioctls /\ [call |-> at, ended |-> left] \in Report
         /\ reports' = Append(reports, [call |-> at, ended |-> left])
         /\ pc = "print" /\ exit /\ stop \in {"entry", "exit", "signal"} /\ pc' = "cont"
         /\ thread' \in BOOLEAN
         /\ UNCHANGED <<program, at, stop, left, signals, exit>>
<1>1. TypeOK
  BY DEF ShapeInv
<1>2. at \in Nat /\ left \in BOOLEAN
  BY <1>1, ProgramType DEF TypeOK
<1> QED BY <1>2 DEF ShapeInv, PrintsCall, GoesOn, Report, Kernel

(* What the steps of the tracer that print nothing do. *)
LEMMA StartStep ==
  ASSUME Start
  PROVE  /\ UNCHANGED <<program, at, left, signals, exit, reports>>
         /\ pc = "start" /\ thread' \in BOOLEAN \cup {thread}
         /\ \/ pc' = "regs" /\ stop' = "exec"
            \/ pc' = "panicked" /\ stop' = stop /\ thread' = thread
BY DEF Start, Kernel, GoesOn, Ends

LEMMA RegsStep ==
  ASSUME PtraceGetRegs
  PROVE  /\ UNCHANGED <<program, at, stop, left, signals, exit, reports>>
         /\ pc = "regs" /\ thread' \in BOOLEAN \cup {thread}
         /\ \/ pc' = "cont" /\ (~exit \/ (Answers /\ (~InIoctl \/ stop = "signal")))
            \/ pc' = "print" /\ exit /\ Answers /\ InIoctl
            \/ pc' = "done" /\ exit /\ ~Answers /\ thread' = thread
BY DEF PtraceGetRegs, Kernel, GoesOn, Ends

LEMMA MisreadStep ==
  ASSUME Misread
  PROVE  /\ UNCHANGED <<program, at, stop, left, signals, exit, thread, reports>>
         /\ pc = "print" /\ pc' = "panicked" /\ (~Answers \/ Unreadable)
BY DEF Misread, Kernel, Ends

LEMMA SyscallStep ==
  ASSUME PtraceSyscall
  PROVE  /\ UNCHANGED <<program, at, left, signals, exit, reports>>
         /\ pc = "cont" /\ thread' \in BOOLEAN \cup {thread}
         /\ \/ pc' = "wait" /\ stop' = "running" /\ Answers
            \/ pc' = "panicked" /\ stop' = stop /\ ~Answers /\ thread' = thread
BY DEF PtraceSyscall, Kernel, GoesOn, Ends

LEMMA WaitStep ==
  ASSUME Wait4
  PROVE  /\ UNCHANGED <<program, at, stop, left, signals, reports>>
         /\ pc = "wait" /\ pc' = "regs" /\ stop # "running"
         /\ exit' \in BOOLEAN /\ (exit' <=> ~exit) /\ thread' \in BOOLEAN
BY DEF Wait4, Kernel, Toggled, GoesOn

LEMMA TraceInitIInv == Init => IInv
<1> SUFFICES ASSUME Init PROVE IInv
  OBVIOUS
<1>1. /\ reports \in Seq(Report) /\ Len(reports) = 0
  BY DEF Init
<1>2. Len(program) \in Nat
  BY TraceAssumption, LenProperties DEF Init
<1>3. TypeOK
  <2>1. thread \in BOOLEAN
    BY TraceAssumption, Zenon DEF Init
  <2>2. at \in 0..(Len(program) + 1) /\ signals \in 0..MaxSignals
    BY <1>2, TraceAssumption DEF Init
  <2> QED BY <1>1, <2>1, <2>2 DEF Init, TypeOK, FirstStop
<1>4. ShapeInv
  BY <1>1, <1>2, <1>3 DEF Init, ShapeInv
<1>5. PhaseInv
  BY <1>1 DEF Init, PhaseInv, FirstStop
<1>6. at \notin Ioctls /\ \A k \in Ioctls : ~(k < at)
  BY <1>3, ProgramType DEF Init
<1>7. PrintedInv
  BY <1>6 DEF PrintedInv
<1>8. CountInv
  <2>1. Entered(at) = {} /\ ~Due
    BY <1>3, <1>6, ProgramType DEF Init, Entered, Due
  <2>2. Cardinality(Entered(at)) = 0
    BY <2>1, FS_EmptySet
  <2> QED BY <1>1, <2>1, <2>2 DEF Init, CountInv
<1>9. DoneInv
  BY DEF Init, DoneInv
<1> QED BY <1>4, <1>5, <1>7, <1>8, <1>9 DEF IInv

-----------------------------------------------------------------------------
(* Where the program is, after every step. *)
LEMMA ShapeStep == IInv /\ [Next \/ Ended]_vars => ShapeInv'
<1> SUFFICES ASSUME ShapeInv, [Next \/ Ended]_vars PROVE ShapeInv'
  BY DEF IInv
<1>t. /\ TypeOK /\ Len(program) \in Nat /\ at \in Nat /\ signals \in Nat /\ MaxSignals \in Nat
      /\ reports \in Seq(Report)
  BY ProgramType, TraceAssumption DEF ShapeInv
<1>r. ASSUME at' \in Nat, at <= at'
      PROVE  \A i \in 1..Len(reports) :
               /\ reports[i] \in [call : 1..at', ended : BOOLEAN]
               /\ reports[i].call \in Ioctls /\ reports[i].call <= at'
  <2> SUFFICES ASSUME NEW i \in 1..Len(reports)
               PROVE  /\ reports[i] \in [call : 1..at', ended : BOOLEAN]
                      /\ reports[i].call \in Ioctls /\ reports[i].call <= at'
    OBVIOUS
  <2>1. /\ reports[i] \in [call : 1..at, ended : BOOLEAN]
        /\ reports[i].call \in Ioctls /\ reports[i].call <= at
    BY DEF ShapeInv, TypeOK
  <2>2. 1..at \subseteq 1..at'
    BY <1>r, <1>t
  <2>3. reports[i].call \in Nat
    <3>1. reports[i] \in Report
      BY <1>t, ElementOfSeq
    <3> QED BY <3>1 DEF Report
  <2> QED BY <1>r, <1>t, <2>1, <2>2, <2>3
<1>1. CASE Runs
  <2>0. UNCHANGED <<program, pc, exit, thread, reports>> /\ Ioctls' = Ioctls
    BY <1>1 DEF Runs, Ioctls
  <2>1. CASE Enter
    <3>1. /\ at' = at + 1 /\ stop' = "entry" /\ ~left' /\ left' \in BOOLEAN
          /\ pc = "wait" /\ signals' = signals
      BY <1>t, <2>1 DEF Enter, TypeOK
    <3>2. at' \in 0..(Len(program) + 1)
      BY <1>t, <2>1 DEF Enter, ShapeInv, TypeOK
    <3>3. \A i \in 1..Len(reports) :
            /\ reports[i] \in [call : 1..at', ended : BOOLEAN]
            /\ reports[i].call \in Ioctls /\ reports[i].call <= at'
      BY <1>r, <1>t, <3>1, <3>2
    <3> QED BY <1>t, <2>0, <3>1, <3>2, <3>3 DEF ShapeInv, TypeOK
  <2>2. CASE Leave \/ Signal
    <3>1. UNCHANGED at /\ pc = "wait" /\ left' /\ left' \in BOOLEAN
      BY <1>t, <2>2 DEF Leave, Signal, TypeOK
    <3>2. /\ signals' \in 0..MaxSignals
          /\ \/ stop' = "gone" /\ at > Len(program)
             \/ stop' \in {"exit", "signal"} /\ ~(at > Len(program))
      BY <1>t, <2>2 DEF Leave, Signal, Gone, TypeOK, ShapeInv
    <3> QED BY <1>t, <2>0, <3>1, <3>2 DEF ShapeInv, TypeOK
  <2>3. CASE Killed
    <3>1. UNCHANGED <<at, left>> /\ pc = "wait" /\ stop' = "gone"
      BY <1>t, <2>3 DEF Killed, TypeOK
    <3>2. signals' \in 0..MaxSignals /\ signals' # 0
      BY <1>t, <2>3 DEF Killed
    <3> QED BY <1>t, <2>0, <3>1, <3>2 DEF ShapeInv, TypeOK
  <2>4. CASE RunsOn
    <3>1. /\ at' = Len(program) + 1 /\ stop' = "gone" /\ left' /\ left' \in BOOLEAN
          /\ pc \in {"done", "panicked"} /\ signals' = signals
      BY <2>4 DEF RunsOn, Over
    <3>2. at' \in 0..(Len(program) + 1) /\ at' > Len(program) /\ at <= at'
      BY <1>t, <3>1 DEF TypeOK
    <3>3. \A i \in 1..Len(reports) :
            /\ reports[i] \in [call : 1..at', ended : BOOLEAN]
            /\ reports[i].call \in Ioctls /\ reports[i].call <= at'
      BY <1>r, <3>2
    <3> QED BY <1>t, <2>0, <3>1, <3>2, <3>3 DEF ShapeInv, TypeOK
  <2> QED BY <1>1, <2>1, <2>2, <2>3, <2>4 DEF Runs
<1>2. CASE PrintsCall
  <2>1. /\ at \in Ioctls /\ [call |-> at, ended |-> left] \in Report
        /\ reports' = Append(reports, [call |-> at, ended |-> left])
        /\ stop \in {"entry", "exit", "signal"} /\ pc' = "cont" /\ thread' \in BOOLEAN
        /\ UNCHANGED <<program, at, stop, left, signals, exit>>
    BY <1>2, PrintsReport
  <2> DEFINE r == [call |-> at, ended |-> left]
  <2>2. r.call = at /\ r \in [call : 1..at, ended : BOOLEAN]
    <3>1. at \in 1..at /\ left \in BOOLEAN
      BY <1>t, <2>1, ProgramType DEF TypeOK
    <3> QED BY <3>1
  <2> HIDE DEF r
  <2>3. /\ reports' \in Seq(Report) /\ reports'[Len(reports) + 1] = r
        /\ \A i \in 1..Len(reports) : reports'[i] = reports[i]
        /\ \A i \in 1..Len(reports') : i \in 1..Len(reports) \/ i = Len(reports) + 1
    BY <1>t, <2>1, ReportAppended DEF r
  <2>4. \A i \in 1..Len(reports') :
            /\ reports'[i] \in [call : 1..at, ended : BOOLEAN]
            /\ reports'[i].call \in Ioctls /\ reports'[i].call <= at
    <3> SUFFICES ASSUME NEW i \in 1..Len(reports')
                 PROVE  /\ reports'[i] \in [call : 1..at, ended : BOOLEAN]
                        /\ reports'[i].call \in Ioctls /\ reports'[i].call <= at
      OBVIOUS
    <3>1. CASE i \in 1..Len(reports)
      BY <2>3, <3>1 DEF ShapeInv, TypeOK
    <3>2. CASE i = Len(reports) + 1
      BY <1>t, <2>1, <2>2, <2>3, <3>2
    <3> QED BY <2>3, <3>1, <3>2
  <2>5. Ioctls' = Ioctls
    BY <2>1 DEF Ioctls
  <2> QED BY <1>t, <2>1, <2>3, <2>4, <2>5 DEF ShapeInv, TypeOK
<1>i. ASSUME UNCHANGED <<program, at, reports, signals>>
      PROVE  /\ Ioctls' = Ioctls /\ program' \in Programs /\ at' \in 0..(Len(program') + 1)
             /\ signals' \in 0..MaxSignals /\ reports' \in Seq(Report)
             /\ \A j \in 1..Len(reports') :
                  /\ reports'[j] \in [call : 1..at', ended : BOOLEAN]
                  /\ reports'[j].call \in Ioctls' /\ reports'[j].call <= at'
  BY <1>i DEF ShapeInv, TypeOK, Ioctls
<1>3. CASE Start
  <2>1. stop = "none" /\ at = 0 /\ left /\ thread' \in BOOLEAN
    BY <1>3, <1>t, StartStep DEF ShapeInv, TypeOK
  <2> QED BY <1>3, <1>t, <1>i, <2>1, StartStep DEF ShapeInv, TypeOK
<1>4. CASE PtraceGetRegs
  <2>1. pc = "regs" /\ stop \notin {"running", "none"} /\ thread' \in BOOLEAN
    BY <1>4, <1>t, RegsStep DEF ShapeInv, TypeOK
  <2>2. InIoctl => at \in Ioctls /\ stop # "exec"
    BY <1>t, ProgramType DEF InIoctl, ShapeInv
  <2>3. pc' = "print" => /\ at \in Ioctls /\ exit /\ stop \in {"entry", "exit", "signal"}
    BY <1>4, <1>t, <2>1, <2>2, RegsStep DEF Answers, TypeOK
  <2> QED BY <1>4, <1>t, <1>i, <2>1, <2>3, RegsStep DEF ShapeInv, TypeOK
<1>5. CASE Misread
  BY <1>5, <1>t, <1>i, MisreadStep DEF ShapeInv, TypeOK
<1>6. CASE PtraceSyscall
  <2>1. stop \notin {"running", "none"} /\ thread' \in BOOLEAN
    BY <1>6, <1>t, SyscallStep DEF ShapeInv, TypeOK
  <2>2. Answers => stop # "gone"
    BY DEF Answers
  <2> QED BY <1>6, <1>t, <1>i, <2>1, <2>2, SyscallStep DEF ShapeInv, TypeOK
<1>7. CASE Wait4
  <2>1. stop # "none"
    BY <1>7, WaitStep DEF ShapeInv
  <2> QED BY <1>7, <1>t, <1>i, <2>1, WaitStep DEF ShapeInv, TypeOK
<1>8. CASE UNCHANGED vars
  BY <1>8 DEF vars, ShapeInv, TypeOK, Ioctls
<1> QED BY <1>1, <1>2, <1>3, <1>4, <1>5, <1>6, <1>7, <1>8 DEF Next, Ended

(* Until a signal arrives, exit follows the program. *)
LEMMA PhaseStep == IInv /\ [Next \/ Ended]_vars => PhaseInv'
<1> SUFFICES ASSUME ShapeInv, PhaseInv, [Next \/ Ended]_vars, signals' = 0 PROVE PhaseInv'
  BY DEF IInv, PhaseInv
<1>t. /\ TypeOK /\ at \in Nat /\ signals \in Nat /\ reports \in Seq(Report)
      /\ \A i \in 1..Len(reports) : reports[i].call \in Nat
  <2>1. \A i \in 1..Len(reports) : reports[i] \in Report
    BY ElementOfSeq DEF ShapeInv
  <2> QED BY <2>1, ProgramType DEF ShapeInv, Report
<1>1. CASE Runs
  <2>0. UNCHANGED <<pc, exit, reports>> /\ (RunsOn \/ (pc = "wait" /\ stop = "running"))
    BY <1>t, <1>1 DEF Runs, Enter, Leave, Signal, Killed, TypeOK
  <2>1. CASE Enter
    <3>1. /\ at' = at + 1 /\ stop' = "entry" /\ left /\ ~left' /\ signals = 0
          /\ pc = "wait" /\ stop = "running"
      BY <1>t, <2>1 DEF Enter, TypeOK
    <3>2. \A i \in 1..Len(reports) : reports[i].call < at + 1
      BY <1>t DEF ShapeInv
    <3> QED BY <2>0, <3>1, <3>2 DEF PhaseInv, Over
  <2>2. CASE Leave
    <3>1. /\ at' = at /\ stop' # "running" /\ ~left /\ left' /\ signals = 0
          /\ pc = "wait" /\ stop = "running"
      BY <1>t, <2>2 DEF Leave, TypeOK
    <3> QED BY <2>0, <3>1 DEF PhaseInv, Over
  <2>3. CASE Signal \/ Killed
    BY <1>t, <2>3 DEF Signal, Killed
  <2>4. CASE RunsOn
    BY <2>0, <2>4 DEF RunsOn, Over, PhaseInv
  <2> QED BY <1>1, <2>1, <2>2, <2>3, <2>4 DEF Runs
<1>2. CASE PrintsCall
  <2> DEFINE r == [call |-> at, ended |-> left]
  <2>1. /\ r \in Report /\ r.call = at /\ r.ended = left
        /\ reports' = Append(reports, r)
        /\ pc = "print" /\ pc' = "cont" /\ exit
        /\ UNCHANGED <<at, stop, left, signals, exit>>
    BY <1>2, PrintsReport
  <2> HIDE DEF r
  <2>2. left /\ \A i \in 1..Len(reports) : reports[i].ended /\ reports[i].call < at
    BY <2>1 DEF PhaseInv, Over
  <2>3. /\ Len(reports) \in Nat /\ reports'[Len(reports) + 1] = r
        /\ \A i \in 1..Len(reports) : reports'[i] = reports[i]
        /\ \A i \in 1..Len(reports') : i \in 1..Len(reports) \/ i = Len(reports) + 1
    BY <1>t, <2>1, ReportAppended
  <2>4. \A i \in 1..Len(reports') : reports'[i].ended
    BY <2>1, <2>2, <2>3
  <2>5. \A i, j \in 1..Len(reports') : i < j => reports'[i].call < reports'[j].call
    <3> SUFFICES ASSUME NEW i \in 1..Len(reports'), NEW j \in 1..Len(reports'), i < j
                 PROVE  reports'[i].call < reports'[j].call
      OBVIOUS
    <3>1. i \in 1..Len(reports)
      BY <2>3
    <3>2. CASE j \in 1..Len(reports)
      BY <2>1, <2>3, <3>1, <3>2 DEF PhaseInv, Over
    <3>3. CASE j = Len(reports) + 1
      BY <2>1, <2>2, <2>3, <3>1, <3>3
    <3> QED BY <2>3, <3>2, <3>3
  <2> QED BY <2>1, <2>2, <2>4, <2>5 DEF PhaseInv, Over
<1>3. CASE Start
  <2>1. stop = "none" /\ left
    BY <1>3, StartStep DEF ShapeInv
  <2>2. \A i \in 1..Len(reports) : FALSE
    BY <1>t, <1>3, <2>1, StartStep, ProgramType DEF ShapeInv
  <2> QED BY <1>3, <2>1, <2>2, StartStep DEF PhaseInv, Over
<1>4. CASE PtraceGetRegs
  BY <1>4, RegsStep DEF PhaseInv, Over
<1>5. CASE Misread
  BY <1>5, MisreadStep DEF PhaseInv, Over
<1>6. CASE PtraceSyscall
  BY <1>6, SyscallStep DEF PhaseInv, Over
<1>7. CASE Wait4
  BY <1>7, WaitStep DEF PhaseInv, Over
<1>8. CASE UNCHANGED vars
  BY <1>8 DEF vars, PhaseInv, Over
<1> QED BY <1>1, <1>2, <1>3, <1>4, <1>5, <1>6, <1>7, <1>8 DEF Next, Ended

(* The present ioctl is not left behind unprinted. *)
LEMMA PrintedStep == IInv /\ [Next \/ Ended]_vars => PrintedInv'
<1> SUFFICES ASSUME ShapeInv, PrintedInv, DoneInv, [Next \/ Ended]_vars PROVE PrintedInv'
  BY DEF IInv
<1>t. TypeOK /\ at \in Nat /\ Len(program) \in Nat /\ reports \in Seq(Report)
      /\ Ioctls \subseteq 1..Len(program)
  BY ProgramType DEF ShapeInv
<1>s. ASSUME UNCHANGED <<program, at, reports>>,
             at \in Ioctls /\ Unseen => Unseen' \/ stop' = "gone" \/ Over',
             stop = "gone" => stop' = "gone" \/ Over',
             Over => UNCHANGED <<pc, thread>>
      PROVE  PrintedInv'
  <2>1. Ioctls' = Ioctls /\ \A k : IsPrinted(k)' <=> IsPrinted(k)
    BY <1>s DEF Ioctls, IsPrinted
  <2> QED BY <1>s, <2>1 DEF PrintedInv, Over
<1>1. CASE Runs
  <2>0. /\ UNCHANGED <<program, pc, exit, thread, reports>>
        /\ RunsOn \/ (pc = "wait" /\ stop = "running")
        /\ Ioctls' = Ioctls /\ \A k : IsPrinted(k)' <=> IsPrinted(k)
    BY <1>t, <1>1 DEF Runs, Enter, Leave, Signal, Killed, TypeOK, Ioctls, IsPrinted
  <2>1. CASE Enter
    <3>1. /\ at' = at + 1 /\ stop' = "entry" /\ left /\ ~left'
          /\ pc = "wait" /\ stop = "running"
      BY <1>t, <2>1 DEF Enter, TypeOK
    <3>2. at \in Ioctls => IsPrinted(at)
      BY <2>0, <3>1 DEF PrintedInv, Unseen, Over
    <3>3. Unseen'
      BY <2>0, <3>1 DEF Unseen
    <3>4. \A k \in Ioctls : k < at + 1 => k < at \/ k = at
      BY <1>t
    <3> QED BY <2>0, <3>1, <3>2, <3>3, <3>4 DEF PrintedInv, Over
  <2>2. CASE Leave
    <3>1. /\ at' = at /\ ~left /\ left' /\ pc = "wait" /\ stop = "running"
          /\ at \in Ioctls => stop' = "exit"
      BY <1>t, <2>2 DEF Leave, Gone, TypeOK
    <3>2. at \in Ioctls /\ Unseen => Unseen'
      BY <2>0, <3>1 DEF Unseen
    <3> QED BY <1>s, <2>0, <3>1, <3>2
  <2>3. CASE Signal \/ Killed
    <3>1. at' = at /\ stop = "running" /\ (~Unseen \/ stop' = "gone")
      BY <2>0, <2>3 DEF Signal, Killed, Unseen
    <3> QED BY <1>s, <2>0, <3>1
  <2>4. CASE RunsOn
    <3>1. Over /\ Over' /\ ~(pc' = "done" /\ thread')
      BY <2>0, <2>4 DEF RunsOn, Over, DoneInv
    <3> QED BY <3>1 DEF PrintedInv
  <2> QED BY <1>1, <2>1, <2>2, <2>3, <2>4 DEF Runs
<1>2. CASE PrintsCall
  <2> DEFINE r == [call |-> at, ended |-> left]
  <2>1. /\ r \in Report /\ r.call = at /\ pc = "print"
        /\ reports' = Append(reports, r) /\ UNCHANGED <<program, at>>
    BY <1>2, PrintsReport
  <2> HIDE DEF r
  <2>2. IsPrinted(at)' /\ \A k : IsPrinted(k) => IsPrinted(k)'
    BY <1>t, <2>1, ReportAppended DEF IsPrinted
  <2>3. Ioctls' = Ioctls
    BY <2>1 DEF Ioctls
  <2> QED BY <2>1, <2>2, <2>3 DEF PrintedInv, Over
<1>3. CASE Start
  <2>1. at \notin Ioctls /\ stop # "gone"
    BY <1>t, <1>3, StartStep DEF ShapeInv
  <2> QED BY <1>s, <1>3, <2>1, StartStep DEF Over
<1>4. CASE PtraceGetRegs
  <2>1. at \in Ioctls => InIoctl
    BY <1>t, ProgramType DEF InIoctl
  <2>2. at \in Ioctls /\ Unseen => Unseen' \/ Over'
    BY <1>t, <1>4, <2>1, RegsStep DEF Unseen, Over, ShapeInv
  <2> QED BY <1>s, <1>4, <2>2, RegsStep DEF Over
<1>5. CASE Misread
  BY <1>s, <1>5, MisreadStep DEF Over
<1>6. CASE PtraceSyscall
  <2>1. Unseen => Unseen' \/ Over'
    BY <1>6, SyscallStep DEF Unseen, Over
  <2>2. stop = "gone" => Over'
    BY <1>6, SyscallStep DEF Answers, Over
  <2> QED BY <1>s, <1>6, <2>1, <2>2, SyscallStep DEF Over
<1>7. CASE Wait4
  <2>1. Unseen => Unseen'
    BY <1>7, WaitStep DEF Unseen
  <2> QED BY <1>s, <1>7, <2>1, WaitStep DEF Over
<1>8. CASE UNCHANGED vars
  BY <1>s, <1>8 DEF vars, Unseen
<1> QED BY <1>1, <1>2, <1>3, <1>4, <1>5, <1>6, <1>7, <1>8 DEF Next, Ended

(* The ioctls the program has entered. *)
LEMMA EnteredCounts ==
  ASSUME TypeOK
  PROVE  /\ Cardinality(Entered(at)) \in Nat
         /\ Cardinality(Entered(at + 1)) =
              Cardinality(Entered(at)) + IF at + 1 \in Ioctls THEN 1 ELSE 0
         /\ Cardinality(Entered(Len(program) + 1)) \in Nat
         /\ Cardinality(Entered(at)) <= Cardinality(Entered(Len(program) + 1))
<1>1. at \in Nat /\ Len(program) \in Nat /\ Ioctls \subseteq 1..Len(program)
  BY ProgramType
<1>2. IsFiniteSet(1..Len(program))
  BY <1>1, FS_Interval
<1>3. Entered(at) \subseteq 1..Len(program)
  BY <1>1 DEF Entered
<1>4. IsFiniteSet(Entered(at)) /\ Cardinality(Entered(at)) \in Nat
  BY <1>2, <1>3, FS_Subset, FS_CardinalityType
<1>0. /\ ~(at + 1 <= at) /\ at + 1 <= at + 1
      /\ \A k \in Ioctls : k <= at + 1 <=> k <= at \/ k = at + 1
  BY <1>1
<1>5. Cardinality(Entered(at + 1)) =
        Cardinality(Entered(at)) + IF at + 1 \in Ioctls THEN 1 ELSE 0
  <2>1. CASE at + 1 \in Ioctls
    <3>1. Entered(at + 1) = Entered(at) \cup {at + 1} /\ at + 1 \notin Entered(at)
      BY <1>0, <2>1, Zenon DEF Entered
    <3> QED BY <1>4, <2>1, <3>1, FS_AddElement
  <2>2. CASE at + 1 \notin Ioctls
    <3>1. Entered(at + 1) = Entered(at)
      BY <1>0, <2>2, Zenon DEF Entered
    <3> QED BY <1>4, <2>2, <3>1
  <2> QED BY <2>1, <2>2
<1>7. /\ Entered(Len(program) + 1) \subseteq 1..Len(program)
      /\ Entered(at) \subseteq Entered(Len(program) + 1)
  <2>1. \A k \in Ioctls : k <= Len(program) + 1
    BY <1>1
  <2> QED BY <1>1, <2>1, Zenon DEF Entered
<1>8. /\ IsFiniteSet(Entered(Len(program) + 1)) /\ Cardinality(Entered(Len(program) + 1)) \in Nat
      /\ Cardinality(Entered(at)) <= Cardinality(Entered(Len(program) + 1))
  BY <1>2, <1>7, FS_Subset, FS_CardinalityType
<1> QED BY <1>4, <1>5, <1>8

(* A print uses up what was due. *)
LEMMA CountStep == IInv /\ [Next \/ Ended]_vars => CountInv'
<1> SUFFICES ASSUME ShapeInv, CountInv, [Next \/ Ended]_vars PROVE CountInv'
  BY DEF IInv
<1>t. /\ TypeOK /\ at \in Nat /\ signals \in Nat /\ reports \in Seq(Report)
      /\ Len(program) \in Nat /\ Ioctls \subseteq 1..Len(program)
      /\ Cardinality(Entered(at)) \in Nat /\ Len(reports) \in Nat
  BY ProgramType, EnteredCounts, LenProperties DEF ShapeInv
<1>e. ASSUME UNCHANGED program PROVE Ioctls' = Ioctls /\ Entered(at)' = Entered(at')
  BY <1>e DEF Ioctls, Entered
<1>s. ASSUME UNCHANGED <<program, at, reports>>, signals' \in {signals, signals + 1},
             Due' => Due \/ signals' = signals + 1
      PROVE  CountInv'
  <2>1. Entered(at)' = Entered(at)
    BY <1>e, <1>s
  <2> HIDE DEF Due
  <2> QED BY <1>t, <1>s, <2>1 DEF CountInv
<1>1. CASE Runs
  <2>0. /\ UNCHANGED <<program, pc, exit, reports>> /\ Ioctls' = Ioctls
        /\ RunsOn \/ (pc = "wait" /\ stop = "running")
    BY <1>t, <1>1 DEF Runs, Enter, Leave, Signal, Killed, TypeOK, Ioctls
  <2>1. CASE Enter
    <3>1. /\ at' = at + 1 /\ stop' = "entry" /\ left /\ ~left' /\ signals' = signals
          /\ pc = "wait" /\ stop = "running"
      BY <1>t, <2>1 DEF Enter, TypeOK
    <3>2. ~Due /\ (Due' => at + 1 \in Ioctls)
      BY <2>0, <3>1 DEF Due, Unseen
    <3>3. Cardinality(Entered(at)') =
            Cardinality(Entered(at)) + IF at + 1 \in Ioctls THEN 1 ELSE 0
      BY <1>t, <1>e, <2>0, <3>1, EnteredCounts
    <3> QED BY <1>t, <2>0, <3>1, <3>2, <3>3 DEF CountInv
  <2>2. CASE Leave
    <3>1. /\ at' = at /\ ~left /\ left' /\ signals' = signals
          /\ pc = "wait" /\ stop = "running" /\ stop' \in {"exit", "gone"}
      BY <1>t, <2>2 DEF Leave, TypeOK
    <3>2. Due' => Due
      BY <2>0, <3>1 DEF Due, Unseen
    <3> QED BY <1>s, <2>0, <3>1, <3>2
  <2>3. CASE Signal \/ Killed
    BY <1>s, <2>0, <2>3 DEF Signal, Killed
  <2>4. CASE RunsOn
    <3>1. /\ at' = Len(program) + 1 /\ signals' = signals /\ stop' = "gone"
          /\ pc \in {"done", "panicked"}
      BY <2>4 DEF RunsOn, Over
    <3>2. ~Due'
      BY <2>0, <3>1 DEF Due, Unseen
    <3>3. ~Due
      BY <3>1 DEF Due, Unseen
    <3>4. /\ Cardinality(Entered(at)') \in Nat
          /\ Cardinality(Entered(at)) <= Cardinality(Entered(at)')
      BY <1>t, <1>e, <2>0, <3>1, EnteredCounts
    <3> HIDE DEF Due
    <3> QED BY <1>t, <2>0, <3>1, <3>2, <3>3, <3>4 DEF CountInv
  <2> QED BY <1>1, <2>1, <2>2, <2>3, <2>4 DEF Runs
<1>2. CASE PrintsCall
  <2> DEFINE r == [call |-> at, ended |-> left]
  <2>1. /\ r \in Report /\ at \in Ioctls
        /\ reports' = Append(reports, r) /\ pc = "print" /\ pc' = "cont" /\ exit
        /\ stop \in {"entry", "exit", "signal"}
        /\ UNCHANGED <<program, at, stop, left, signals, exit>>
    BY <1>2, PrintsReport
  <2> HIDE DEF r
  <2>2. Len(reports') = Len(reports) + 1
    BY <1>t, <2>1, ReportAppended
  <2>3. Due
    BY <1>t, <2>1 DEF ShapeInv, Due, Unseen
  <2>4. ~Due'
    BY <2>1 DEF Due, Unseen
  <2>5. Entered(at)' = Entered(at)
    BY <1>e, <2>1
  <2> QED BY <1>t, <2>1, <2>2, <2>3, <2>4, <2>5 DEF CountInv
<1>3. CASE Start
  <2>1. at \notin Ioctls
    BY <1>t, <1>3, StartStep DEF ShapeInv
  <2>2. Due' => Due
    BY <1>e, <1>3, <2>1, StartStep DEF Due
  <2> QED BY <1>s, <1>3, <2>2, StartStep
<1>4. CASE PtraceGetRegs
  <2>1. Due' => Due
    BY <1>e, <1>4, RegsStep DEF Due, Unseen
  <2> QED BY <1>s, <1>4, <2>1, RegsStep
<1>5. CASE Misread
  <2>1. Due' => Due
    BY <1>e, <1>5, MisreadStep DEF Due, Unseen
  <2> QED BY <1>s, <1>5, <2>1, MisreadStep
<1>6. CASE PtraceSyscall
  <2>1. Due' => Due
    BY <1>e, <1>6, SyscallStep DEF Due, Unseen, Answers
  <2> QED BY <1>s, <1>6, <2>1, SyscallStep
<1>7. CASE Wait4
  <2>1. stop # "gone" /\ ~left => stop = "entry"
    BY <1>t, <1>7, WaitStep DEF ShapeInv, TypeOK
  <2>2. Due' => Due
    BY <1>e, <1>7, <2>1, WaitStep DEF Due, Unseen
  <2> QED BY <1>s, <1>7, <2>2, WaitStep
<1>8. CASE UNCHANGED vars
  BY <1>e, <1>s, <1>8 DEF vars, Due, Unseen
<1> QED BY <1>1, <1>2, <1>3, <1>4, <1>5, <1>6, <1>7, <1>8 DEF Next, Ended

LEMMA DoneStep == IInv /\ [Next \/ Ended]_vars => DoneInv'
<1> SUFFICES ASSUME TypeOK, ShapeInv, DoneInv, [Next \/ Ended]_vars PROVE DoneInv'
  BY DEF IInv, ShapeInv
<1>1. CASE Runs
  BY <1>1 DEF Runs, Enter, Leave, Signal, Killed, RunsOn, TypeOK, DoneInv
<1>2. CASE PrintsCall
  BY <1>2, PrintsReport DEF DoneInv
<1>3. CASE PtraceGetRegs
  BY <1>3, RegsStep DEF Answers, ShapeInv, TypeOK, DoneInv
<1>4. CASE Start \/ Misread \/ PtraceSyscall \/ Wait4
  BY <1>4, StartStep, MisreadStep, SyscallStep, WaitStep DEF DoneInv
<1>5. CASE UNCHANGED vars
  BY <1>5 DEF vars, DoneInv
<1> QED BY <1>1, <1>2, <1>3, <1>4, <1>5 DEF Next, Ended

LEMMA TraceIInv == Spec => []IInv
<1>1. IInv /\ [Next \/ Ended]_vars => IInv'
  BY ShapeStep, PhaseStep, PrintedStep, CountStep, DoneStep DEF IInv
<1> QED BY <1>1, TraceInitIInv, PTL DEF Spec

-----------------------------------------------------------------------------
(* The variables of tracer and program keep their types: in particular the *)
(* program runs only while main is in Wait4, and main prints only calls    *)
(* the program has made.                                                   *)
THEOREM TraceTypeCorrect == Spec => []TypeOK
<1>1. IInv => TypeOK
  BY DEF IInv, ShapeInv
<1> QED BY <1>1, TraceIInv, PTL

(* Until a signal arrives, main prints an ioctl when it has ended, with    *)
(* the kernel's answer in its buffers: turning exit over at every return   *)
(* of Wait4 keeps it in step with the program.                             *)
THEOREM TraceReportsEnded == Spec => []ReportsEnded
<1>1. IInv => ReportsEnded
  BY DEF IInv, PhaseInv, ReportsEnded
<1> QED BY <1>1, TraceIInv, PTL

(* Without signals and on its thread, main leaves its loop only when the   *)
(* program is gone and all its ioctls are printed, once each and in order. *)
THEOREM TraceComplete == Spec => []Complete
<1>1. ASSUME IInv, pc = "done", signals = 0, thread
      PROVE  /\ stop = "gone" /\ Printed = Ioctls
             /\ \A i, j \in 1..Len(reports) : i < j => reports[i].call < reports[j].call
  <2>1. stop = "gone" /\ at > Len(program)
    BY <1>1 DEF IInv, DoneInv, ShapeInv
  <2>2. at \in Nat /\ Len(program) \in Nat /\ Ioctls \subseteq 1..Len(program)
    BY <1>1, ProgramType DEF IInv, ShapeInv
  <2>3. Ioctls \subseteq Printed
    BY <1>1, <2>1, <2>2 DEF IInv, PrintedInv, IsPrinted, Printed
  <2>4. Printed \subseteq Ioctls
    BY <1>1 DEF IInv, ShapeInv, Printed
  <2> QED BY <1>1, <2>1, <2>3, <2>4 DEF IInv, PhaseInv
<1>2. IInv => Complete
  BY <1>1 DEF Complete
<1> QED BY <1>2, TraceIInv, PTL

(* While main is in its loop, whatever signals and threads do, and when it *)
(* has left it on its own thread, no ioctl was passed over unprinted; and  *)
(* a signal makes main print one call again at most.                       *)
THEOREM TraceSignalsOnlyRepeat == Spec => []SignalsOnlyRepeat
<1>1. IInv => SignalsOnlyRepeat
  <2> SUFFICES ASSUME IInv PROVE SignalsOnlyRepeat
    OBVIOUS
  <2>1. ~Over \/ (pc = "done" /\ thread) => \A k \in Ioctls : k < at => k \in Printed
    BY DEF IInv, PrintedInv, IsPrinted, Printed
  <2>2. /\ Cardinality(Entered(at)) \in Nat /\ signals \in Nat /\ Len(reports) \in Nat
    BY EnteredCounts, ProgramType, LenProperties DEF IInv, ShapeInv
  <2>3. Len(reports) <= Cardinality(Entered(at)) + signals
    BY <2>2 DEF IInv, CountInv
  <2> QED BY <2>1, <2>3 DEF SignalsOnlyRepeat, Entered
<1> QED BY <1>1, TraceIInv, PTL

-----------------------------------------------------------------------------
PanicExplained == pc = "panicked" => HasReason

(* Asking a program that is gone for its registers ends the loop, so main  *)
(* comes to PtraceSyscall with exit TRUE only while the program is there.  *)
PanicInv == PanicExplained /\ (pc = "cont" /\ exit => stop # "gone")

LEMMA PanicStep == IInv /\ PanicInv /\ [Next \/ Ended]_vars => PanicInv'
<1> SUFFICES ASSUME IInv, PanicInv, [Next \/ Ended]_vars PROVE PanicInv'
  OBVIOUS
<1> USE DEF PanicInv, PanicExplained
<1>t. TypeOK /\ ShapeInv /\ PhaseInv
  BY DEF IInv, ShapeInv
<1>r. ASSUME UNCHANGED <<program, signals, thread>>, HasReason, stop' = stop \/ stop # "none"
      PROVE  HasReason'
  BY <1>r DEF HasReason, Ioctls
<1>1. CASE Runs
  <2>1. CASE RunsOn
    <3>1. pc' = pc /\ pc # "cont" /\ stop # "none" /\ UNCHANGED <<program, signals, thread>>
      BY <1>1, <2>1 DEF Runs, RunsOn, Over
    <3> QED BY <1>r, <3>1
  <2>2. CASE ~RunsOn
    <3>1. pc = "wait" /\ pc' = pc
      BY <1>t, <1>1, <2>2 DEF Runs, Enter, Leave, Signal, Killed, TypeOK
    <3> QED BY <3>1
  <2> QED BY <2>1, <2>2
<1>2. CASE PtraceGetRegs
  <2>1. pc' = "cont" /\ exit' => stop' # "gone"
    BY <1>2, RegsStep DEF Answers
  <2> QED BY <1>2, <2>1, RegsStep
<1>3. CASE PrintsCall
  BY <1>3, <1>t, PrintsReport
<1>4. CASE Misread
  <2>1. /\ pc' = "panicked" /\ at \in Ioctls /\ exit /\ stop \in {"entry", "exit", "signal"}
        /\ pc = "print" /\ UNCHANGED <<program, signals, thread, stop>>
    BY <1>4, <1>t, MisreadStep DEF ShapeInv
  <2>2. CASE ~Answers
    BY <1>r, <2>1, <2>2 DEF Answers, HasReason
  <2>3. CASE program[at] = "ioctl"
    BY <1>r, <2>1, <2>3 DEF HasReason
  <2>4. CASE ~left
    <3>1. signals # 0
      BY <1>t, <2>1, <2>4 DEF PhaseInv, Over
    <3>2. signals > 0
      BY <1>t, <3>1, ProgramType
    <3> QED BY <1>r, <2>1, <3>2 DEF HasReason
  <2> QED BY <1>4, <2>2, <2>3, <2>4, MisreadStep DEF Unreadable
<1>5. CASE PtraceSyscall
  <2>1. pc = "cont" /\ stop \notin {"running", "none"} /\ UNCHANGED <<program, signals>>
    BY <1>t, <1>5, SyscallStep DEF ShapeInv, TypeOK
  <2>2. CASE Answers
    BY <1>5, <2>2, SyscallStep
  <2>3. CASE ~Answers
    <3>1. pc' = "panicked" /\ thread' = thread /\ stop' = stop /\ (~thread \/ stop = "gone")
      BY <1>5, <2>1, <2>3, SyscallStep DEF Answers
    <3>2. stop = "gone" => signals > 0
      <4>1. stop = "gone" => ~exit /\ (signals = 0 => left)
        BY <1>t, <2>1 DEF ShapeInv
      <4>2. signals # 0 => signals > 0
        BY <1>t, ProgramType
      <4> QED BY <1>t, <2>1, <4>1, <4>2 DEF PhaseInv, Over
    <3> QED BY <1>r, <2>1, <3>1, <3>2 DEF HasReason
  <2> QED BY <2>2, <2>3
<1>6. CASE Start
  <2>1. stop = "none"
    BY <1>t, <1>6, StartStep DEF ShapeInv
  <2> QED BY <1>6, <2>1, StartStep DEF HasReason
<1>7. CASE Wait4
  BY <1>7, WaitStep
<1>8. CASE UNCHANGED vars
  BY <1>8 DEF vars, HasReason, Ioctls
<1> QED BY <1>1, <1>2, <1>3, <1>4, <1>5, <1>6, <1>7, <1>8 DEF Next, Ended

(* main panics only when the program could not be started, after a signal  *)
(* has put exit out of step, on a thread the program does not answer to,   *)
(* or when the program makes an ioctl that need not be readable: one of    *)
(* another device, or one of ZFS without an answer in its dst.             *)
THEOREM TracePanicExplained == Spec => []PanicExplained
<1>1. Init => PanicInv
  BY DEF Init, PanicInv, PanicExplained
<1>2. PanicInv => PanicExplained
  BY DEF PanicInv
<1> QED BY <1>1, <1>2, PanicStep, TraceIInv, PTL DEF Spec

-----------------------------------------------------------------------------
(* How long tracing can take: the stops the program has still to make, and *)
(* the tracer's way to letting it run again.                               *)
StopsLeft ==
  2 * (Len(program) + 1 - at) + (IF left THEN 0 ELSE 1) + (MaxSignals - signals)

ToRunning ==
  IF pc = "wait" THEN (IF stop = "running" THEN 0 ELSE 4)
  ELSE IF pc = "start" THEN 4 ELSE IF pc = "regs" THEN 3
  ELSE IF pc = "print" THEN 2 ELSE IF pc = "cont" THEN 1 ELSE 0

StepsLeft == 5 * StopsLeft + ToRunning
StepsDecrease == StepsLeft \in Nat /\ StepsLeft' \in Nat /\ StepsLeft' < StepsLeft

LEMMA StopsType ==
  ASSUME NEW l \in Nat, NEW a \in 0..(l + 1), NEW h \in {0, 1}, NEW m \in Nat, NEW s \in 0..m
  PROVE  2 * (l + 1 - a) + h + (m - s) \in Nat
OBVIOUS

LEMMA StopsOrder ==
  ASSUME NEW l \in Nat, NEW a \in Nat, NEW m \in Nat, NEW s \in Nat
  PROVE  /\ 2 * (l + 1 - (a + 1)) + 1 + (m - s) < 2 * (l + 1 - a) + 0 + (m - s)
         /\ 2 * (l + 1 - a) + 0 + (m - s) < 2 * (l + 1 - a) + 1 + (m - s)
         /\ \A h \in {0, 1} :
              2 * (l + 1 - a) + h + (m - (s + 1)) < 2 * (l + 1 - a) + h + (m - s)
         /\ \A h \in {0, 1} : a <= l \/ (a = l + 1 /\ h = 1) =>
              2 * (l + 1 - (l + 1)) + 0 + (m - s) < 2 * (l + 1 - a) + h + (m - s)
OBVIOUS

LEMMA LoopOrder ==
  ASSUME NEW x \in Nat, NEW y \in Nat, NEW i \in 0..4, NEW j \in 0..4,
         y < x \/ (x = y /\ j < i)
  PROVE  5 * x + i \in Nat /\ 5 * y + j \in Nat /\ 5 * y + j < 5 * x + i
OBVIOUS

LEMMA StopsLeftNat == TypeOK => StopsLeft \in Nat
<1> SUFFICES ASSUME TypeOK PROVE StopsLeft \in Nat
  OBVIOUS
<1>1. Len(program) \in Nat /\ MaxSignals \in Nat
  BY ProgramType, TraceAssumption
<1>2. (IF left THEN 0 ELSE 1) \in {0, 1}
  OBVIOUS
<1> QED BY <1>1, <1>2, StopsType DEF TypeOK, StopsLeft

(* Tracing a program takes at most 5 * (2 * (Len(program) + 1) +           *)
(* MaxSignals) + 4 steps of main and of the program: each leaves fewer to  *)
(* come, whichever way the loop goes.                                      *)
THEOREM TraceStepsBounded == Spec => [][StepsDecrease]_vars
<1>1. ASSUME IInv, TypeOK', Next PROVE StepsDecrease
  <2> DEFINE x == StopsLeft
             y == StopsLeft'
             i == ToRunning
             j == ToRunning'
  <2>t. TypeOK /\ Len(program) \in Nat /\ at \in Nat /\ signals \in Nat /\ MaxSignals \in Nat
    BY <1>1, ProgramType, TraceAssumption DEF IInv, ShapeInv
  <2>1. x \in Nat
    BY <2>t, StopsLeftNat
  <2>2. y \in Nat
    <3>1. (TypeOK => StopsLeft \in Nat)'
      BY StopsLeftNat, PTL
    <3> QED BY <1>1, <3>1
  <2>3. i \in 0..4 /\ j \in 0..4
    BY DEF ToRunning
  <2>4. y < x \/ (x = y /\ j < i)
    <3>1. CASE Runs
      <4>0. program' = program
        BY <3>1 DEF Runs
      <4>1. CASE Enter
        <5>1. left /\ ~left' /\ at' = at + 1 /\ signals' = signals
          BY <4>1 DEF Enter
        <5> QED BY <2>t, <4>0, <5>1, StopsOrder DEF StopsLeft
      <4>2. CASE Leave
        <5>1. ~left /\ left' /\ at' = at /\ signals' = signals
          BY <4>2 DEF Leave
        <5> QED BY <2>t, <4>0, <5>1, StopsOrder DEF StopsLeft
      <4>3. CASE Signal \/ Killed
        <5>1. left' = left /\ at' = at /\ signals' = signals + 1
          BY <4>3 DEF Signal, Killed
        <5>2. (IF left THEN 0 ELSE 1) \in {0, 1}
          OBVIOUS
        <5> QED BY <2>t, <4>0, <5>1, <5>2, StopsOrder DEF StopsLeft
      <4>4. CASE RunsOn
        <5>1. left' /\ at' = Len(program) + 1 /\ signals' = signals /\ stop # "gone"
          BY <4>4 DEF RunsOn
        <5>2. /\ (IF left THEN 0 ELSE 1) \in {0, 1}
              /\ at <= Len(program) \/ (at = Len(program) + 1 /\ (IF left THEN 0 ELSE 1) = 1)
          BY <1>1, <2>t, <5>1 DEF IInv, ShapeInv, TypeOK
        <5> QED BY <2>t, <4>0, <5>1, <5>2, StopsOrder DEF StopsLeft
      <4> QED BY <3>1, <4>1, <4>2, <4>3, <4>4 DEF Runs
    <3>2. CASE Start \/ PtraceGetRegs \/ PrintsCall \/ Misread \/ PtraceSyscall \/ Wait4
      <4>1. x = y
        BY <3>2 DEF Start, PtraceGetRegs, PrintsCall, Misread, PtraceSyscall, Wait4, Kernel, StopsLeft
      <4>2. j < i
        <5>1. CASE Start \/ PtraceGetRegs
          BY <5>1, StartStep, RegsStep DEF ToRunning
        <5>2. CASE PrintsCall \/ Misread
          BY <5>2 DEF PrintsCall, Misread, GoesOn, Ends, ToRunning
        <5>3. CASE PtraceSyscall
          BY <5>3, SyscallStep DEF ToRunning
        <5>4. CASE Wait4
          BY <5>4, WaitStep DEF ToRunning
        <5> QED BY <3>2, <5>1, <5>2, <5>3, <5>4
      <4> QED BY <4>1, <4>2
    <3> QED BY <1>1, <3>1, <3>2 DEF Next
  <2> HIDE DEF x, y, i, j
  <2>5. 5 * x + i \in Nat /\ 5 * y + j \in Nat /\ 5 * y + j < 5 * x + i
    BY <2>1, <2>2, <2>3, <2>4, LoopOrder
  <2> QED BY <2>5 DEF StepsDecrease, StepsLeft, x, y, i, j
<1>2. IInv => TypeOK
  BY DEF IInv, ShapeInv
<1>3. IInv /\ TypeOK' /\ [Next \/ Ended]_vars => [StepsDecrease]_vars
  BY <1>1 DEF Ended
<1> QED BY <1>2, <1>3, TraceIInv, PTL DEF Spec
=============================================================================
