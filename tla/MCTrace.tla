------------------------------- MODULE MCTrace -------------------------------
(* Programs of up to MaxCalls system calls. *)
EXTENDS Trace

CONSTANT MaxCalls

AllPrograms == UNION {[1..n -> {"zfs", "ioctl", "plain"}] : n \in 0..MaxCalls}
=============================================================================
