------------------------------ MODULE DstBuffer ------------------------------
(***************************************************************************)
(* The reply buffer of NvlistIoctl (ioctl/ioctl.go).  The kernel answers   *)
(* ENOMEM when a reply does not fit; the loop then allocates a buffer      *)
(* eight times as long and repeats the system call, until a buffer of at   *)
(* least 16 MiB was refused too.  Lengths are the code's own, in bytes.    *)
(***************************************************************************)
EXTENDS Naturals

InitialDst == 8 * 1024
DstLimit   == 16 * 1024 * 1024

\* Possible slip: the reallocation keeps the old length.
GrowForgotten(dst) == dst
\* Possible slip: the buffer doubles.
GrowDoubles(dst) == dst * 2
Grow(dst) == dst * 8

\* Possible slip: a bound eight times too large.
ExhaustedLate(dst) == dst >= 8 * DstLimit
\* Possible slip: the length about to be allocated is compared.
ExhaustedEarly(dst) == dst * 8 >= DstLimit
Exhausted(dst) == dst >= DstLimit

\* The lengths the loop can allocate: 8 KiB, 64 KiB, 512 KiB, 4 MiB, 32 MiB.
DstSizes == {8192, 65536, 524288, 4194304, 33554432}
=============================================================================
