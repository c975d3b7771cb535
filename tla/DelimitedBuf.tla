----------------------------- MODULE DelimitedBuf -----------------------------
(***************************************************************************)
(* NUL-delimited strings in the fixed-size byte arrays of Cmd              *)
(* (ioctl/wrappers.go).  A byte is a natural number, NUL is 0; a Go string *)
(* and a buffer are sequences of bytes.                                    *)
(***************************************************************************)
EXTENDS Naturals, Sequences

NUL == 0

\* Index of the first NUL, or one past the end.
Terminator(s) ==
  CHOOSE i \in 1..(Len(s) + 1) :
    /\ i <= Len(s) => s[i] = NUL
    /\ \A j \in 1..(i - 1) : s[j] # NUL

DelimitedBufToString(buf) == SubSeq(buf, 1, Terminator(buf) - 1)

\* Possible slip: the copy stops one byte short.
StringToDelimitedBufShort(str, buf) ==
  IF Len(str) > Len(buf) - 1
  THEN buf
  ELSE [i \in 1..Len(buf) |-> IF i < Terminator(str) - 1 THEN str[i] ELSE buf[i]]

\* The buffer afterwards.  Too long a string is refused before anything is
\* copied, one with a NUL after the bytes before it; bytes past the copied
\* ones stay as they were.
StringToDelimitedBuf(str, buf) ==
  IF Len(str) > Len(buf) - 1
  THEN buf
  ELSE [i \in 1..Len(buf) |-> IF i < Terminator(str) THEN str[i] ELSE buf[i]]
=============================================================================
