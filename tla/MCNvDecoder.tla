----------------------------- MODULE MCNvDecoder -----------------------------
(* Small instances of NvDecoder.  The data has room for three nested pairs. *)
EXTENDS NvDecoder

AllSizes == -1..(BufLen + 1)
\* Too small, exactly header and one-byte name, padded, and too large.
FewSizes == {-1, 0, 3, 16, 17, 18, 24, 32, BufLen}
SomeNames == {0, 1, 2, 9}
SomeElems == {-1, 0, 1, 2, MaxElems + 1}
=============================================================================
