------------------------------ MODULE NvFormat ------------------------------
(* The layout of an nvlist that encoder.go and decode.go share. *)
EXTENDS Integers

HeaderLen     == 12      \* encoding, endianness, two reserved, version, flags
PairHeaderLen == 16      \* Size, Name_sz, Reserve, Value_elem, Type
TrailerLen    == 4       \* a Size of zero ends a list
MaxElems      == 65535   \* elements of an array the decoder accepts
Widths        == {1, 2, 4, 8}

\* n, or the next multiple of a.
AlignTo(n, a) == IF n % a = 0 THEN n ELSE n + a - (n % a)

=============================================================================
