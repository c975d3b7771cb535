------------------------------ MODULE MCNvCodec ------------------------------
(* Small instances of NvCodec: names and values around the 8-byte alignment. *)
EXTENDS NvCodec

Str(n) == [len |-> n, nul |-> 0]
Cut(n, k) == [len |-> n, nul |-> k]

Field(kind, array, n, width, str, tag, zero) ==
  [kind |-> kind, array |-> array, n |-> n, width |-> width, str |-> str,
   tag |-> tag, zero |-> zero]

Plain(kind, width) == Field(kind, FALSE, 1, width, NoStr, "", FALSE)
Array(kind, n, width) == Field(kind, TRUE, n, width, NoStr, "", n = 0)

SomeNames == {Str(8), Cut(9, 3), Str(32766)}

SomeFields ==
  {Plain("int", 2), Plain("bool", 1), Plain("map", 1), Plain("float64", 8),
   Field("bool", FALSE, 1, 1, NoStr, "", TRUE),
   Field("int", FALSE, 1, 4, NoStr, "ro", FALSE),
   Field("string", FALSE, 1, 1, Str(7), "omitempty", FALSE),
   Field("string", FALSE, 1, 1, Cut(9, 9), "", FALSE),
   Field("string", TRUE, 2, 1, Str(2), "", FALSE),
   Array("int", 3, 4), Array("map", 0, 1), Array("map", 2, 1),
   Array("interface", 1, 1), Plain("other", 1), Array("int", 65536, 8),
   Array("int", 2147483647, 8)}
=============================================================================
