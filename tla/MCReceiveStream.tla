--------------------------- MODULE MCReceiveStream ---------------------------
(* Small instances of ReceiveStream: the begin record has two bytes, the   *)
(* rest of a complete stream just fits the pipe.                           *)
EXTENDS ReceiveStream

\* Nothing, part of the begin record, the begin record and part of the rest,
\* the complete stream, or so much more that the pipe overflows.
Lengths == {0, 1, StreamLen - 1, StreamLen, StreamLen + 2}
=============================================================================
