---------------------------- MODULE MCSendStream ----------------------------
(* Small instance of SendStream: a stream longer than the pipe, reads of   *)
(* one or two bytes.                                                       *)
EXTENDS SendStream
=============================================================================
