-------------------------- MODULE SnapshotTransfer --------------------------
(***************************************************************************)
(* What Send and Receive promise (ioctl/wrappers.go): the far side gets a  *)
(* growing prefix of the snapshot stream, nothing lost, repeated or out of *)
(* order, and the transfer is reported complete only when the whole stream *)
(* has arrived.  Byte i of the stream is represented by its position i.    *)
(***************************************************************************)
EXTENDS Naturals, Sequences

CONSTANT StreamLen      \* number of bytes of the snapshot stream

VARIABLES
  delivered,            \* bytes the far side has got, in order
  outcome               \* "open", "complete" or "failed"

vars == <<delivered, outcome>>

Prefix(n) == [i \in 1..n |-> i]

Init ==
  /\ delivered = <<>>
  /\ outcome = "open"

Deliver ==
  /\ outcome = "open"
  /\ \E n \in (Len(delivered) + 1)..StreamLen : delivered' = Prefix(n)
  /\ UNCHANGED outcome

Complete ==
  /\ outcome = "open"
  /\ delivered = Prefix(StreamLen)
  /\ outcome' = "complete"
  /\ UNCHANGED delivered

Fail ==
  /\ outcome = "open"
  /\ outcome' = "failed"
  /\ UNCHANGED delivered

Next == Deliver \/ Complete \/ Fail

Spec == Init /\ [][Next]_vars
=============================================================================
