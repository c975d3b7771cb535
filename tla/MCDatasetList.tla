---------------------------- MODULE MCDatasetList ----------------------------
(* Three datasets, at places with a gap. *)
EXTENDS DatasetList, TLC

CONSTANTS a, b, c
Places == (a :> 1) @@ (b :> 2) @@ (c :> 5)
=============================================================================
