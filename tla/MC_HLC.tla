------------------------------- MODULE MC_HLC -------------------------------
(* HLC on a few interchangeable nodes. *)
EXTENDS HLC, TLC

Symmetric == Permutations(Node)
=============================================================================
