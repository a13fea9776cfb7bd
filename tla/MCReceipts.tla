----------------------------- MODULE MCReceipts -----------------------------
(* Small instances of Receipts: a and b show the same image.               *)
EXTENDS Receipts, TLC

CONSTANTS a, b

OwnKey == [r \in Jobs |-> r]
Symmetry == Permutations(Lanes) \cup Permutations(Jobs)
SameImage == [r \in Jobs |-> "image"]
=============================================================================
