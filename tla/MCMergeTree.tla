---------------------------- MODULE MCMergeTree ----------------------------
(* MergeTree for TLC.                                                      *)
EXTENDS MergeTree

\* Memory can be given back: a total may be negative or cancel out.
MCAmounts == {-1, 2}

=============================================================================
