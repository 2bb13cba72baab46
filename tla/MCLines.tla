------------------------------ MODULE MCLines ------------------------------
(* Lines for TLC: the shortest and the longest values a 64-bit field has.  *)
EXTENDS Lines

\* 1 to 999, 1,000,000,000,000,000,000 and up, and a negative count, which is
\* printed as the unsigned number it becomes.
MCCounts == {<<1, 1>>, <<13, 3>>, <<20, 1>>}

\* 1B, 1023.999G and up, and a negative size.
MCSizes == {<<1, FALSE>>, <<10, TRUE>>, <<20, FALSE>>}

\* The values the run chooses are those the buffer is long enough for.
ASSUME RunFits == LineFits

=============================================================================
