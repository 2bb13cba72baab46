------------------------------ MODULE MCEntry ------------------------------
(***************************************************************************)
(* What a Record keeps of its entries besides the two trees, for TLC: the  *)
(* names (Names) and the cpu statistics of one entry (CpuStat).  The two   *)
(* share no state; a run is about the one that part names.                 *)
(***************************************************************************)
EXTENDS Names, CpuStat

VARIABLE part

\* The clock may go back a little.
MCTicks == {-3, 0, 1, 9, 40}

MCBatches == {<<2, 0>>, <<2, 7>>, <<3, 40>>}

EntryInit == NamesInit /\ Init /\ part \in {"names", "cpu"}

EntryNext ==
    \/ part = "names" /\ NamesNext /\ UNCHANGED <<part, vars>>
    \/ part = "cpu" /\ Next /\ UNCHANGED <<part, namesVars>>

EntrySpec == EntryInit /\ [][EntryNext]_<<part, namesVars, vars>>

=============================================================================
