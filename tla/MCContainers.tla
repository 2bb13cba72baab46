---------------------------- MODULE MCContainers ----------------------------
(***************************************************************************)
(* The zbase containers side by side: a run is about the one that kind     *)
(* names, the others stay as they were made.                               *)
(***************************************************************************)
EXTENDS ZVector, ZList, ZHashMap, ZForeach, ZPool, TLC

VARIABLE kind

vars == <<kind, vvars, lvars, mvars, fvars, pvars>>

(* Keys 1, 2 and 3 share a bucket *)
HashDef == [k \in Keys |-> IF k = 4 THEN 1 ELSE 0]

Init ==
    /\ VecInit /\ ListInit /\ MapInit /\ ForeachInit /\ PoolInit
    /\ kind \in {"zvector", "zlist", "zhash_map", "zforeach", "zpool"}
    /\ kind # "zforeach" => sub = InitSubframe(0, MaxId, 2, 2)
    /\ kind # "zlist" => ~trivial

Next ==
    /\ UNCHANGED kind
    /\ \/ kind = "zvector" /\ VecNext /\ UNCHANGED <<lvars, mvars, fvars, pvars>>
       \/ kind = "zlist" /\ ListNext /\ UNCHANGED <<vvars, mvars, fvars, pvars>>
       \/ kind = "zhash_map" /\ MapNext /\ UNCHANGED <<vvars, lvars, fvars, pvars>>
       \/ kind = "zforeach" /\ ForeachNext /\ UNCHANGED <<vvars, lvars, mvars, pvars>>
       \/ kind = "zpool" /\ PoolNext /\ UNCHANGED <<vvars, lvars, mvars, fvars>>

Spec == Init /\ [][Next]_vars

(* The objects of a kind are interchangeable: what is chosen among the     *)
(* buffers depends on the set of those in use alone.                       *)
Symmetry == Permutations(Vectors) \cup Permutations(Lists)

=============================================================================
