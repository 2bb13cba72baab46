------------------------------ MODULE MergeAbs ------------------------------
(***************************************************************************)
(* What the merge relation promises: the bound entries form a forest, and  *)
(* one DoMerge call adds to every entry with childs, as a single record,   *)
(* the total of what was pending at it and anywhere below it, provided the *)
(* total is positive; nothing stays pending in the forest.  There is no    *)
(* leaf list, no merged count and no order of the climbs.                  *)
(***************************************************************************)
EXTENDS Ids, Functions

CONSTANTS kInnerMergeCost, Amounts, Costs

VARIABLES active, to, data

vars == <<active, to, data>>

Kind == {"cpu", "mem"}

Zero == [c |-> 0, sum |-> 0, t_u |-> 0]

Added(s, n, x) == [c |-> s.c + n, sum |-> s.sum + x, t_u |-> s.t_u + x]

\* n and its ancestors: what every set has that has n and is closed under to;
\* n and its descendants.
Closed(S) == \A m \in S : to[m] # 0 => to[m] \in S

Above(n) == {m \in Id : \A S \in SUBSET Id : n \in S /\ Closed(S) => m \in S}

Below(n) == {m \in Id : n \in Above(m)}

HasChilds(n) == \E m \in Id : to[m] = n

Total(k, n) == SumFunctionOnSet([m \in Id |-> data[k][m].t_u], Below(n))

Init ==
    /\ active = [i \in Id |-> i < reserve_end_id]
    /\ to = [i \in Id |-> 0]
    /\ data = [k \in Kind |-> [i \in Id |-> Zero]]

Clear(i) == data' = [k \in Kind |-> [data[k] EXCEPT ![i] = Zero]]

Regist(i) == active' = [active EXCEPT ![i] = TRUE] /\ Clear(i) /\ UNCHANGED to

Reset(i) == Clear(i) /\ UNCHANGED <<active, to>>

Record(k, i, x) ==
    /\ data' = [data EXCEPT ![k][i] = Added(@, 1, x)]
    /\ UNCHANGED <<active, to>>

Bind(t, ch) ==
    /\ active[t] /\ active[ch]
    /\ to[ch] = 0 /\ ch \notin Above(t)
    /\ to' = [to EXCEPT ![ch] = t]
    /\ UNCHANGED <<active, data>>

\* The record of entry n after a merge, before the call's own cost.
Settled(k, n) ==
    LET s == data[k][n]
        gain == HasChilds(n) /\ Total(k, n) > 0
    IN  IF ~HasChilds(n) /\ to[n] = 0 THEN s
        ELSE [c   |-> s.c + (IF gain THEN 1 ELSE 0),
              sum |-> s.sum + (IF gain THEN Total(k, n) ELSE 0),
              t_u |-> 0]

Merge(cost) ==
    /\ LET settled == [k \in Kind |-> [n \in Id |-> Settled(k, n)]]
       IN  data' = [settled EXCEPT !["cpu"][kInnerMergeCost] = Added(@, 1, cost)]
    /\ UNCHANGED <<active, to>>

Next ==
    \/ \E i \in Id : Regist(i) \/ Reset(i)
    \/ \E k \in Kind, i \in Id, x \in Amounts : Record(k, i, x)
    \/ \E t, ch \in Id : Bind(t, ch)
    \/ \E cost \in Costs : Merge(cost)

Spec == Init /\ [][Next]_vars

=============================================================================
