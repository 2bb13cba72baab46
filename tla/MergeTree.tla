----------------------------- MODULE MergeTree -----------------------------
(***************************************************************************)
(* The merge relation of a Record: BindMerge builds a forest bottom-up and *)
(* keeps the list of its leaves (merge_leafs_); DoMerge climbs from every  *)
(* leaf and pushes the pending amounts (t_u) of cpu_ and mem_ towards the  *)
(* roots, a node going up only when all its childs have arrived (merged).  *)
(*                                                                         *)
(* DoMerge is split at its loop heads: one step per leaf taken from the    *)
(* list (MergeLeaf), one per iteration of the inner do-while (MergeUp).    *)
(* The client is single threaded: it calls nothing while DoMerge runs.     *)
(***************************************************************************)
EXTENDS Ids, Sequences, FiniteSets

CONSTANTS
    kInnerMergeCost,   \* the entry that records what DoMerge itself cost
    Amounts,           \* amounts a client records (cpu ticks, memory bytes)
    Costs,             \* ticks one DoMerge call may cost
    AllowCycles,       \* client may close a loop with BindMerge
    AllowLateInner,    \* client may bind a parent below a current leaf
    MaxRecords,        \* bound: Record steps
    MaxMerges          \* bound: DoMerge calls

ASSUME MergeAssumption ==
    /\ kInnerMergeCost \in 1 .. kInnerMax - 1
    /\ Amounts \subseteq Int
    /\ Costs \subseteq Int
    /\ AllowCycles \in BOOLEAN
    /\ AllowLateInner \in BOOLEAN
    /\ MaxRecords \in Nat
    /\ MaxMerges \in Nat

Kind == {"cpu", "mem"}

VARIABLES
    active,    \* active_[i]
    to,        \* merge_[i].to, 0: none
    childs,    \* merge_[i].childs
    merged,    \* merge_[i].merged
    leafs,     \* merge_leafs_[0 .. merge_leafs_size_ - 1]
    data,      \* data["cpu"][i]: c, sum, t_u of cpu_[i]; data["mem"][i]: of mem_[i]
    pc,        \* where DoMerge is: "idle", "leaf" (for head), "up" (do head)
    li,        \* DoMerge's i, counted from 1
    cur,       \* DoMerge's to_id (always equal to its id)
    app,       \* append_cpu, append_mem
    snap,      \* history: data when DoMerge was called
    recs,      \* bound counter: Record steps so far
    merges     \* bound counter: DoMerge calls so far

tree == <<active, to, childs, leafs>>
loop == <<pc, li, cur, app, snap>>
vars == <<tree, merged, data, loop, recs, merges>>

Stat == [c : Int, sum : Int, t_u : Int]

Zero == [c |-> 0, sum |-> 0, t_u |-> 0]

NoData == [k \in Kind |-> [i \in Id |-> Zero]]

NoApp == [k \in Kind |-> 0]

\* RecordCpu, RecordCpuFull and RecordMem, as far as c, sum and t_u go.
Added(s, n, x) == [c |-> s.c + n, sum |-> s.sum + x, t_u |-> s.t_u + x]

----------------------------------------------------------------------------
(* A Record after its constructor and Init: inner and reserve registered.  *)
(* What Init measured into the profiler's own entries is left out.         *)

Init ==
    /\ active = [i \in Id |-> i < reserve_end_id]
    /\ to = [i \in Id |-> 0]
    /\ childs = [i \in Id |-> 0]
    /\ merged = [i \in Id |-> 0]
    /\ leafs = <<>>
    /\ data = NoData
    /\ pc = "idle" /\ li = 1 /\ cur = 0 /\ app = NoApp /\ snap = NoData
    /\ recs = 0 /\ merges = 0

\* Regist(i, name, clk, resident, re_reg): ResetNode and activate; merge_ is
\* not among what it clears.
Regist(i, re_reg) ==
    /\ pc = "idle"
    /\ re_reg \/ ~active[i]
    /\ active' = [active EXCEPT ![i] = TRUE]
    /\ data' = [k \in Kind |-> [data[k] EXCEPT ![i] = Zero]]
    /\ UNCHANGED <<to, childs, leafs, merged, loop, recs, merges>>

ResetNode(i) ==
    /\ pc = "idle"
    /\ data' = [k \in Kind |-> [data[k] EXCEPT ![i] = Zero]]
    /\ UNCHANGED <<tree, merged, loop, recs, merges>>

\* RecordCpu(i, x) or RecordMem(i, 1, x); neither looks at active_.
Record(k, i, x) ==
    /\ pc = "idle" /\ recs < MaxRecords
    /\ data' = [data EXCEPT ![k][i] = Added(@, 1, x)]
    /\ recs' = recs + 1
    /\ UNCHANGED <<tree, merged, loop, merges>>

\* Mutant: the check for a child that is bound already is missing.
BindMergeRetNoDup(t, ch) ==
    IF ch = t THEN -2
    ELSE IF ~active[ch] \/ ~active[t] THEN -3
    ELSE 0

\* What BindMerge answers; every negative answer leaves the Record unchanged.
BindMergeRet(t, ch) ==
    IF ch \notin Id \/ t \notin Id THEN -1
    ELSE IF ch = t THEN -2
    ELSE IF Len(leafs) >= end_id THEN -3
    ELSE IF ~active[ch] \/ ~active[t] THEN -3
    ELSE IF to[ch] # 0 THEN -4
    ELSE 0

\* Mutant: a parent that was a leaf is not taken out of the list.
LeafsAppend(t, ch) == IF childs[ch] > 0 THEN leafs ELSE Append(leafs, ch)

\* The leaf list after ch was bound to t: an inner ch leaves it alone, a leaf
\* ch takes t's place (there is one at most: LeafsDistinct), or goes to the
\* end when t has none.
LeafsAfter(t, ch) ==
    IF childs[ch] > 0 THEN leafs
    ELSE IF to[t] # 0 /\ \E i \in 1 .. Len(leafs) : leafs[i] = t
    THEN LET at == CHOOSE i \in 1 .. Len(leafs) : leafs[i] = t
         IN  [leafs EXCEPT ![at] = ch]
    ELSE Append(leafs, ch)

ChildCounted(t, ch) == [childs EXCEPT ![t] = @ + 1]

BindMerge(t, ch) ==
    /\ pc = "idle"
    /\ BindMergeRet(t, ch) = 0
    /\ childs' = ChildCounted(t, ch)
    /\ to' = [to EXCEPT ![ch] = t]
    /\ leafs' = LeafsAfter(t, ch)
    /\ UNCHANGED <<active, merged, data, loop, recs, merges>>

----------------------------------------------------------------------------
(* DoMerge                                                                 *)

MergeBegin ==
    /\ pc = "idle" /\ merges < MaxMerges
    /\ pc' = "leaf" /\ li' = 1
    /\ snap' = data
    /\ merges' = merges + 1
    /\ UNCHANGED <<tree, merged, data, cur, app, recs>>

\* Take the pending amounts of the next leaf.
MergeLeaf ==
    /\ pc = "leaf" /\ li <= Len(leafs)
    /\ LET l == leafs[li]
       IN  /\ app' = [k \in Kind |-> data[k][l].t_u]
           /\ cur' = to[l]
           /\ data' = [k \in Kind |-> [data[k] EXCEPT ![l].t_u = 0]]
    /\ pc' = "up"
    /\ UNCHANGED <<tree, merged, li, snap, recs, merges>>

\* Mutant: off by one, a node waits for one child too many.
ArrivedLate(n) == merged[n] + 1 > childs[n]

\* cur has received app; all its childs have arrived when this one has.
Arrived(n) == merged[n] + 1 >= childs[n]

\* Mutant: the amounts that went up stay pending.
FlushedKeeps(s, x) == IF x > 0 THEN Added(s, 1, x) ELSE s

\* What a complete node keeps of a kind: a positive total becomes one record.
Flushed(s, x) == [(IF x > 0 THEN Added(s, 1, x) ELSE s) EXCEPT !.t_u = 0]

\* Mutant: the for loop does not advance.
SameLeaf == pc' = "leaf" /\ li' = li

\* The climb of this leaf ends; the for loop takes the next one.
NextLeaf == pc' = "leaf" /\ li' = li + 1

IsRoot(n) == to[n] = 0

\* The node still waits for other childs: the climb of this leaf ends here.
MergeWait ==
    /\ pc = "up" /\ ~Arrived(cur)
    /\ merged' = [merged EXCEPT ![cur] = @ + 1]
    /\ data' = [k \in Kind |-> [data[k] EXCEPT ![cur].t_u = @ + app[k]]]
    /\ NextLeaf
    /\ UNCHANGED <<tree, cur, app, snap, recs, merges>>

\* The node is complete: record the total, clear it, go on with its parent.
MergeUp ==
    /\ pc = "up" /\ Arrived(cur)
    /\ merged' = [merged EXCEPT ![cur] = 0]
    /\ LET total == [k \in Kind |-> data[k][cur].t_u + app[k]]
       IN  /\ data' = [k \in Kind |->
                         [data[k] EXCEPT ![cur] = Flushed(@, total[k])]]
           /\ app' = total
    /\ IF IsRoot(cur)
       THEN NextLeaf /\ UNCHANGED cur
       ELSE cur' = to[cur] /\ UNCHANGED <<pc, li>>
    /\ UNCHANGED <<tree, snap, recs, merges>>

\* The list is done: the call's own cost is a record of kInnerMergeCost.
MergeEnd(cost) ==
    /\ pc = "leaf" /\ li > Len(leafs)
    /\ data' = [data EXCEPT !["cpu"][kInnerMergeCost] = Added(@, 1, cost)]
    /\ pc' = "idle" /\ li' = 1 /\ cur' = 0 /\ app' = NoApp /\ snap' = NoData
    /\ UNCHANGED <<tree, merged, recs, merges>>

DoMerge == MergeLeaf \/ MergeWait \/ MergeUp \/ \E cost \in Costs : MergeEnd(cost)

----------------------------------------------------------------------------
(* The client                                                              *)

\* n and the nodes reached from it over merge links: what every set has that
\* has n and is closed under to.
Closed(S) == \A m \in S : to[m] # 0 => to[m] \in S

Above(n) == {m \in Id : \A S \in SUBSET Id : n \in S /\ Closed(S) => m \in S}

IsLeaf(n) == to[n] # 0 /\ childs[n] = 0

\* The client's discipline: no loop, and a node that already has childs is
\* not bound below a node that is still a leaf.
ClientMayBind(t, ch) ==
    /\ AllowCycles \/ ch \notin Above(t)
    /\ AllowLateInner \/ childs[ch] = 0 \/ ~IsLeaf(t)

Next ==
    \/ \E i \in Id, re_reg \in BOOLEAN : Regist(i, re_reg)
    \/ \E i \in Id : ResetNode(i)
    \/ \E k \in Kind, i \in Id, x \in Amounts : Record(k, i, x)
    \/ \E t, ch \in Id : ClientMayBind(t, ch) /\ BindMerge(t, ch)
    \/ MergeBegin
    \/ DoMerge

Spec == Init /\ [][Next]_vars

\* The thread that called DoMerge keeps running it.
FairSpec == Spec /\ WF_vars(DoMerge)

----------------------------------------------------------------------------
(* Properties                                                              *)

\* Every variable keeps its type; DoMerge's cursor stays within the list.
TypeOK ==
    /\ active \in [Id -> BOOLEAN]
    /\ to \in [Id -> Id0]
    /\ childs \in [Id -> Nat]
    /\ merged \in [Id -> Nat]
    /\ leafs \in Seq(Id)
    /\ data \in [Kind -> [Id -> Stat]]
    /\ pc \in {"idle", "leaf", "up"}
    /\ li \in 1 .. Len(leafs) + 1
    /\ cur \in Id0
    /\ app \in [Kind -> Int]
    /\ snap \in [Kind -> [Id -> Stat]]
    /\ recs \in Nat
    /\ merges \in Nat

\* However the client binds, no node is listed twice in merge_leafs_ and every
\* listed node has somewhere to merge to.
LeafsDistinct ==
    /\ \A i, j \in 1 .. Len(leafs) : leafs[i] = leafs[j] => i = j
    /\ \A i \in 1 .. Len(leafs) : to[leafs[i]] # 0

\* However the client binds, merge_leafs_[merge_leafs_size_++] stays inside
\* the array of end_id() slots: BindMerge's size check never fires.
LeafsInBounds == Len(leafs) < end_id

\* The climb of DoMerge never leaves the tables: to_id is a real entry to
\* which at least one node is bound (merge_[0] and cpu_[0] are not touched),
\* and i is the position of the leaf the climb began at.
WalkInBounds ==
    pc = "up" => /\ cur \in Id /\ childs[cur] > 0
                 /\ li <= Len(leafs)

\* merge_[n].childs, which decides when n is complete, is the number of nodes
\* bound to n.
ChildsExact == \A n \in Id : childs[n] = Cardinality({m \in Id : to[m] = n})

\* The tables that DoMerge reads without a check are sound however the client
\* binds, during a merge too.
TablesSound == TypeOK /\ LeafsDistinct /\ LeafsInBounds /\ WalkInBounds /\ ChildsExact

\* The leaf list is exactly the set of bound nodes without childs, in whatever
\* order the (disciplined) client has bound the forest.
LeafsExact == {leafs[i] : i \in 1 .. Len(leafs)} = {n \in Id : IsLeaf(n)}

\* Between two DoMerge calls no node is half merged: a count left over would
\* make the next call complete the node before all its childs have arrived.
MergedClean == pc = "idle" => \A n \in Id : merged[n] = 0

\* The pending amounts of a running DoMerge are not visible to the client:
\* until the call returns, the abstract data is what it was at the call.
Abs == INSTANCE MergeAbs WITH data <- IF pc = "idle" THEN data ELSE snap

\* A DoMerge call has the effect of one atomic merge of the whole forest,
\* whatever the order in which the leaves are listed.
MergeIsAtomic == Abs!Spec

\* A DoMerge call that was started returns.
MergeReturns == pc # "idle" ~> pc = "idle"

=============================================================================
