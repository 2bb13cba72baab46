-------------------------- MODULE MergeTreeProofs --------------------------
(***************************************************************************)
(* Invariance proofs for MergeTree, for every number of entries, every     *)
(* amount and cost, and every order of client calls.                       *)
(***************************************************************************)
EXTENDS MergeTree, Functions, TLAPS, FiniteSetTheorems, SequenceTheorems,
        NaturalsInduction

\* The ids are an interval of numbers, 0 not among them.
LEMMA IdFacts ==
    /\ end_id \in Nat /\ end_id > 1
    /\ Id = 1 .. end_id - 1
    /\ Id0 = Id \cup {0}
    /\ kInnerMergeCost \in Id
<1>1. end_id \in Nat /\ end_id >= kInnerMax /\ kInnerMax > 1 /\ kInnerMax \in Nat
  BY IdsAssumption DEF end_id, declare_end_id, declare_begin_id, reserve_end_id,
     reserve_begin_id
<1>2. Id = 1 .. end_id - 1 /\ Id0 = 0 .. end_id - 1
  BY <1>1 DEF Id, Id0, begin_id, kInnerNull
<1>3. kInnerMergeCost \in Id
  BY <1>1, <1>2, MergeAssumption, IdsAssumption
<1> QED BY <1>1, <1>2, <1>3

\* There are end_id - 1 of them.
LEMMA IdCount == IsFiniteSet(Id) /\ Cardinality(Id) = end_id - 1
<1> DEFINE last == end_id - 1
<1>1. last \in Int /\ last >= 1 /\ 1 \in Int /\ Id = 1 .. last
  BY IdFacts
<1> HIDE DEF last
<1>2. IsFiniteSet(1 .. last) /\ Cardinality(1 .. last) = IF 1 > last THEN 0 ELSE last - 1 + 1
  BY <1>1, FS_Interval
<1>3. IsFiniteSet(Id) /\ Cardinality(Id) = last
  BY <1>1, <1>2
<1> QED BY <1>3 DEF last

\* A counter bumped by n records stays a counter.
LEMMA AddedType ==
    ASSUME NEW s \in Stat, NEW n \in Int, NEW x \in Int
    PROVE  /\ Added(s, n, x) \in Stat
           /\ Flushed(s, x) \in Stat
           /\ [s EXCEPT !.t_u = 0] \in Stat
           /\ [s EXCEPT !.t_u = @ + x] \in Stat
BY DEF Added, Flushed, Stat

LEMMA ZeroType == Zero \in Stat /\ NoData \in [Kind -> [Id -> Stat]]
BY DEF Zero, Stat, NoData

\* Putting a node in the place of the first t keeps the length of the list.
LEMMA LeafsAfterShape ==
    ASSUME TypeOK, NEW t \in Id, NEW ch \in Id
    PROVE  /\ LeafsAfter(t, ch) \in Seq(Id)
           /\ \/ LeafsAfter(t, ch) = leafs /\ childs[ch] > 0
              \/ /\ childs[ch] = 0
                 /\ \E f \in 1 .. Len(leafs) :
                      leafs[f] = t /\ LeafsAfter(t, ch) = [leafs EXCEPT ![f] = ch]
              \/ /\ childs[ch] = 0
                 /\ to[t] = 0 \/ \A i \in 1 .. Len(leafs) : leafs[i] # t
                 /\ LeafsAfter(t, ch) = Append(leafs, ch)
<1> USE DEF TypeOK
<1>1. CASE childs[ch] > 0
  BY <1>1 DEF LeafsAfter
<1>2. CASE childs[ch] = 0 /\ to[t] # 0 /\ \E i \in 1 .. Len(leafs) : leafs[i] = t
  <2> DEFINE f == CHOOSE i \in 1 .. Len(leafs) : leafs[i] = t
  <2>1. f \in 1 .. Len(leafs) /\ leafs[f] = t
    BY <1>2
  <2>2. LeafsAfter(t, ch) = [leafs EXCEPT ![f] = ch]
    BY <1>2 DEF LeafsAfter
  <2>3. [leafs EXCEPT ![f] = ch] \in Seq(Id)
    BY <2>1, ExceptSeq
  <2> HIDE DEF f
  <2> QED BY <1>2, <2>1, <2>2, <2>3
<1>3. CASE childs[ch] = 0 /\ ~(to[t] # 0 /\ \E i \in 1 .. Len(leafs) : leafs[i] = t)
  <2>1. LeafsAfter(t, ch) = Append(leafs, ch)
    BY <1>3 DEF LeafsAfter
  <2> QED BY <1>3, <2>1, AppendProperties
<1> QED BY <1>1, <1>2, <1>3

----------------------------------------------------------------------------
(* The inductive invariant                                                 *)

\* A node something is bound to has counted it.
LinksCounted == \A n \in Id : to[n] # 0 => childs[to[n]] > 0

IInv == TypeOK /\ LeafsDistinct /\ LinksCounted /\ WalkInBounds

LEMMA InitIInv == Init => IInv
<1> SUFFICES ASSUME Init PROVE IInv
  OBVIOUS
<1>1. TypeOK
  BY IdFacts, ZeroType DEF Init, TypeOK, NoApp
<1>2. LeafsDistinct /\ LinksCounted /\ WalkInBounds
  BY DEF Init, LeafsDistinct, LinksCounted, WalkInBounds
<1> QED BY <1>1, <1>2 DEF IInv

\* The calls that change data only.
LEMMA RegistIInv ==
    ASSUME IInv, NEW i \in Id, NEW re_reg \in BOOLEAN, Regist(i, re_reg)
    PROVE  IInv'
<1>1. TypeOK'
  BY ZeroType DEF IInv, TypeOK, Regist, loop
<1>2. LeafsDistinct' /\ LinksCounted' /\ WalkInBounds'
  BY DEF IInv, LeafsDistinct, LinksCounted, WalkInBounds, Regist, loop
<1> QED BY <1>1, <1>2 DEF IInv

LEMMA ResetNodeIInv ==
    ASSUME IInv, NEW i \in Id, ResetNode(i)
    PROVE  IInv'
<1>1. TypeOK'
  BY ZeroType DEF IInv, TypeOK, ResetNode, loop, tree
<1>2. LeafsDistinct' /\ LinksCounted' /\ WalkInBounds'
  BY DEF IInv, LeafsDistinct, LinksCounted, WalkInBounds, ResetNode, loop, tree
<1> QED BY <1>1, <1>2 DEF IInv

LEMMA RecordIInv ==
    ASSUME IInv, NEW k \in Kind, NEW i \in Id, NEW x \in Amounts, Record(k, i, x)
    PROVE  IInv'
<1>1. data[k][i] \in Stat /\ x \in Int
  BY MergeAssumption DEF IInv, TypeOK
<1>2. Added(data[k][i], 1, x) \in Stat
  BY <1>1 DEF Added, Stat
<1>3. data' \in [Kind -> [Id -> Stat]]
  BY <1>2 DEF IInv, TypeOK, Record
<1>4. TypeOK'
  BY <1>3 DEF IInv, TypeOK, Record, loop, tree
<1>5. LeafsDistinct' /\ LinksCounted' /\ WalkInBounds'
  BY DEF IInv, LeafsDistinct, LinksCounted, WalkInBounds, Record, loop, tree
<1> QED BY <1>4, <1>5 DEF IInv

\* Binding: a node enters the list when it is bound, so it was not there before.
LEMMA BindMergeIInv ==
    ASSUME IInv, NEW t \in Id, NEW ch \in Id, BindMerge(t, ch)
    PROVE  IInv'
<1>1. /\ leafs' = LeafsAfter(t, ch) /\ to' = [to EXCEPT ![ch] = t]
      /\ childs' = [childs EXCEPT ![t] = childs[t] + 1]
      /\ to[ch] = 0 /\ t # ch
      /\ UNCHANGED <<active, merged, data, loop, recs, merges>>
  BY DEF BindMerge, BindMergeRet, ChildCounted, IInv, TypeOK
<1>2. leafs \in Seq(Id) /\ Len(leafs) \in Nat /\ to \in [Id -> Id0] /\ childs \in [Id -> Nat]
  BY LenProperties DEF IInv, TypeOK
<1>3. \A n \in 1 .. Len(leafs) : leafs[n] # ch /\ leafs[n] \in Id
  BY <1>1, <1>2, ElementOfSeq DEF IInv, LeafsDistinct
<1> DEFINE Kept == /\ leafs' \in Seq(Id) /\ Len(leafs') \in Nat
                   /\ Len(leafs') >= Len(leafs) /\ LeafsDistinct'
<1>4. Kept
  <2>1. CASE leafs' = leafs
    BY <2>1, <1>1, <1>2, <1>3, IdFacts DEF IInv, LeafsDistinct
  <2>2. ASSUME NEW f \in 1 .. Len(leafs), leafs' = [leafs EXCEPT ![f] = ch]
        PROVE  Kept
    <3>1. /\ leafs' \in Seq(Id) /\ Len(leafs') = Len(leafs)
          /\ \A j \in 1 .. Len(leafs) : leafs'[j] = IF j = f THEN ch ELSE leafs[j]
      BY <2>2, <1>2, ExceptSeq
    <3>2. \A m, n \in 1 .. Len(leafs) : leafs'[m] = leafs'[n] => m = n
      BY <3>1, <1>3 DEF IInv, LeafsDistinct
    <3>3. to'[ch] = t /\ t # 0 /\ \A n \in Id : n # ch => to'[n] = to[n]
      BY <1>1, <1>2, IdFacts
    <3>4. \A m \in 1 .. Len(leafs) : to'[leafs'[m]] # 0
      BY <3>1, <3>3, <1>3 DEF IInv, LeafsDistinct
    <3>5. LeafsDistinct'
      <4>1. Len(leafs)' = Len(leafs)
        BY <3>1
      <4> QED BY <3>2, <3>4, <4>1, Zenon DEF LeafsDistinct
    <3>6. leafs' \in Seq(Id) /\ Len(leafs') \in Nat /\ Len(leafs') >= Len(leafs)
      BY <3>1, <1>2
    <3> QED BY <3>5, <3>6, Zenon
  <2>3. CASE leafs' = Append(leafs, ch)
    <3>1. /\ leafs' \in Seq(Id) /\ Len(leafs') = Len(leafs) + 1
          /\ \A j \in 1 .. Len(leafs) : leafs'[j] = leafs[j]
          /\ leafs'[Len(leafs) + 1] = ch
      BY <2>3, <1>2, AppendProperties
    <3>2. \A m \in 1 .. Len(leafs') : m \in 1 .. Len(leafs) \/ m = Len(leafs) + 1
      BY <3>1, <1>2
    <3>3. \A m, n \in 1 .. Len(leafs') : leafs'[m] = leafs'[n] => m = n
      BY <3>1, <3>2, <1>2, <1>3 DEF IInv, LeafsDistinct
    <3>4. \A m \in 1 .. Len(leafs') : to'[leafs'[m]] # 0
      <4>1. to'[ch] = t /\ t # 0 /\ \A n \in Id : n # ch => to'[n] = to[n]
        BY <1>1, <1>2, IdFacts
      <4>2. \A m \in 1 .. Len(leafs) : to'[leafs'[m]] # 0
        BY <4>1, <3>1, <1>3 DEF IInv, LeafsDistinct
      <4> QED BY <4>1, <4>2, <3>1, <3>2
    <3>5. LeafsDistinct'
      BY <3>3, <3>4, Zenon DEF LeafsDistinct
    <3>6. leafs' \in Seq(Id) /\ Len(leafs') \in Nat /\ Len(leafs') >= Len(leafs)
      BY <3>1, <1>2
    <3> QED BY <3>5, <3>6, Zenon
  <2>4. \/ leafs' = leafs
        \/ \E f \in 1 .. Len(leafs) : leafs' = [leafs EXCEPT ![f] = ch]
        \/ leafs' = Append(leafs, ch)
    BY <1>1, LeafsAfterShape DEF IInv
  <2> HIDE DEF Kept
  <2> QED BY <2>4, <2>1, <2>2, <2>3
<1>5. to' \in [Id -> Id0] /\ childs' \in [Id -> Nat] /\ LinksCounted'
  BY <1>1, <1>2, IdFacts DEF IInv, LinksCounted
<1>6. li' \in 1 .. Len(leafs') + 1
  BY <1>1, <1>2, <1>4 DEF IInv, TypeOK, loop
<1>7. TypeOK'
  BY <1>1, <1>4, <1>5, <1>6 DEF IInv, TypeOK, loop
<1>8. WalkInBounds'
  BY DEF WalkInBounds, BindMerge, loop
<1> QED BY <1>4, <1>5, <1>7, <1>8 DEF IInv

LEMMA MergeBeginIInv ==
    ASSUME IInv, MergeBegin
    PROVE  IInv'
<1>1. TypeOK'
  BY LenProperties DEF IInv, TypeOK, MergeBegin, tree
<1>2. LeafsDistinct' /\ LinksCounted' /\ WalkInBounds'
  BY DEF IInv, LeafsDistinct, LinksCounted, WalkInBounds, MergeBegin, tree
<1> QED BY <1>1, <1>2 DEF IInv

\* A climb starts at a leaf's target, which has counted the leaf.
LEMMA MergeLeafIInv ==
    ASSUME IInv, MergeLeaf
    PROVE  IInv'
<1> DEFINE l == leafs[li]
<1>1. l \in Id /\ to[l] # 0 /\ to[l] \in Id /\ childs[to[l]] > 0
  <2>1. li \in 1 .. Len(leafs) /\ leafs \in Seq(Id) /\ to \in [Id -> Id0]
    BY LenProperties DEF IInv, TypeOK, MergeLeaf
  <2>2. l \in Id /\ to[l] # 0
    BY <2>1, ElementOfSeq DEF IInv, LeafsDistinct
  <2> QED BY <2>1, <2>2, IdFacts DEF IInv, LinksCounted
<1>2. \A k \in Kind : data[k][l] \in Stat
  BY <1>1 DEF IInv, TypeOK
<1>3. \A k \in Kind : data[k][l].t_u \in Int /\ [data[k][l] EXCEPT !.t_u = 0] \in Stat
  BY <1>2 DEF Stat
<1>4. data' \in [Kind -> [Id -> Stat]] /\ app' \in [Kind -> Int]
  BY <1>1, <1>3 DEF IInv, TypeOK, MergeLeaf
<1>5. TypeOK'
  BY <1>1, <1>4 DEF IInv, TypeOK, MergeLeaf, tree, Id0
<1>6. LeafsDistinct' /\ LinksCounted' /\ WalkInBounds'
  BY <1>1 DEF IInv, LeafsDistinct, LinksCounted, WalkInBounds, MergeLeaf, tree
<1> QED BY <1>5, <1>6 DEF IInv

LEMMA MergeWaitIInv ==
    ASSUME IInv, MergeWait
    PROVE  IInv'
<1>1. cur \in Id /\ childs[cur] > 0 /\ app \in [Kind -> Int] /\ merged \in [Id -> Nat]
  BY DEF IInv, WalkInBounds, MergeWait, TypeOK
<1>2. \A k \in Kind : data[k][cur] \in Stat
  BY <1>1 DEF IInv, TypeOK
<1>3. \A k \in Kind : [data[k][cur] EXCEPT !.t_u = data[k][cur].t_u + app[k]] \in Stat
  BY <1>1, <1>2 DEF Stat
<1>4. data' \in [Kind -> [Id -> Stat]]
  BY <1>1, <1>3 DEF IInv, TypeOK, MergeWait
<1>5. li' \in 1 .. Len(leafs') + 1
  BY LenProperties DEF IInv, TypeOK, WalkInBounds, MergeWait, NextLeaf, tree
<1>6. TypeOK'
  BY <1>1, <1>4, <1>5 DEF IInv, TypeOK, MergeWait, NextLeaf, tree
<1>7. LeafsDistinct' /\ LinksCounted' /\ WalkInBounds'
  BY DEF IInv, LeafsDistinct, LinksCounted, WalkInBounds, MergeWait, NextLeaf, tree
<1> QED BY <1>6, <1>7 DEF IInv

\* A climb goes on to the target of a complete node, if it has one.
LEMMA MergeUpIInv ==
    ASSUME IInv, MergeUp
    PROVE  IInv'
<1> DEFINE total(k) == data[k][cur].t_u + app[k]
<1>1. cur \in Id /\ app \in [Kind -> Int] /\ merged \in [Id -> Nat] /\ to \in [Id -> Id0]
  BY DEF IInv, WalkInBounds, MergeUp, TypeOK
<1>2. \A k \in Kind : data[k][cur] \in Stat
  BY <1>1 DEF IInv, TypeOK
<1>3. \A k \in Kind : total(k) \in Int
  BY <1>1, <1>2 DEF Stat
<1>4. \A k \in Kind : Flushed(data[k][cur], total(k)) \in Stat
  BY <1>2, <1>3, AddedType
<1>5. /\ data' = [k \in Kind |-> [data[k] EXCEPT ![cur] = Flushed(data[k][cur], total(k))]]
      /\ app' = [k \in Kind |-> total(k)]
  BY <1>1 DEF MergeUp, IInv, TypeOK
<1> HIDE DEF total
<1>6. data' \in [Kind -> [Id -> Stat]] /\ app' \in [Kind -> Int]
  BY <1>1, <1>3, <1>4, <1>5 DEF IInv, TypeOK
<1>7. merged' \in [Id -> Nat] /\ UNCHANGED <<tree, snap, recs, merges>>
  BY <1>1 DEF MergeUp
<1>8. CASE to[cur] = 0
  <2>1. pc' = "leaf" /\ li' = li + 1 /\ cur' = cur
    BY <1>8 DEF MergeUp, IsRoot, NextLeaf
  <2>2. li' \in 1 .. Len(leafs') + 1
    BY <2>1, <1>7, LenProperties DEF IInv, TypeOK, WalkInBounds, MergeUp, tree
  <2>3. TypeOK'
    BY <2>1, <2>2, <1>6, <1>7 DEF IInv, TypeOK, tree
  <2>4. LeafsDistinct' /\ LinksCounted' /\ WalkInBounds'
    BY <2>1, <1>7 DEF IInv, LeafsDistinct, LinksCounted, WalkInBounds, tree
  <2> QED BY <2>3, <2>4 DEF IInv
<1>9. CASE to[cur] # 0
  <2>1. pc' = pc /\ li' = li /\ cur' = to[cur] /\ to[cur] \in Id
    BY <1>9, <1>1, IdFacts DEF MergeUp, IsRoot
  <2>2. TypeOK'
    BY <2>1, <1>1, <1>6, <1>7 DEF IInv, TypeOK, tree
  <2>3. LeafsDistinct' /\ LinksCounted' /\ WalkInBounds'
    BY <1>9, <2>1, <1>1, <1>7
       DEF IInv, LeafsDistinct, LinksCounted, WalkInBounds, MergeUp, tree
  <2> QED BY <2>2, <2>3 DEF IInv
<1> QED BY <1>8, <1>9

LEMMA MergeEndIInv ==
    ASSUME IInv, NEW cost \in Costs, MergeEnd(cost)
    PROVE  IInv'
<1>1. "cpu" \in Kind /\ data["cpu"][kInnerMergeCost] \in Stat /\ cost \in Int
  BY IdFacts, MergeAssumption DEF IInv, TypeOK, Kind
<1>2. Added(data["cpu"][kInnerMergeCost], 1, cost) \in Stat
  BY <1>1 DEF Added, Stat
<1>3. data' \in [Kind -> [Id -> Stat]]
  BY <1>1, <1>2, IdFacts DEF IInv, TypeOK, MergeEnd
<1>4. li' \in 1 .. Len(leafs') + 1
  BY LenProperties DEF IInv, TypeOK, MergeEnd, tree
<1>5. TypeOK'
  BY <1>3, <1>4, ZeroType, IdFacts DEF IInv, TypeOK, MergeEnd, NoApp, tree
<1>6. LeafsDistinct' /\ LinksCounted' /\ WalkInBounds'
  BY DEF IInv, LeafsDistinct, LinksCounted, WalkInBounds, MergeEnd, tree
<1> QED BY <1>5, <1>6 DEF IInv

\* IInv is inductive.
LEMMA NextIInv == IInv /\ [Next]_vars => IInv'
<1> SUFFICES ASSUME IInv, [Next]_vars PROVE IInv'
  OBVIOUS
<1>1. CASE UNCHANGED vars
  BY <1>1 DEF vars, tree, loop, IInv, TypeOK, LeafsDistinct, LinksCounted, WalkInBounds
<1>2. CASE Next
  BY <1>2, RegistIInv, ResetNodeIInv, RecordIInv, BindMergeIInv, MergeBeginIInv,
     MergeLeafIInv, MergeWaitIInv, MergeUpIInv, MergeEndIInv DEF Next, DoMerge
<1> QED BY <1>1, <1>2

\* The inductive invariant holds in every state a client can reach.
THEOREM Inductive == Spec => []IInv
BY InitIInv, NextIInv, PTL DEF Spec

\* Every value the merge code stores keeps its type.
THEOREM TypeCorrect == Spec => []TypeOK
<1>1. IInv => TypeOK
  BY DEF IInv
<1> QED BY <1>1, Inductive, PTL

\* However a client binds, merge_leafs_ lists no entry twice, and only entries
\* that have a merge target.
THEOREM LeafsNeverRepeat == Spec => []LeafsDistinct
<1>1. IInv => LeafsDistinct
  BY DEF IInv
<1> QED BY <1>1, Inductive, PTL

\* DoMerge only ever touches real entries, even where it never returns.
THEOREM WalkStaysInside == Spec => []WalkInBounds
<1>1. IInv => WalkInBounds
  BY DEF IInv
<1> QED BY <1>1, Inductive, PTL

\* A list without repetition cannot be longer than there are entries, so
\* BindMerge never writes past the end of merge_leafs_.
THEOREM LeafsFit == Spec => []LeafsInBounds
<1>1. ASSUME IInv PROVE LeafsInBounds
  <2> DEFINE S == 1 .. Len(leafs)
             f == [i \in S |-> leafs[i]]
  <2>1. leafs \in Seq(Id) /\ Len(leafs) \in Nat
    BY <1>1, LenProperties DEF IInv, TypeOK
  <2>2. f \in Injection(S, Id)
    BY <1>1, <2>1, ElementOfSeq DEF IInv, LeafsDistinct, Injection, IsInjective
  <2>3. Cardinality(S) <= Cardinality(Id)
    BY <2>2, IdCount, FS_Injection
  <2>4. Cardinality(S) = Len(leafs)
    BY <2>1, FS_Interval
  <2> QED BY <2>1, <2>3, <2>4, IdCount, IdFacts DEF LeafsInBounds
<1> QED BY <1>1, Inductive, PTL

----------------------------------------------------------------------------
(* The child counters and the leaf list describe the forest                *)

\* Only BindMerge touches the forest.
LEMMA TreeSteps ==
    ASSUME IInv, [Next]_vars
    PROVE  \/ UNCHANGED <<to, childs, leafs>>
           \/ \E t, ch \in Id : ClientMayBind(t, ch) /\ BindMerge(t, ch)
BY DEF Next, vars, tree, Regist, ResetNode, Record, MergeBegin, DoMerge, MergeLeaf,
       MergeWait, MergeUp, MergeEnd

\* What BindMerge does to the links.
LEMMA BindFacts ==
    ASSUME IInv, NEW t \in Id, NEW ch \in Id, BindMerge(t, ch)
    PROVE  /\ to[ch] = 0 /\ t # ch /\ t # 0
           /\ to'[ch] = t /\ \A n \in Id : n # ch => to'[n] = to[n]
           /\ childs'[t] = childs[t] + 1 /\ \A n \in Id : n # t => childs'[n] = childs[n]
           /\ leafs' = LeafsAfter(t, ch)
           /\ childs \in [Id -> Nat] /\ leafs \in Seq(Id) /\ Len(leafs) \in Nat
<1>1. leafs \in Seq(Id) /\ Len(leafs) \in Nat
  BY LenProperties DEF IInv, TypeOK
<1> QED BY <1>1, IdFacts DEF BindMerge, BindMergeRet, ChildCounted, IInv, TypeOK

\* merge_[n].childs counts the entries bound to n, in every order of binding.
THEOREM ChildsCounted == Spec => []ChildsExact
<1> DEFINE Bound(n) == {m \in Id : to[m] = n}
<1>1. Init => ChildsExact
  <2> SUFFICES ASSUME Init, NEW n \in Id PROVE childs[n] = Cardinality(Bound(n))
    BY DEF ChildsExact
  <2>1. Bound(n) = {} /\ childs[n] = 0
    BY IdFacts DEF Init
  <2> QED BY <2>1, FS_EmptySet
<1>2. IInv /\ ChildsExact /\ [Next]_vars => ChildsExact'
  <2> SUFFICES ASSUME IInv, ChildsExact, [Next]_vars PROVE ChildsExact'
    OBVIOUS
  <2>1. CASE UNCHANGED <<to, childs, leafs>>
    BY <2>1 DEF ChildsExact
  <2>2. ASSUME NEW t \in Id, NEW ch \in Id, BindMerge(t, ch) PROVE ChildsExact'
    <3> SUFFICES ASSUME NEW n \in Id PROVE childs'[n] = Cardinality(Bound(n)')
      BY DEF ChildsExact
    <3>1. IsFiniteSet(Bound(n)) /\ childs[n] = Cardinality(Bound(n)) /\ childs[n] \in Nat
      <4>1. Bound(n) \in SUBSET Id
        OBVIOUS
      <4> QED BY <4>1, IdCount, FS_Subset, <2>2, BindFacts DEF ChildsExact
    <3>2. CASE n = t
      <4>1. Bound(n)' = Bound(n) \cup {ch} /\ ch \notin Bound(n) /\ childs'[n] = childs[n] + 1
        BY <2>2, <3>2, BindFacts
      <4> HIDE DEF Bound
      <4> QED BY <4>1, <3>1, FS_AddElement
    <3>3. CASE n # t
      <4>1. n # 0
        BY IdFacts
      <4>2. \A m \in Id : to'[m] = n <=> to[m] = n
        BY <4>1, <2>2, <3>3, BindFacts
      <4>3. Bound(n)' = Bound(n) /\ childs'[n] = childs[n]
        BY <4>2, <2>2, <3>3, BindFacts
      <4> QED BY <4>3, <3>1
    <3> QED BY <3>2, <3>3
  <2> QED BY <2>1, <2>2, TreeSteps
<1> QED BY <1>1, <1>2, Inductive, PTL DEF Spec

\* The tables BindMerge and DoMerge use stay sound for every client, cyclic and
\* late binds included: types, leaf list, climb and child counts together.
THEOREM TablesAreSound == Spec => []TablesSound
<1>1. TypeOK /\ LeafsDistinct /\ LeafsInBounds /\ WalkInBounds /\ ChildsExact
        => TablesSound
  BY DEF TablesSound
<1> QED BY <1>1, TypeCorrect, LeafsNeverRepeat, WalkStaysInside, LeafsFit,
           ChildsCounted, PTL

\* If the client never binds a parent below a current leaf, merge_leafs_ is
\* exactly the set of leaves; the LateInner run shows that without this
\* discipline it is not.
THEOREM LeafsAreLeaves ==
    ASSUME AllowLateInner = FALSE
    PROVE  Spec => []LeafsExact
<1> DEFINE Listed(n) == \E i \in 1 .. Len(leafs) : leafs[i] = n
           Exact == \A n \in Id : Listed(n) <=> IsLeaf(n)
<1>1. ASSUME IInv PROVE Exact <=> LeafsExact
  <2>1. \A i \in 1 .. Len(leafs) : leafs[i] \in Id
    BY <1>1, ElementOfSeq DEF IInv, TypeOK
  <2> QED BY <2>1 DEF LeafsExact
<1>2. Init => Exact
  BY DEF Init, IsLeaf
<1>3. IInv /\ Exact /\ [Next]_vars => Exact'
  <2> SUFFICES ASSUME IInv, Exact, [Next]_vars, NEW n \in Id
               PROVE  Listed(n)' <=> IsLeaf(n)'
    OBVIOUS
  <2>1. CASE UNCHANGED <<to, childs, leafs>>
    BY <2>1 DEF IsLeaf
  <2>2. ASSUME NEW t \in Id, NEW ch \in Id, ClientMayBind(t, ch), BindMerge(t, ch)
        PROVE  Listed(n)' <=> IsLeaf(n)'
    <3>1. /\ ~IsLeaf(ch) /\ ~Listed(ch) /\ ~IsLeaf(t)'
          /\ IsLeaf(ch)' <=> childs[ch] = 0
          /\ n # t /\ n # ch => (IsLeaf(n)' <=> IsLeaf(n))
      BY <2>2, BindFacts DEF IsLeaf
    <3>2. CASE leafs' = leafs /\ childs[ch] > 0
      <4>1. ~IsLeaf(t)
        BY <3>2, <2>2 DEF ClientMayBind
      <4>2. Listed(n)' <=> Listed(n)
        BY <3>2
      <4> QED BY <4>1, <4>2, <3>1, <3>2
    <3>3. ASSUME NEW f \in 1 .. Len(leafs), leafs[f] = t, childs[ch] = 0,
                 leafs' = [leafs EXCEPT ![f] = ch]
          PROVE  Listed(n)' <=> IsLeaf(n)'
      <4>1. /\ Len(leafs') = Len(leafs)
            /\ \A j \in 1 .. Len(leafs) : leafs'[j] = IF j = f THEN ch ELSE leafs[j]
        BY <2>2, <3>3, BindFacts, ExceptSeq
      <4>2. \A i \in 1 .. Len(leafs) : leafs[i] = t => i = f
        BY <3>3 DEF IInv, LeafsDistinct
      <4>3. Listed(ch)' /\ ~Listed(t)'
        BY <4>1, <4>2, <2>2, BindFacts
      <4>4. n # t /\ n # ch => (Listed(n)' <=> Listed(n))
        BY <4>1, <3>3
      <4> QED BY <4>3, <4>4, <3>1, <3>3
    <3>4. CASE /\ childs[ch] = 0
               /\ to[t] = 0 \/ \A i \in 1 .. Len(leafs) : leafs[i] # t
               /\ leafs' = Append(leafs, ch)
      <4>1. /\ Len(leafs') = Len(leafs) + 1 /\ Len(leafs) \in Nat
            /\ \A j \in 1 .. Len(leafs) : leafs'[j] = leafs[j]
            /\ leafs'[Len(leafs) + 1] = ch
        BY <2>2, <3>4, BindFacts, AppendProperties
      <4>2. ~Listed(t)
        BY <3>4 DEF IsLeaf
      <4>3. Listed(n)' <=> Listed(n) \/ n = ch
        BY <4>1
      <4> QED BY <4>2, <4>3, <3>1, <3>4
    <3>5. \/ leafs' = leafs /\ childs[ch] > 0
          \/ /\ childs[ch] = 0
             /\ \E f \in 1 .. Len(leafs) :
                  leafs[f] = t /\ leafs' = [leafs EXCEPT ![f] = ch]
          \/ /\ childs[ch] = 0
             /\ to[t] = 0 \/ \A i \in 1 .. Len(leafs) : leafs[i] # t
             /\ leafs' = Append(leafs, ch)
      <4>1. leafs' = LeafsAfter(t, ch) /\ TypeOK
        BY <2>2, BindFacts DEF IInv
      <4> QED BY <4>1, LeafsAfterShape
    <3> HIDE DEF Listed
    <3> QED BY <3>5, <3>2, <3>3, <3>4
  <2> QED BY <2>1, <2>2, TreeSteps
<1>4. Spec => [](IInv /\ Exact)
  <2> HIDE DEF Exact
  <2> QED BY <1>2, <1>3, Inductive, PTL DEF Spec
<1>5. IInv /\ Exact => LeafsExact
  BY <1>1
<1> HIDE DEF Exact
<1> QED BY <1>4, <1>5, PTL

----------------------------------------------------------------------------
(* Sums over sets of entries                                                *)

\* The recursion behind SumFunctionOnSet, over the subsets of U.
SumsOver(U, f, G) ==
    \A s \in SUBSET U :
         G[s] = IF s = {} THEN 0
                ELSE f[CHOOSE x \in s : TRUE] + G[s \ {CHOOSE x \in s : TRUE}]

\* Of every set of numbers that is not empty one is the least.
LEMMA LeastOf ==
    ASSUME NEW T, T \in SUBSET Nat, T # {}
    PROVE  \E n \in T : \A m \in T : n <= m
<1>1. PICK n \in T : \A m \in T : ~(<<m, n>> \in OpToRel(<, Nat))
  BY NatLessThanWellFounded, WFMin
<1>2. \A m \in T : ~(m < n)
  BY <1>1 DEF OpToRel
<1> QED BY <1>2

\* One element less.
LEMMA OneLess ==
    ASSUME NEW s, IsFiniteSet(s), NEW x \in s
    PROVE  /\ IsFiniteSet(s \ {x})
           /\ Cardinality(s) \in Nat /\ Cardinality(s) > 0
           /\ Cardinality(s \ {x}) = Cardinality(s) - 1
BY FS_RemoveElement, FS_EmptySet, FS_CardinalityType

\* Of every set of subsets that is not empty one has no smaller one in it.
LEMMA SmallestOf ==
    ASSUME NEW U, IsFiniteSet(U), NEW W, W \in SUBSET (SUBSET U), W # {}
    PROVE  \E t \in W : \A x \in t : t \ {x} \notin W
<1> DEFINE Sizes == {Cardinality(t) : t \in W}
<1>1. \A t \in W : IsFiniteSet(t) /\ Cardinality(t) \in Nat
  BY FS_Subset, FS_CardinalityType
<1>2. PICK n \in Sizes : \A m \in Sizes : n <= m
  <2>1. Sizes \in SUBSET Nat /\ Sizes # {}
    BY <1>1
  <2> QED BY <2>1, LeastOf
<1>3. PICK t \in W : Cardinality(t) = n
  BY <1>2
<1>4. ASSUME NEW x \in t PROVE t \ {x} \notin W
  <2>1. Cardinality(t \ {x}) = n - 1 /\ n \in Nat
    BY <1>1, <1>3, OneLess
  <2>2. n - 1 \notin Sizes
    BY <1>2, <2>1
  <2> QED BY <2>1, <2>2
<1> QED BY <1>4

\* There is such a function: one for the sets of at most n elements extends to
\* those of n + 1.
LEMMA SumsExist ==
    ASSUME NEW U, IsFiniteSet(U), NEW f \in [U -> Int]
    PROVE  \E G \in [SUBSET U -> Int] : SumsOver(U, f, G)
<1> DEFINE Pick(s) == CHOOSE x \in s : TRUE
           Small(n) == {s \in SUBSET U : Cardinality(s) <= n}
           Does(n, G) == /\ G \in [SUBSET U -> Int]
                         /\ \A s \in Small(n) : G[s] = IF s = {} THEN 0 ELSE f[Pick(s)] + G[s \ {Pick(s)}]
           Bad == {n \in Nat : ~ \E G : Does(n, G)}
<1>1. \A s \in SUBSET U : IsFiniteSet(s) /\ Cardinality(s) \in Nat /\ Cardinality(s) <= Cardinality(U)
  BY FS_Subset, FS_CardinalityType
<1>2. \A s : s # {} => Pick(s) \in s
  OBVIOUS
<1> HIDE DEF Pick
<1>3. Does(0, [s \in SUBSET U |-> 0])
  <2>1. \A s \in Small(0) : s = {}
    BY <1>1, FS_EmptySet
  <2> QED BY <2>1
<1>4. ASSUME NEW n \in Nat, NEW G, Does(n, G) PROVE \E H : Does(n + 1, H)
  <2> DEFINE H == [s \in SUBSET U |-> IF s = {} THEN 0 ELSE f[Pick(s)] + G[s \ {Pick(s)}]]
  <2>1. \A s \in SUBSET U : s # {} => Pick(s) \in U /\ s \ {Pick(s)} \in SUBSET U
    BY <1>2
  <2>2. H \in [SUBSET U -> Int]
    BY <2>1, <1>4
  <2>3. ASSUME NEW s \in Small(n) PROVE H[s] = G[s]
    BY <1>4
  <2>4. ASSUME NEW s \in Small(n + 1), s # {} PROVE s \ {Pick(s)} \in Small(n)
    <3>1. Cardinality(s \ {Pick(s)}) = Cardinality(s) - 1 /\ Cardinality(s) \in Nat
      BY <1>1, <1>2, <2>4, OneLess
    <3> QED BY <3>1, <2>1, <2>4
  <2>5. ASSUME NEW s \in Small(n + 1)
        PROVE  H[s] = IF s = {} THEN 0 ELSE f[Pick(s)] + H[s \ {Pick(s)}]
    BY <2>3, <2>4
  <2> QED BY <2>2, <2>5
<1>5. Bad = {}
  <2> SUFFICES ASSUME Bad # {} PROVE FALSE
    OBVIOUS
  <2>1. PICK n \in Bad : \A m \in Bad : n <= m
    BY LeastOf
  <2> HIDE DEF Does
  <2>2. n # 0
    BY <1>3
  <2>3. n - 1 \in Nat /\ n - 1 \notin Bad
    BY <2>1, <2>2
  <2>4. PICK G : Does(n - 1, G)
    BY <2>3
  <2>5. \E H : Does((n - 1) + 1, H)
    BY <1>4, <2>3, <2>4
  <2>6. (n - 1) + 1 = n
    BY <2>1
  <2> QED BY <2>1, <2>5, <2>6
<1>6. PICK G : Does(Cardinality(U), G)
  <2> HIDE DEF Does
  <2> QED BY <1>5, FS_CardinalityType
<1>7. \A s \in SUBSET U : s \in Small(Cardinality(U))
  BY <1>1
<1>8. G \in [SUBSET U -> Int] /\ SumsOver(U, f, G)
  BY <1>6, <1>7 DEF SumsOver, Pick
<1> QED BY <1>8

\* And one only, also on the subsets of a smaller set.
LEMMA SumsAgree ==
    ASSUME NEW U, IsFiniteSet(U), NEW V \in SUBSET U, NEW f \in [U -> Int],
           NEW G, SumsOver(U, f, G), NEW H, SumsOver(V, f, H), NEW s \in SUBSET V
    PROVE  H[s] = G[s]
<1> DEFINE Pick(t) == CHOOSE x \in t : TRUE
           Wrong == {t \in SUBSET V : H[t] # G[t]}
<1>1. \A t : t # {} => Pick(t) \in t
  OBVIOUS
<1>2. \A t \in SUBSET V : /\ t \in SUBSET U
                          /\ G[t] = IF t = {} THEN 0 ELSE f[Pick(t)] + G[t \ {Pick(t)}]
                          /\ H[t] = IF t = {} THEN 0 ELSE f[Pick(t)] + H[t \ {Pick(t)}]
  BY DEF SumsOver
<1> HIDE DEF Pick
<1>3. ASSUME Wrong # {} PROVE FALSE
  <2>1. PICK t \in Wrong : \A x \in t : t \ {x} \notin Wrong
    <3>1. IsFiniteSet(V) /\ Wrong \in SUBSET (SUBSET V)
      BY FS_Subset
    <3> HIDE DEF Wrong
    <3> QED BY <1>3, <3>1, SmallestOf
  <2>2. t # {}
    BY <1>2
  <2>3. t \ {Pick(t)} \notin Wrong
    BY <1>1, <2>1, <2>2
  <2>4. H[t \ {Pick(t)}] = G[t \ {Pick(t)}]
    BY <2>3
  <2> QED BY <1>2, <2>2, <2>4
<1> QED BY <1>3

LEMMA SumIs ==
    ASSUME NEW U, IsFiniteSet(U), NEW f \in [U -> Int], NEW G, SumsOver(U, f, G),
           NEW S \in SUBSET U
    PROVE  SumFunctionOnSet(f, S) = G[S]
<1> DEFINE Body(g) == [s \in SUBSET S |-> IF s = {} THEN 0
                          ELSE f[CHOOSE x \in s : TRUE] + g[s \ {CHOOSE x \in s : TRUE}]]
           iter == CHOOSE g : g = Body(g)
<1>1. SumFunctionOnSet(f, S) = iter[S]
  BY DEF SumFunctionOnSet, FoldFunctionOnSet, MapThenFoldSet
<1> DEFINE H == [s \in SUBSET S |-> G[s]]
<1>2. H = Body(H)
  BY DEF SumsOver
<1>3. iter = Body(iter)
  BY <1>2
<1> HIDE DEF iter
<1>4. SumsOver(S, f, iter)
  <2>1. \A s \in SUBSET S : iter[s] = Body(iter)[s]
    BY <1>3
  <2> QED BY <2>1 DEF SumsOver
<1> QED BY <1>1, <1>4, SumsAgree

\* The value of the sum does not depend on the element that is taken first.
LEMMA SumStep ==
    ASSUME NEW U, IsFiniteSet(U), NEW f \in [U -> Int], NEW S \in SUBSET U, NEW x \in S
    PROVE  SumFunctionOnSet(f, S) = f[x] + SumFunctionOnSet(f, S \ {x})
<1>1. PICK G \in [SUBSET U -> Int] : SumsOver(U, f, G)
  BY SumsExist
<1> DEFINE Pick(t) == CHOOSE y \in t : TRUE
           Fails(t) == \E y \in t : G[t] # f[y] + G[t \ {y}]
           Wrong == {t \in SUBSET U : Fails(t)}
<1>2. \A t \in SUBSET U : t # {} => Pick(t) \in t /\ G[t] = f[Pick(t)] + G[t \ {Pick(t)}]
  BY <1>1 DEF SumsOver
<1> HIDE DEF Pick
<1>3. ASSUME Wrong # {} PROVE FALSE
  <2>1. PICK t \in Wrong : \A q \in t : t \ {q} \notin Wrong
    <3>1. Wrong \in SUBSET (SUBSET U)
      OBVIOUS
    <3> HIDE DEF Wrong
    <3> QED BY <1>3, <3>1, SmallestOf
  <2>2. PICK y \in t : G[t] # f[y] + G[t \ {y}]
    OBVIOUS
  <2>3. PICK p \in t : p # y /\ G[t] = f[p] + G[t \ {p}]
    BY <1>2, <2>2
  <2>4. ASSUME NEW q \in t PROVE ~Fails(t \ {q})
    BY <2>1
  <2>5. y \in t \ {p} /\ p \in t \ {y}
    BY <2>2, <2>3
  <2>6. G[t \ {p}] = f[y] + G[(t \ {p}) \ {y}] /\ G[t \ {y}] = f[p] + G[(t \ {y}) \ {p}]
    BY <2>4, <2>5
  <2>7. (t \ {p}) \ {y} = (t \ {y}) \ {p} /\ (t \ {y}) \ {p} \in SUBSET U /\ y \in U /\ p \in U
    OBVIOUS
  <2>8. G[(t \ {y}) \ {p}] \in Int /\ f[y] \in Int /\ f[p] \in Int
    BY <1>1, <2>7
  <2>9. G[t] = f[y] + G[t \ {y}]
    <3> DEFINE r == G[(t \ {y}) \ {p}]
    <3>1. G[t \ {p}] = f[y] + r /\ G[t \ {y}] = f[p] + r /\ r \in Int
      BY <2>6, <2>7, <2>8
    <3> HIDE DEF r
    <3> QED BY <2>3, <2>8, <3>1
  <2> QED BY <2>2, <2>9
<1>4. G[S] = f[x] + G[S \ {x}]
  BY <1>3
<1>5. SumFunctionOnSet(f, S) = G[S] /\ SumFunctionOnSet(f, S \ {x}) = G[S \ {x}]
  <2>1. S \ {x} \in SUBSET U
    OBVIOUS
  <2> QED BY <1>1, <2>1, SumIs
<1> QED BY <1>4, <1>5

LEMMA SumType ==
    ASSUME NEW U, IsFiniteSet(U), NEW f \in [U -> Int], NEW S \in SUBSET U
    PROVE  SumFunctionOnSet(f, S) \in Int /\ SumFunctionOnSet(f, {}) = 0
<1>1. PICK G \in [SUBSET U -> Int] : SumsOver(U, f, G)
  BY SumsExist
<1>2. {} \in SUBSET U
  OBVIOUS
<1>3. SumFunctionOnSet(f, S) = G[S] /\ SumFunctionOnSet(f, {}) = G[{}]
  BY <1>1, <1>2, SumIs
<1>4. G[{}] = 0
  BY <1>1, <1>2 DEF SumsOver
<1> QED BY <1>1, <1>3, <1>4

LEMMA SumOne ==
    ASSUME NEW U, IsFiniteSet(U), NEW f \in [U -> Int], NEW n \in U
    PROVE  SumFunctionOnSet(f, {n}) = f[n]
<1>1. SumFunctionOnSet(f, {n}) = f[n] + SumFunctionOnSet(f, {n} \ {n})
  BY SumStep
<1>2. {n} \ {n} = {}
  OBVIOUS
<1>3. SumFunctionOnSet(f, {n}) = f[n] + SumFunctionOnSet(f, {})
  BY <1>1, <1>2
<1>4. SumFunctionOnSet(f, {}) = 0
  BY SumType
<1>5. f[n] \in Int
  OBVIOUS
<1> QED BY <1>3, <1>4, <1>5

\* The sum over two sets without a common element.
LEMMA SumUnion ==
    ASSUME NEW U, IsFiniteSet(U), NEW f \in [U -> Int],
           NEW S \in SUBSET U, NEW T \in SUBSET U, S \cap T = {}
    PROVE  SumFunctionOnSet(f, S \cup T) = SumFunctionOnSet(f, S) + SumFunctionOnSet(f, T)
<1> DEFINE Sum(t) == SumFunctionOnSet(f, t)
           Apart(t) == t \cap S = {} => Sum(S \cup t) = Sum(S) + Sum(t)
           Wrong == {t \in SUBSET U : ~Apart(t)}
<1>1. \A t \in SUBSET U : Sum(t) \in Int /\ \A x \in t : Sum(t) = f[x] + Sum(t \ {x})
  BY SumStep, SumType
<1>2. Sum({}) = 0
  BY SumType
<1> HIDE DEF Sum
<1>3. ASSUME Wrong # {} PROVE FALSE
  <2>1. PICK t \in Wrong : \A x \in t : t \ {x} \notin Wrong
    <3>1. Wrong \in SUBSET (SUBSET U)
      OBVIOUS
    <3> HIDE DEF Wrong
    <3> QED BY <1>3, <3>1, SmallestOf
  <2>2. t \in SUBSET U /\ ~Apart(t)
    OBVIOUS
  <2>3. Apart({})
    <3>1. S \cup {} = S /\ Sum(S) \in Int
      BY <1>1
    <3> QED BY <1>2, <3>1
  <2>4. PICK x : x \in t
    BY <2>2, <2>3
  <2>5. Apart(t \ {x})
    BY <2>1, <2>2, <2>4
  <2>6. (S \cup t) \ {x} = S \cup (t \ {x}) /\ x \in S \cup t /\ S \cup t \in SUBSET U
        /\ (t \ {x}) \cap S = {}
    BY <2>2, <2>4
  <2>7. Sum(S \cup t) = f[x] + Sum(S \cup (t \ {x})) /\ Sum(t) = f[x] + Sum(t \ {x})
    BY <1>1, <2>2, <2>4, <2>6
  <2>8. Sum(S \cup (t \ {x})) = Sum(S) + Sum(t \ {x})
    BY <2>5, <2>6
  <2>9. f[x] \in Int /\ Sum(S) \in Int /\ Sum(t \ {x}) \in Int
    BY <1>1, <2>2, <2>4
  <2>10. Sum(S \cup t) = Sum(S) + Sum(t)
    BY <2>7, <2>8, <2>9
  <2> QED BY <2>2, <2>10
<1>4. Apart(T)
  BY <1>3
<1> QED BY <1>4 DEF Sum

----------------------------------------------------------------------------
(* Without loops and late inner binds, a merge leaves nothing half done    *)

\* The entries bound to n.
Bound(n) == {m \in Id : to[m] = n}

\* No loop: every set of entries has one that no entry of the set is bound to.
Acyclic ==
    \A U \in SUBSET Id : U # {} => \E n \in U : \A m \in U : to[m] # n

LEMMA BindAcyclic ==
    ASSUME IInv, Acyclic, NEW t \in Id, NEW ch \in Id, BindMerge(t, ch), ch \notin Above(t)
    PROVE  Acyclic'
<1>1. PICK S \in SUBSET Id : t \in S /\ Closed(S) /\ ch \notin S
  BY DEF Above
<1>2. to'[ch] = t /\ \A n \in Id : n # ch => to'[n] = to[n]
  BY BindFacts
<1>3. ASSUME NEW U \in SUBSET Id, U # {}
      PROVE  \E n \in U : \A m \in U : to'[m] # n
  <2>1. CASE U \subseteq S
    <3>1. PICK n \in U : \A m \in U : to[m] # n
      BY <1>3 DEF Acyclic
    <3> QED BY <3>1, <2>1, <1>1, <1>2
  <2>2. CASE ~(U \subseteq S)
    <3>1. U \ S \in SUBSET Id /\ U \ S # {}
      BY <2>2
    <3>2. PICK n \in U \ S : \A m \in U \ S : to[m] # n
      BY <3>1 DEF Acyclic
    <3>3. ASSUME NEW m \in U PROVE to'[m] # n
      <4>1. n # 0 /\ n # t
        BY <3>2, <1>1, IdFacts
      <4>2. CASE m = ch
        BY <4>1, <4>2, <1>2
      <4>3. CASE m # ch /\ m \in S
        BY <4>1, <4>3, <1>1, <1>2, <3>2 DEF Closed
      <4>4. CASE m # ch /\ m \notin S
        BY <4>4, <1>2, <3>2
      <4> QED BY <4>2, <4>3, <4>4
    <3> QED BY <3>2, <3>3
  <2> QED BY <2>1, <2>2
<1> QED BY <1>3 DEF Acyclic

----------------------------------------------------------------------------
(* Ancestors and descendants                                               *)

Links == to \in [Id -> Id0]

LEMMA AboveClosed ==
    ASSUME Links, NEW n \in Id
    PROVE  n \in Above(n) /\ Above(n) \in SUBSET Id /\ Closed(Above(n))
<1>1. n \in Above(n) /\ Above(n) \in SUBSET Id
  BY DEF Above
<1>2. ASSUME NEW m \in Above(n), to[m] # 0 PROVE to[m] \in Above(n)
  <2>1. to[m] \in Id
    BY <1>1, <1>2, IdFacts DEF Links
  <2>2. ASSUME NEW S \in SUBSET Id, n \in S, Closed(S) PROVE to[m] \in S
    <3>1. m \in S
      BY <2>2 DEF Above
    <3> QED BY <1>2, <2>2, <3>1 DEF Closed
  <2> QED BY <2>1, <2>2 DEF Above
<1> QED BY <1>1, <1>2 DEF Closed

LEMMA AboveLeast ==
    ASSUME NEW n \in Id, NEW S \in SUBSET Id, n \in S, Closed(S)
    PROVE  Above(n) \subseteq S
BY DEF Above

\* Above an entry is the entry, and what is above the one it is bound to.
LEMMA AboveStep ==
    ASSUME Links, NEW n \in Id, to[n] # 0
    PROVE  to[n] \in Id /\ Above(n) = {n} \cup Above(to[n])
<1>1. to[n] \in Id
  BY IdFacts DEF Links
<1>2. Above(to[n]) \subseteq Above(n)
  BY <1>1, AboveClosed, AboveLeast DEF Closed
<1>3. Above(n) \subseteq {n} \cup Above(to[n])
  <2> DEFINE S == {n} \cup Above(to[n])
  <2>1. S \in SUBSET Id /\ n \in S /\ Closed(S)
    BY <1>1, AboveClosed DEF Closed
  <2> HIDE DEF S
  <2>2. Above(n) \subseteq S
    BY <2>1, AboveLeast
  <2> QED BY <2>2 DEF S
<1> QED BY <1>1, <1>2, <1>3, AboveClosed

\* Without loops no entry is above the one it is bound to.
LEMMA NoLoop ==
    ASSUME Links, Acyclic, NEW n \in Id, to[n] # 0
    PROVE  n \notin Above(to[n])
<1> SUFFICES ASSUME n \in Above(to[n]) PROVE FALSE
  OBVIOUS
<1> DEFINE U == Above(to[n])
<1>1. to[n] \in Id /\ n \in U /\ to[n] \in U /\ U = Above(n) /\ U \in SUBSET Id /\ Closed(U)
  BY AboveStep, AboveClosed
<1> HIDE DEF U
<1>2. PICK p \in U : \A m \in U : to[m] # p
  BY <1>1 DEF Acyclic
<1>3. U \ {p} \in SUBSET Id /\ Closed(U \ {p})
  BY <1>1, <1>2 DEF Closed
<1>4. CASE p # n
  <2>1. n \in U \ {p}
    BY <1>1, <1>4
  <2>2. Above(n) \subseteq U \ {p}
    BY <1>3, <2>1, AboveLeast
  <2> QED BY <1>1, <1>2, <2>2
<1>5. CASE p = n
  <2>1. to[n] \in U \ {p}
    BY <1>1, <1>2, <1>5
  <2>2. Above(to[n]) \subseteq U \ {p}
    BY <1>1, <1>3, <2>1, AboveLeast
  <2> QED BY <1>1, <1>2, <2>2 DEF U
<1> QED BY <1>4, <1>5

\* What is merged into an entry, itself included.
Under(n) == {x \in Id : n \in Above(x)}

\* Under an entry are the entry and what is under the entries bound to it, ...
LEMMA UnderSplits ==
    ASSUME Links, NEW n \in Id
    PROVE  /\ Under(n) \in SUBSET Id
           /\ Under(n) = {n} \cup UNION {Under(m) : m \in Bound(n)}
<1>1. Under(n) \in SUBSET Id /\ n \in Under(n)
  BY AboveClosed DEF Under
<1>2. ASSUME NEW x \in Under(n), x # n PROVE \E m \in Bound(n) : x \in Under(m)
  <2>1. x \in Id /\ n \in Above(x)
    BY DEF Under
  <2>2. SUFFICES ASSUME \A m \in Bound(n) : m \notin Above(x) PROVE FALSE
    BY <2>1 DEF Under
  <2> DEFINE S == Above(x) \ {n}
  <2>3. x \in Above(x) /\ Above(x) \in SUBSET Id /\ Closed(Above(x))
    BY <2>1, AboveClosed
  <2>4. S \in SUBSET Id /\ x \in S
    BY <1>2, <2>3
  <2>5. Closed(S)
    BY <2>2, <2>3 DEF Closed, Bound
  <2> HIDE DEF S
  <2>6. Above(x) \subseteq S
    BY <2>1, <2>4, <2>5, AboveLeast
  <2> QED BY <2>1, <2>6 DEF S
<1>3. ASSUME NEW m \in Bound(n), NEW x \in Under(m) PROVE x \in Under(n)
  <2>1. m \in Id /\ to[m] = n /\ n # 0 /\ x \in Id /\ m \in Above(x)
    BY IdFacts DEF Bound, Under
  <2>2. Closed(Above(x))
    BY <2>1, AboveClosed
  <2>3. n \in Above(x)
    BY <2>1, <2>2 DEF Closed
  <2> QED BY <2>1, <2>3 DEF Under
<1> QED BY <1>1, <1>2, <1>3

\* ... of which no two share an entry.
LEMMA UnderApart ==
    ASSUME Links, Acyclic, NEW n \in Id, NEW h \in Bound(n)
    PROVE  /\ n \notin Under(h)
           /\ \A m \in Bound(n) : m # h => Under(m) \cap Under(h) = {}
<1>1. h \in Id /\ to[h] = n /\ n # 0
  BY IdFacts DEF Bound
<1>2. n \notin Under(h)
  BY <1>1, NoLoop DEF Under
<1>3. ASSUME NEW p \in Bound(n), NEW q \in Bound(n), p # q PROVE p \notin Above(q)
  <2>1. p \in Id /\ to[p] = n /\ q \in Id /\ to[q] = n /\ n # 0
    BY IdFacts DEF Bound
  <2>2. Above(q) = {q} \cup Above(n) /\ p \notin Above(n)
    BY <2>1, AboveStep, NoLoop
  <2> QED BY <1>3, <2>2
<1>4. ASSUME NEW m \in Bound(n), m # h, NEW x \in Under(m), x \in Under(h) PROVE FALSE
  <2>1. x \in Id /\ m \in Above(x) /\ h \in Above(x) /\ m \in Id
    BY <1>4 DEF Under, Bound
  <2> DEFINE S == {y \in Above(x) : m \in Above(y) \/ y \in Above(m)}
  <2>2. x \in Above(x) /\ Above(x) \in SUBSET Id /\ Closed(Above(x))
    BY <2>1, AboveClosed
  <2>3. S \in SUBSET Id /\ x \in S
    BY <2>1, <2>2
  <2>4. ASSUME NEW y \in S, to[y] # 0 PROVE to[y] \in S
    <3>1. y \in Id /\ to[y] \in Above(x)
      BY <2>2, <2>4 DEF Closed
    <3>2. Above(y) = {y} \cup Above(to[y])
      BY <2>4, <3>1, AboveStep
    <3>3. m \in Above(m) /\ Closed(Above(m))
      BY <2>1, AboveClosed
    <3> QED BY <2>4, <3>1, <3>2, <3>3 DEF Closed
  <2>5. Closed(S)
    BY <2>4 DEF Closed
  <2> HIDE DEF S
  <2>6. Above(x) \subseteq S
    BY <2>1, <2>3, <2>5, AboveLeast
  <2>7. m \in Above(h) \/ h \in Above(m)
    BY <2>1, <2>6 DEF S
  <2> QED BY <1>3, <1>4, <2>7
<1> QED BY <1>2, <1>4

\* The entries whose amounts have reached n once those of A have arrived.
Reached(n, A) == {n} \cup UNION {Under(m) : m \in A}

LEMMA ReachedMore ==
    ASSUME Links, Acyclic, NEW n \in Id, NEW A \in SUBSET Bound(n), NEW h \in Bound(n), h \notin A
    PROVE  /\ Reached(n, A \cup {h}) = Reached(n, A) \cup Under(h)
           /\ Reached(n, A) \cap Under(h) = {}
           /\ Reached(n, A) \in SUBSET Id /\ Under(h) \in SUBSET Id
<1>1. n \notin Under(h) /\ \A m \in A : Under(m) \cap Under(h) = {}
  BY UnderApart
<1>2. Reached(n, A) \in SUBSET Id /\ Under(h) \in SUBSET Id
  BY DEF Reached, Under
<1> QED BY <1>1, <1>2 DEF Reached

\* How far the call is. D: the entries it is done with; h: the one whose amount
\* is on its way to cur (0 between two climbs). An entry of the forest is done
\* after what is bound to it; merged counts the done entries that have arrived.
Progress(D, h, first) ==
    /\ D \in SUBSET Id
    /\ \A n \in D : merged[n] = 0 /\ Bound(n) \subseteq D
    /\ \A n \in D : Bound(n) # {} \/ to[n] # 0
    /\ \A n \in Id : n \notin D => merged[n] = Cardinality((Bound(n) \cap D) \ {h})
    /\ \A n \in Id : n \notin D /\ childs[n] > 0 => merged[n] < childs[n]
    /\ \A i \in 1 .. Len(leafs) : leafs[i] \in D <=> i < first

\* What was pending of kind k at the entries S when the call began.
Owed(k, S) == SumFunctionOnSet([m \in Id |-> snap[k][m].t_u], S)

\* An entry the call is done with: a leaf has given its amount away, another
\* has kept the total of what is under it.
Kept(k, n) ==
    IF Bound(n) = {} THEN [snap[k][n] EXCEPT !.t_u = 0]
    ELSE Flushed(snap[k][n], Owed(k, Under(n)))

\* An entry the call is not done with: what has arrived is pending.
Waiting(k, n, A) == [snap[k][n] EXCEPT !.t_u = Owed(k, Reached(n, A))]

\* The data of a running call, in the terms of Progress.
Paid(D, h) ==
    \A k \in Kind, n \in Id :
        data[k][n] = IF n \in D THEN Kept(k, n)
                     ELSE Waiting(k, n, (Bound(n) \cap D) \ {h})

MergeInv ==
    /\ pc = "idle" => \A n \in Id : merged[n] = 0
    /\ pc = "leaf" => \E D \in SUBSET Id : Progress(D, 0, li) /\ Paid(D, 0)
    /\ pc = "up" => \E D \in SUBSET Id, h \in Id :
                      /\ Progress(D, h, li + 1) /\ Paid(D, h)
                      /\ h \in D /\ to[h] = cur /\ cur \notin D
                      /\ \A k \in Kind : app[k] = Owed(k, Under(h))

\* What the earlier theorems give.
Base == IInv /\ ChildsExact /\ LeafsExact /\ Acyclic

LEMMA BaseFacts ==
    ASSUME Base
    PROVE  /\ Links /\ Acyclic
           /\ \A k \in Kind, n \in Id : data[k][n] \in Stat /\ snap[k][n] \in Stat
           /\ data \in [Kind -> [Id -> Stat]] /\ snap \in [Kind -> [Id -> Stat]]
           /\ \A k \in Kind : [m \in Id |-> snap[k][m].t_u] \in [Id -> Int]
BY DEF Base, IInv, TypeOK, Links, Stat

LEMMA BoundFinite ==
    ASSUME NEW n
    PROVE  IsFiniteSet(Bound(n)) /\ Cardinality(Bound(n)) \in Nat
<1>1. Bound(n) \in SUBSET Id
  BY DEF Bound
<1> QED BY <1>1, IdCount, FS_Subset, FS_CardinalityType

\* Nothing but the entry's own amount is there before anything has arrived.
LEMMA OwedOne ==
    ASSUME Base, NEW k \in Kind, NEW n \in Id
    PROVE  Owed(k, {n}) = snap[k][n].t_u /\ Reached(n, {}) = {n}
<1> DEFINE f == [m \in Id |-> snap[k][m].t_u]
<1>1. f \in [Id -> Int] /\ f[n] = snap[k][n].t_u /\ f[n] \in Int /\ {n} \in SUBSET Id
  BY BaseFacts
<1> HIDE DEF f
<1>2. SumFunctionOnSet(f, {n}) = f[n]
  BY <1>1, IdCount, SumOne
<1> QED BY <1>1, <1>2 DEF Owed, f, Reached

\* What arrives from h adds the total of what is under h.
LEMMA OwedMore ==
    ASSUME Base, NEW k \in Kind, NEW n \in Id,
           NEW A \in SUBSET Bound(n), NEW h \in Bound(n), h \notin A
    PROVE  /\ Owed(k, Reached(n, A \cup {h})) = Owed(k, Reached(n, A)) + Owed(k, Under(h))
           /\ Owed(k, Reached(n, A)) \in Int /\ Owed(k, Under(h)) \in Int
<1> DEFINE f == [m \in Id |-> snap[k][m].t_u]
           S == Reached(n, A)
           T == Under(h)
<1>1. f \in [Id -> Int]
  BY BaseFacts
<1>2. Reached(n, A \cup {h}) = S \cup T /\ S \cap T = {} /\ S \in SUBSET Id /\ T \in SUBSET Id
  BY BaseFacts, ReachedMore
<1> HIDE DEF f, S, T
<1>3. /\ SumFunctionOnSet(f, S \cup T) = SumFunctionOnSet(f, S) + SumFunctionOnSet(f, T)
      /\ SumFunctionOnSet(f, S) \in Int /\ SumFunctionOnSet(f, T) \in Int
  BY <1>1, <1>2, IdCount, SumUnion, SumType
<1> QED BY <1>2, <1>3 DEF Owed, f, S, T

\* All there is under n has arrived when everything bound to it has.
LEMMA ReachedAll ==
    ASSUME Base, NEW n \in Id
    PROVE  Reached(n, Bound(n)) = Under(n)
BY BaseFacts, UnderSplits DEF Reached

\* The forest and the amounts at the call stay as they are while it runs.
LEMMA Frame ==
    ASSUME UNCHANGED <<to, snap>>
    PROVE  /\ \A n : Bound(n)' = Bound(n) /\ Under(n)' = Under(n)
           /\ \A n, A : Reached(n, A)' = Reached(n, A)
           /\ \A k, S : Owed(k, S)' = Owed(k, S)
           /\ \A k, n : Kept(k, n)' = Kept(k, n)
           /\ \A k, n, A : Waiting(k, n, A)' = Waiting(k, n, A)
<1>1. \A n : Bound(n)' = Bound(n) /\ Under(n)' = Under(n)
  BY DEF Bound, Under, Above, Closed
<1>2. \A n, A : Reached(n, A)' = Reached(n, A)
  BY <1>1 DEF Reached
<1>3. \A k, S : Owed(k, S)' = Owed(k, S)
  BY DEF Owed
<1>4. \A k, n : Kept(k, n)' = Kept(k, n)
  BY <1>1, <1>3 DEF Kept
<1>5. \A k, n, A : Waiting(k, n, A)' = Waiting(k, n, A)
  BY <1>2, <1>3 DEF Waiting
<1> QED BY <1>1, <1>2, <1>3, <1>4, <1>5

LEMMA BeginsClean ==
    ASSUME Base, MergeInv, MergeBegin
    PROVE  MergeInv'
<1>1. /\ pc = "idle" /\ pc' = "leaf" /\ li' = 1
      /\ UNCHANGED <<active, to, childs, leafs, merged>>
      /\ data' = data /\ snap' = data
  BY DEF MergeBegin, tree
<1>2. \A n \in Id : merged[n] = 0
  BY <1>1 DEF MergeInv
<1>3. \A n \in Id : childs[n] \in Nat
  BY DEF Base, IInv, TypeOK
<1>4. Len(leafs) \in Nat
  BY LenProperties DEF Base, IInv, TypeOK
<1>5. Progress({}, 0, 1)'
  <2>1. \A n \in Id : Cardinality((Bound(n)' \cap {}) \ {0}) = 0
    <3>1. \A S : (S \cap {}) \ {0} = {}
      OBVIOUS
    <3> QED BY <3>1, FS_EmptySet
  <2>2. \A n \in Id : merged'[n] = 0 /\ childs'[n] = childs[n]
    BY <1>1, <1>2
  <2>3. \A i \in 1 .. Len(leafs)' : leafs'[i] \in {} <=> i < 1
    BY <1>1, <1>4
  <2> QED BY <1>3, <2>1, <2>2, <2>3 DEF Progress
<1>6. Paid({}, 0)'
  <2> SUFFICES ASSUME NEW k \in Kind, NEW n \in Id
               PROVE  data'[k][n] = Waiting(k, n, (Bound(n) \cap {}) \ {0})'
    BY DEF Paid
  <2> DEFINE f == [m \in Id |-> data[k][m].t_u]
  <2>1. (Bound(n)' \cap {}) \ {0} = {} /\ Reached(n, {})' = {n}
    BY DEF Reached
  <2>2. f \in [Id -> Int] /\ f[n] = data[k][n].t_u /\ f[n] \in Int /\ {n} \in SUBSET Id
    BY BaseFacts DEF Stat
  <2>3. Owed(k, {n})' = SumFunctionOnSet(f, {n})
    BY <1>1 DEF Owed
  <2> HIDE DEF f
  <2>4. SumFunctionOnSet(f, {n}) = f[n]
    BY <2>2, IdCount, SumOne
  <2>5. Owed(k, {n})' = data[k][n].t_u
    BY <2>2, <2>3, <2>4
  <2>6. data[k][n] = [data[k][n] EXCEPT !.t_u = data[k][n].t_u]
    BY BaseFacts DEF Stat
  <2>7. Waiting(k, n, {})' = [data[k][n] EXCEPT !.t_u = data[k][n].t_u]
    BY <1>1, <2>1, <2>5 DEF Waiting
  <2> QED BY <1>1, <2>1, <2>6, <2>7
<1> QED BY <1>1, <1>5, <1>6 DEF MergeInv

LEMMA LeafKeepsCount ==
    ASSUME Base, MergeInv, MergeLeaf
    PROVE  MergeInv'
<1>1. PICK g : g = leafs[li]
  OBVIOUS
<1>2. /\ pc = "leaf" /\ pc' = "up" /\ li' = li /\ cur' = to[g]
      /\ UNCHANGED <<active, to, childs, leafs, merged, snap>>
      /\ li \in 1 .. Len(leafs) /\ leafs \in Seq(Id) /\ Len(leafs) \in Nat
      /\ app' = [k \in Kind |-> data[k][g].t_u]
      /\ data' = [k \in Kind |-> [data[k] EXCEPT ![g].t_u = 0]]
  BY <1>1, LenProperties DEF MergeLeaf, tree, Base, IInv, TypeOK
<1>3. PICK D \in SUBSET Id : Progress(D, 0, li) /\ Paid(D, 0)
  BY <1>2 DEF MergeInv
<1>4. g \in Id /\ g \notin D /\ to[g] # 0 /\ childs[g] = 0
  <2>1. g \in Id
    BY <1>1, <1>2, ElementOfSeq
  <2>2. g \notin D
    BY <1>1, <1>2, <1>3 DEF Progress
  <2>3. IsLeaf(g)
    BY <1>1, <1>2, <2>1 DEF Base, LeafsExact
  <2> QED BY <2>1, <2>2, <2>3 DEF IsLeaf
<1>5. Bound(g) = {}
  <2>1. Cardinality(Bound(g)) = 0
    BY <1>4 DEF Base, ChildsExact, Bound
  <2> QED BY <2>1, BoundFinite, FS_EmptySet
<1>6. merged[g] = 0
  <2>1. merged[g] = Cardinality((Bound(g) \cap D) \ {0})
    BY <1>3, <1>4 DEF Progress
  <2>2. (Bound(g) \cap D) \ {0} = {}
    BY <1>5
  <2> QED BY <2>1, <2>2, FS_EmptySet
<1>7. PICK F : F = D \cup {g}
  OBVIOUS
<1>8. \A n : Bound(n)' = Bound(n)
  BY <1>2 DEF Bound
<1>9. ASSUME NEW n \in Id, n \notin F
      PROVE  (Bound(n) \cap F) \ {g} = (Bound(n) \cap D) \ {0}
  BY <1>4, <1>9, <1>7, IdFacts
<1>10. Progress(F, g, li + 1)'
  <2>1. F \in SUBSET Id
    BY <1>4, <1>7
  <2>2. \A n \in F : merged'[n] = 0 /\ Bound(n)' \subseteq F
    BY <1>2, <1>3, <1>5, <1>6, <1>8, <1>7 DEF Progress
  <2>3. \A n \in F : Bound(n)' # {} \/ to'[n] # 0
    BY <1>2, <1>3, <1>4, <1>8, <1>7 DEF Progress
  <2>4. ASSUME NEW n \in Id, n \notin F
        PROVE  merged'[n] = Cardinality((Bound(n)' \cap F) \ {g})
    <3>1. merged'[n] = Cardinality((Bound(n) \cap D) \ {0})
      BY <1>2, <1>3, <1>7, <2>4 DEF Progress
    <3> QED BY <1>8, <1>9, <2>4, <3>1
  <2>5. \A n \in Id : n \notin F /\ childs'[n] > 0 => merged'[n] < childs'[n]
    BY <1>2, <1>3, <1>7 DEF Progress
  <2>6. ASSUME NEW i \in 1 .. Len(leafs)
        PROVE  leafs[i] \in F <=> i < li + 1
    <3>1. leafs[i] \in D <=> i < li
      BY <1>3 DEF Progress
    <3>2. leafs[i] = g <=> i = li
      BY <1>1, <1>2 DEF Base, IInv, LeafsDistinct
    <3> QED BY <1>2, <1>7, <3>1, <3>2
  <2> QED BY <1>2, <2>1, <2>2, <2>4, <2>5, <2>6, <2>3 DEF Progress
<1>11. to[g] \notin D /\ to[g] # g
  <2>1. to[g] \notin D
    BY <1>3, <1>4 DEF Progress, Bound
  <2>2. to[g] # g
    BY <1>4, <1>5 DEF Bound
  <2> QED BY <2>1, <2>2
<1>12. F \in SUBSET Id /\ g \in F /\ to'[g] = cur' /\ cur' \notin F
  BY <1>2, <1>4, <1>11, <1>7
<1>13. ASSUME NEW k \in Kind
       PROVE  data[k][g] = snap[k][g] /\ Under(g) = {g} /\ Owed(k, {g}) = snap[k][g].t_u
  <2>1. Owed(k, {g}) = snap[k][g].t_u /\ Reached(g, {}) = {g}
    BY <1>4, OwedOne
  <2>2. Under(g) = {g}
    BY <1>4, <1>5, <2>1, ReachedAll
  <2>3. data[k][g] = Waiting(k, g, {})
    <3>1. (Bound(g) \cap D) \ {0} = {}
      BY <1>5
    <3> QED BY <1>3, <1>4, <3>1 DEF Paid
  <2>4. snap[k][g] = [snap[k][g] EXCEPT !.t_u = snap[k][g].t_u]
    BY <1>4, BaseFacts DEF Stat
  <2> QED BY <2>1, <2>2, <2>3, <2>4 DEF Waiting
<1>14. Paid(F, g)'
  <2> SUFFICES ASSUME NEW k \in Kind, NEW n \in Id
               PROVE  data'[k][n] = IF n \in F THEN Kept(k, n)'
                                    ELSE Waiting(k, n, (Bound(n) \cap F) \ {g})'
    BY DEF Paid
  <2>1. data'[k][n] = IF n = g THEN [data[k][g] EXCEPT !.t_u = 0] ELSE data[k][n]
    BY <1>2, <1>4, BaseFacts
  <2>2. Kept(k, n)' = Kept(k, n) /\ \A A : Waiting(k, n, A)' = Waiting(k, n, A)
    BY <1>2, Frame
  <2>3. CASE n = g
    <3>1. Kept(k, g) = [snap[k][g] EXCEPT !.t_u = 0]
      BY <1>5 DEF Kept
    <3> QED BY <1>7, <1>13, <2>1, <2>2, <2>3, <3>1
  <2>4. CASE n # g /\ n \in D
    BY <1>3, <1>7, <2>1, <2>2, <2>4 DEF Paid
  <2>5. CASE n # g /\ n \notin D
    <3>1. n \notin F
      BY <1>7, <2>5
    <3>2. (Bound(n)' \cap F) \ {g} = (Bound(n) \cap D) \ {0}
      BY <1>8, <1>9, <1>7, <3>1
    <3>3. Waiting(k, n, (Bound(n) \cap F) \ {g})' = Waiting(k, n, (Bound(n) \cap D) \ {0})
      <4>1. PICK A : A = (Bound(n) \cap D) \ {0}
        OBVIOUS
      <4>2. ((Bound(n) \cap F) \ {g})' = A
        BY <3>2, <4>1
      <4> QED BY <1>2, <2>2, <4>1, <4>2 DEF Waiting
    <3> QED BY <1>3, <1>7, <2>1, <2>5, <3>1, <3>3 DEF Paid
  <2> QED BY <2>3, <2>4, <2>5
<1>15. \A k \in Kind : app'[k] = Owed(k, Under(g))'
  <2> SUFFICES ASSUME NEW k \in Kind PROVE app'[k] = Owed(k, Under(g))'
    OBVIOUS
  <2>1. Under(g)' = {g} /\ Owed(k, {g})' = Owed(k, {g})
    BY <1>2, <1>13, Frame
  <2>2. Owed(k, Under(g))' = Owed(k, {g})'
    BY <2>1 DEF Owed
  <2> QED BY <1>2, <1>13, <2>1, <2>2
<1>16. F \in SUBSET Id /\ g \in Id /\ g \in F /\ to'[g] = cur' /\ cur' \notin F
  BY <1>4, <1>12, <1>7
<1> QED BY <1>2, <1>14, <1>15, <1>10, <1>16 DEF MergeInv

LEMMA WaitKeepsCount ==
    ASSUME Base, MergeInv, MergeWait
    PROVE  MergeInv'
<1>1. /\ pc = "up" /\ pc' = "leaf" /\ li' = li + 1
      /\ merged' = [merged EXCEPT ![cur] = merged[cur] + 1]
      /\ data' = [k \in Kind |-> [data[k] EXCEPT ![cur].t_u = data[k][cur].t_u + app[k]]]
      /\ UNCHANGED <<active, to, childs, leafs, snap>>
      /\ ~Arrived(cur) /\ cur \in Id
      /\ merged \in [Id -> Nat] /\ childs \in [Id -> Nat]
  BY DEF MergeWait, NextLeaf, tree, Base, IInv, TypeOK, WalkInBounds
<1>2. PICK D \in SUBSET Id, h \in Id :
        /\ Progress(D, h, li + 1) /\ Paid(D, h)
        /\ h \in D /\ to[h] = cur /\ cur \notin D
        /\ \A k \in Kind : app[k] = Owed(k, Under(h))
  BY <1>1 DEF MergeInv
<1>3. \A n : Bound(n)' = Bound(n)
  BY <1>1 DEF Bound
<1>4. Progress(D, 0, li)'
  <2>1. \A n \in D : merged'[n] = 0 /\ Bound(n)' \subseteq D
    BY <1>1, <1>2, <1>3 DEF Progress
  <2>2. \A n \in D : Bound(n)' # {} \/ to'[n] # 0
    BY <1>1, <1>2, <1>3 DEF Progress
  <2>3. ASSUME NEW n \in Id, n \notin D
        PROVE  merged'[n] = Cardinality((Bound(n)' \cap D) \ {0})
    <3> DEFINE A == Bound(n) \cap D
    <3>1. IsFiniteSet(A) /\ A \ {0} = A
      <4>1. A \in SUBSET Bound(n)
        OBVIOUS
      <4>2. 0 \notin D
        BY IdFacts
      <4> QED BY <4>1, <4>2, BoundFinite, FS_Subset
    <3>2. merged[n] = Cardinality(A \ {h})
      BY <1>2, <2>3 DEF Progress
    <3>3. h \in A <=> n = cur
      BY <1>2 DEF Bound
    <3> HIDE DEF A
    <3>4. Cardinality(A \ {h}) = IF h \in A THEN Cardinality(A) - 1 ELSE Cardinality(A)
      BY <3>1, FS_RemoveElement
    <3>5. Cardinality(A) \in Nat
      BY <3>1, FS_CardinalityType
    <3>6. merged'[n] = Cardinality(A)
      BY <1>1, <3>2, <3>3, <3>4, <3>5
    <3> QED BY <1>3, <3>1, <3>6 DEF A
  <2>4. ASSUME NEW n \in Id, n \notin D, childs'[n] > 0
        PROVE  merged'[n] < childs'[n]
    BY <1>1, <1>2, <2>4 DEF Progress, Arrived
  <2>5. \A i \in 1 .. Len(leafs') : leafs'[i] \in D <=> i < li'
    BY <1>1, <1>2 DEF Progress
  <2> QED BY <2>1, <2>3, <2>4, <2>5, <2>2 DEF Progress
<1>5. ASSUME NEW n \in Id
      PROVE  (Bound(n) \cap D) \ {0} = IF n = cur THEN ((Bound(n) \cap D) \ {h}) \cup {h}
                                       ELSE (Bound(n) \cap D) \ {h}
  <2>1. 0 \notin D /\ (h \in Bound(n) <=> n = cur)
    BY <1>2, IdFacts DEF Bound
  <2> QED BY <1>2, <2>1
<1>6. Paid(D, 0)'
  <2> SUFFICES ASSUME NEW k \in Kind, NEW n \in Id
               PROVE  data'[k][n] = IF n \in D THEN Kept(k, n)'
                                    ELSE Waiting(k, n, (Bound(n) \cap D) \ {0})'
    BY DEF Paid
  <2>1. data'[k][n] = IF n = cur THEN [data[k][cur] EXCEPT !.t_u = data[k][cur].t_u + app[k]]
                      ELSE data[k][n]
    BY <1>1, BaseFacts
  <2>2. PICK A : A = (Bound(n) \cap D) \ {h}
    OBVIOUS
  <2>3. PICK B : B = (Bound(n) \cap D) \ {0}
    OBVIOUS
  <2>4. /\ Kept(k, n)' = Kept(k, n)
        /\ Waiting(k, n, (Bound(n) \cap D) \ {0})' = Waiting(k, n, B)
    <3>1. ((Bound(n) \cap D) \ {0})' = B
      BY <1>3, <2>3
    <3>2. Waiting(k, n, (Bound(n) \cap D) \ {0})' = Waiting(k, n, B)'
      BY <3>1 DEF Waiting
    <3> QED BY <1>1, <3>2, Frame
  <2>5. CASE n # cur
    <3>1. A = B
      BY <1>5, <2>2, <2>3, <2>5
    <3> QED BY <1>2, <2>1, <2>2, <2>4, <2>5, <3>1 DEF Paid
  <2>6. CASE n = cur
    <3>1. B = A \cup {h} /\ A \in SUBSET Bound(n) /\ h \in Bound(n) /\ h \notin A
      BY <1>2, <1>5, <2>2, <2>3, <2>6 DEF Bound
    <3>2. data[k][n] = Waiting(k, n, A)
      BY <1>2, <2>2, <2>6 DEF Paid
    <3>3. Owed(k, Reached(n, B)) = Owed(k, Reached(n, A)) + app[k]
      BY <1>2, <3>1, OwedMore
    <3>4. data'[k][n] = Waiting(k, n, B)
      BY <2>1, <2>6, <3>2, <3>3, BaseFacts DEF Waiting, Stat
    <3> QED BY <1>2, <2>4, <2>6, <3>4
  <2> QED BY <2>5, <2>6
<1> QED BY <1>1, <1>4, <1>6 DEF MergeInv

\* What is flushed does not depend on what was pending.
LEMMA FlushedSame ==
    ASSUME NEW s \in Stat, NEW a \in Int, NEW x
    PROVE  Flushed([s EXCEPT !.t_u = a], x) = Flushed(s, x)
BY DEF Flushed, Added, Stat

LEMMA UpKeepsCount ==
    ASSUME Base, MergeInv, MergeUp
    PROVE  MergeInv'
<1>1. /\ pc = "up" /\ merged' = [merged EXCEPT ![cur] = 0]
      /\ app' = [k \in Kind |-> data[k][cur].t_u + app[k]]
      /\ data' = [k \in Kind |-> [data[k] EXCEPT
                     ![cur] = Flushed(data[k][cur], data[k][cur].t_u + app[k])]]
      /\ UNCHANGED <<active, to, childs, leafs, snap>>
      /\ Arrived(cur) /\ cur \in Id /\ childs[cur] > 0
      /\ merged \in [Id -> Nat] /\ childs \in [Id -> Nat]
      /\ to[cur] = 0 => pc' = "leaf" /\ li' = li + 1
      /\ to[cur] # 0 => pc' = pc /\ li' = li /\ cur' = to[cur]
      /\ leafs \in Seq(Id)
  BY DEF MergeUp, NextLeaf, IsRoot, tree, Base, IInv, TypeOK, WalkInBounds
<1>2. PICK D \in SUBSET Id, h \in Id :
        /\ Progress(D, h, li + 1) /\ Paid(D, h)
        /\ h \in D /\ to[h] = cur /\ cur \notin D
        /\ \A k \in Kind : app[k] = Owed(k, Under(h))
  BY <1>1 DEF MergeInv
<1>3. \A n : Bound(n)' = Bound(n)
  BY <1>1 DEF Bound
<1>4. Bound(cur) \subseteq D
  <2> DEFINE A == Bound(cur) \cap D
  <2>1. A \in SUBSET Bound(cur) /\ h \in A
    BY <1>2 DEF Bound
  <2>2. merged[cur] = Cardinality(A \ {h})
    BY <1>1, <1>2 DEF Progress
  <2> HIDE DEF A
  <2>3. IsFiniteSet(A) /\ Cardinality(A) <= Cardinality(Bound(cur))
        /\ (Cardinality(Bound(cur)) = Cardinality(A) => Bound(cur) = A)
    BY <2>1, BoundFinite, FS_Subset
  <2>4. Cardinality(A \ {h}) = Cardinality(A) - 1 /\ Cardinality(A) \in Nat
    BY <2>1, <2>3, FS_RemoveElement, FS_CardinalityType
  <2>5. childs[cur] = Cardinality(Bound(cur)) /\ Cardinality(Bound(cur)) \in Nat
    BY <1>1, BoundFinite DEF Base, ChildsExact, Bound
  <2>6. Cardinality(A) >= childs[cur]
    BY <1>1, <2>2, <2>4 DEF Arrived
  <2>7. Bound(cur) = A
    BY <2>3, <2>4, <2>5, <2>6
  <2> QED BY <2>7 DEF A
<1>5. PICK E : E = D \cup {cur}
  OBVIOUS
<1>6. to[cur] # cur
  <2>1. {cur} \in SUBSET Id /\ {cur} # {}
    BY <1>1
  <2>2. PICK n \in {cur} : \A m \in {cur} : to[m] # n
    BY <2>1 DEF Base, Acyclic
  <2> QED BY <2>2
<1>7. /\ E \in SUBSET Id
      /\ \A n \in E : merged'[n] = 0 /\ Bound(n)' \subseteq E
      /\ \A n \in E : Bound(n)' # {} \/ to'[n] # 0
  <2>1. Bound(cur) # {}
    BY <1>2 DEF Bound
  <2> QED BY <1>1, <1>2, <1>3, <1>4, <1>5, <2>1 DEF Progress
<1>8. ASSUME NEW g, g = cur \/ (g = 0 /\ to[cur] = 0), NEW n \in Id, n \notin E
       PROVE  (Bound(n) \cap E) \ {g} = (Bound(n) \cap D) \ {h}
  <2>1. h \notin Bound(n) /\ 0 \notin D /\ n # 0 /\ cur \notin D
    BY <1>2, <1>5, <1>8, IdFacts DEF Bound
  <2>2. g # cur => cur \notin Bound(n)
    BY <1>8, <2>1 DEF Bound
  <2> QED BY <1>5, <1>8, <2>1, <2>2
<1>9. ASSUME NEW g, g = cur \/ (g = 0 /\ to[cur] = 0), NEW n \in Id, n \notin E
      PROVE  merged'[n] = Cardinality((Bound(n)' \cap E) \ {g})
  <2>1. merged'[n] = Cardinality((Bound(n) \cap D) \ {h})
    BY <1>1, <1>2, <1>9, <1>5 DEF Progress
  <2> QED BY <1>3, <1>9, <1>8, <2>1
<1>10. ASSUME NEW k \in Kind
       PROVE  /\ data[k][cur].t_u + app[k] = Owed(k, Under(cur))
              /\ Flushed(data[k][cur], Owed(k, Under(cur))) = Kept(k, cur)
  <2>1. PICK A : A = Bound(cur) \ {h}
    OBVIOUS
  <2>2. /\ A \in SUBSET Bound(cur) /\ h \in Bound(cur) /\ h \notin A /\ A \cup {h} = Bound(cur)
        /\ (Bound(cur) \cap D) \ {h} = A
    BY <1>2, <1>4, <2>1 DEF Bound
  <2>3. data[k][cur] = Waiting(k, cur, A)
    BY <1>1, <1>2, <2>2 DEF Paid
  <2>4. /\ Owed(k, Reached(cur, Bound(cur))) = Owed(k, Reached(cur, A)) + app[k]
        /\ Owed(k, Reached(cur, A)) \in Int
    <3>1. PICK c \in Id : c = cur
      BY <1>1
    <3>2. A \in SUBSET Bound(c) /\ h \in Bound(c) /\ h \notin A
      BY <2>2, <3>1
    <3>3. /\ Owed(k, Reached(c, A \cup {h})) = Owed(k, Reached(c, A)) + Owed(k, Under(h))
          /\ Owed(k, Reached(c, A)) \in Int
      BY <3>2, OwedMore
    <3>4. A \cup {h} = Bound(cur) /\ app[k] = Owed(k, Under(h))
      BY <1>2, <2>2
    <3> QED BY <3>1, <3>3, <3>4
  <2>5. snap[k][cur] \in Stat
    BY <1>1, BaseFacts
  <2>6. data[k][cur].t_u = Owed(k, Reached(cur, A))
    BY <2>3, <2>5 DEF Waiting, Stat
  <2>7. Flushed(data[k][cur], Owed(k, Under(cur))) = Flushed(snap[k][cur], Owed(k, Under(cur)))
    BY <2>3, <2>4, <2>5, FlushedSame DEF Waiting
  <2>8. Kept(k, cur) = Flushed(snap[k][cur], Owed(k, Under(cur)))
    BY <2>2 DEF Kept
  <2> QED BY <1>1, <2>4, <2>6, <2>7, <2>8, ReachedAll
<1>11. ASSUME NEW g, g = cur \/ (g = 0 /\ to[cur] = 0)
       PROVE  Paid(E, g)'
  <2> SUFFICES ASSUME NEW k \in Kind, NEW n \in Id
               PROVE  data'[k][n] = IF n \in E THEN Kept(k, n)'
                                    ELSE Waiting(k, n, (Bound(n) \cap E) \ {g})'
    BY DEF Paid
  <2>1. data'[k][n] = IF n = cur THEN Flushed(data[k][cur], data[k][cur].t_u + app[k])
                      ELSE data[k][n]
    BY <1>1, BaseFacts
  <2>2. Kept(k, n)' = Kept(k, n)
    BY <1>1, Frame
  <2>3. CASE n = cur
    BY <1>5, <1>10, <2>1, <2>2, <2>3
  <2>4. CASE n # cur /\ n \in D
    BY <1>2, <1>5, <2>1, <2>2, <2>4 DEF Paid
  <2>5. CASE n # cur /\ n \notin D
    <3>1. n \notin E
      BY <1>5, <2>5
    <3>2. PICK A : A = (Bound(n) \cap D) \ {h}
      OBVIOUS
    <3>3. ((Bound(n) \cap E) \ {g})' = A
      BY <1>3, <1>8, <1>11, <3>1, <3>2
    <3>4. Waiting(k, n, (Bound(n) \cap E) \ {g})' = Waiting(k, n, A)'
      BY <3>3 DEF Waiting
    <3>5. Waiting(k, n, A)' = Waiting(k, n, A)
      BY <1>1, Frame
    <3> QED BY <1>2, <2>1, <2>5, <3>1, <3>2, <3>4, <3>5 DEF Paid
  <2> QED BY <2>3, <2>4, <2>5
<1>12. \A n \in Id : n \notin E /\ childs'[n] > 0 => merged'[n] < childs'[n]
  BY <1>1, <1>2, <1>5 DEF Progress
<1>13. ASSUME NEW i \in 1 .. Len(leafs)
      PROVE  leafs[i] \in E <=> i < li + 1
  <2>1. leafs[i] \in Id
    BY <1>1, ElementOfSeq
  <2>2. childs[leafs[i]] = 0
    BY <2>1 DEF Base, LeafsExact, IsLeaf
  <2>3. leafs[i] # cur
    BY <1>1, <2>2
  <2>4. leafs[i] \in D <=> i < li + 1
    BY <1>2 DEF Progress
  <2> QED BY <1>5, <2>3, <2>4
<1>14. CASE to[cur] = 0
  <2>1. Progress(E, 0, li)'
    <3>1. \A n \in Id : n \notin E => merged'[n] = Cardinality((Bound(n)' \cap E) \ {0})
      BY <1>9, <1>14
    <3>2. \A i \in 1 .. Len(leafs') : leafs'[i] \in E <=> i < li'
      BY <1>1, <1>13, <1>14
    <3> QED BY <1>7, <1>12, <3>1, <3>2 DEF Progress
  <2>2. PICK z : z = 0
    OBVIOUS
  <2>3. Paid(E, z)'
    BY <1>14, <1>11, <2>2
  <2>4. Paid(E, 0)'
    BY <2>2, <2>3 DEF Paid
  <2> QED BY <1>1, <1>7, <1>14, <2>1, <2>4 DEF MergeInv
<1>15. CASE to[cur] # 0
  <2>1. PICK g : g = cur
    OBVIOUS
  <2>2. Progress(E, g, li + 1)'
    <3>1. \A n \in Id : n \notin E => merged'[n] = Cardinality((Bound(n)' \cap E) \ {g})
      BY <1>9, <2>1
    <3>2. \A i \in 1 .. Len(leafs') : leafs'[i] \in E <=> i < li' + 1
      BY <1>1, <1>13, <1>15
    <3> QED BY <1>7, <1>12, <3>1, <3>2 DEF Progress
  <2>3. to[cur] \notin E
    BY <1>1, <1>2, <1>6, <1>15, <1>5 DEF Progress, Bound
  <2>4. g \in Id /\ g \in E /\ to'[g] = cur' /\ cur' \notin E /\ pc' = "up"
    BY <1>1, <1>15, <1>5, <2>1, <2>3
  <2>5. Paid(E, g)'
    BY <1>11, <2>1
  <2>6. \A k \in Kind : app'[k] = Owed(k, Under(g))'
    <3> SUFFICES ASSUME NEW k \in Kind PROVE app'[k] = Owed(k, Under(g))'
      OBVIOUS
    <3>1. Owed(k, Under(g))' = Owed(k, Under(g))
      <4>1. Under(g)' = Under(g)
        BY <1>1, Frame
      <4> QED BY <1>1, <4>1 DEF Owed
    <3> QED BY <1>1, <1>10, <2>1, <3>1
  <2> QED BY <1>7, <2>2, <2>4, <2>5, <2>6 DEF MergeInv
<1> QED BY <1>14, <1>15

LEMMA StutterKeeps ==
    ASSUME MergeInv, UNCHANGED <<to, childs, leafs, merged, data, pc, li, cur, app, snap>>
    PROVE  MergeInv'
<1>1. ASSUME NEW D, NEW h, Progress(D, h, li) PROVE Progress(D, h, li)'
  BY <1>1 DEF Progress, Bound
<1>2. ASSUME NEW D, NEW h, Progress(D, h, li + 1) PROVE Progress(D, h, li + 1)'
  BY <1>2 DEF Progress, Bound
<1>3. ASSUME NEW D, NEW h, Paid(D, h) PROVE Paid(D, h)'
  <2> SUFFICES ASSUME NEW k \in Kind, NEW n \in Id
               PROVE  data'[k][n] = IF n \in D THEN Kept(k, n)'
                                    ELSE Waiting(k, n, (Bound(n) \cap D) \ {h})'
    BY DEF Paid
  <2>1. PICK A : A = (Bound(n) \cap D) \ {h}
    OBVIOUS
  <2>2. ((Bound(n) \cap D) \ {h})' = A
    BY <2>1 DEF Bound
  <2>3. Waiting(k, n, (Bound(n) \cap D) \ {h})' = Waiting(k, n, A)'
    BY <2>2 DEF Waiting
  <2>4. Waiting(k, n, A)' = Waiting(k, n, A) /\ Kept(k, n)' = Kept(k, n)
    BY Frame
  <2> QED BY <1>3, <2>1, <2>3, <2>4 DEF Paid
<1>4. CASE pc = "idle"
  BY <1>4 DEF MergeInv
<1>5. CASE pc = "leaf"
  <2>1. PICK D \in SUBSET Id : Progress(D, 0, li) /\ Paid(D, 0)
    BY <1>5 DEF MergeInv
  <2>2. Progress(D, 0, li)' /\ Paid(D, 0)'
    BY <1>1, <1>3, <2>1
  <2> QED BY <1>5, <2>2 DEF MergeInv
<1>6. CASE pc = "up"
  <2>1. PICK D \in SUBSET Id, h \in Id :
          /\ Progress(D, h, li + 1) /\ Paid(D, h)
          /\ h \in D /\ to[h] = cur /\ cur \notin D
          /\ \A k \in Kind : app[k] = Owed(k, Under(h))
    BY <1>6 DEF MergeInv
  <2>2. Progress(D, h, li + 1)' /\ Paid(D, h)'
    BY <1>2, <1>3, <2>1
  <2>3. ASSUME NEW k \in Kind PROVE app'[k] = Owed(k, Under(h))'
    <3>1. Owed(k, Under(h))' = Owed(k, Under(h))
      BY DEF Owed, Under, Above, Closed
    <3> QED BY <2>1, <3>1
  <2> QED BY <1>6, <2>1, <2>2, <2>3 DEF MergeInv
<1> QED BY <1>4, <1>5, <1>6 DEF MergeInv

\* When the list is done, so is every entry of the forest.
LEMMA AllDone ==
    ASSUME Base, pc = "leaf", li > Len(leafs),
           NEW D \in SUBSET Id, Progress(D, 0, li), NEW n \in Id, n \notin D
    PROVE  Bound(n) = {} /\ to[n] = 0
<1>1. /\ li \in Nat /\ Len(leafs) \in Nat
      /\ merged \in [Id -> Nat] /\ childs \in [Id -> Nat]
  BY LenProperties DEF Base, IInv, TypeOK
<1>2. ASSUME NEW l \in Id, IsLeaf(l) PROVE l \in D
  <2>1. PICK i \in 1 .. Len(leafs) : leafs[i] = l
    BY <1>2 DEF Base, LeafsExact
  <2> QED BY <1>1, <2>1 DEF Progress
<1> DEFINE U == {m \in Id : m \notin D /\ childs[m] > 0}
<1>3. ASSUME NEW u \in U PROVE \E m \in U : to[m] = u
  <2> DEFINE A == Bound(u) \cap D
  <2>1. A \in SUBSET Bound(u) /\ u \in Id /\ u \notin D /\ childs[u] > 0
    OBVIOUS
  <2>2. merged[u] = Cardinality(A) /\ merged[u] < childs[u]
    <3>1. A \ {0} = A
      BY IdFacts
    <3> QED BY <2>1, <3>1 DEF Progress
  <2>3. childs[u] = Cardinality(Bound(u))
    BY <2>1 DEF Base, ChildsExact, Bound
  <2> HIDE DEF A
  <2>4. A # Bound(u)
    <3>1. merged[u] \in Nat /\ childs[u] \in Nat
      BY <1>1, <2>1
    <3> QED BY <2>2, <2>3, <3>1
  <2>5. PICK m \in Bound(u) : m \notin D
    BY <2>4 DEF A
  <2>6. m \in Id /\ to[m] = u /\ u # 0
    BY <2>1, <2>5, IdFacts DEF Bound
  <2>7. childs[m] > 0
    BY <1>1, <1>2, <2>5, <2>6 DEF IsLeaf
  <2> QED BY <2>5, <2>6, <2>7
<1>4. U = {}
  <2>1. U \in SUBSET Id
    OBVIOUS
  <2> HIDE DEF U
  <2> QED BY <1>3, <2>1 DEF Base, Acyclic
<1>5. childs[n] = 0
  BY <1>1, <1>4
<1>6. Bound(n) = {}
  <2>1. Cardinality(Bound(n)) = 0
    BY <1>5 DEF Base, ChildsExact, Bound
  <2> QED BY <2>1, BoundFinite, FS_EmptySet
<1>7. to[n] = 0
  BY <1>2, <1>5 DEF IsLeaf
<1> QED BY <1>6, <1>7

LEMMA EndsClean ==
    ASSUME Base, MergeInv, NEW cost \in Costs, MergeEnd(cost)
    PROVE  MergeInv'
<1>1. pc = "leaf" /\ pc' = "idle" /\ li > Len(leafs) /\ merged' = merged
  BY DEF MergeEnd
<1>2. PICK D \in SUBSET Id : Progress(D, 0, li)
  BY <1>1 DEF MergeInv
<1>3. ASSUME NEW n \in Id PROVE merged[n] = 0
  <2>1. CASE n \in D
    BY <1>2, <2>1 DEF Progress
  <2>2. CASE n \notin D
    <3>1. Bound(n) = {}
      BY <1>1, <1>2, <2>2, AllDone
    <3>2. (Bound(n) \cap D) \ {0} = {}
      BY <3>1
    <3>3. merged[n] = Cardinality((Bound(n) \cap D) \ {0})
      BY <1>2, <2>2 DEF Progress
    <3> QED BY <3>2, <3>3, FS_EmptySet
  <2> QED BY <2>1, <2>2
<1> QED BY <1>1, <1>3 DEF MergeInv

LEMMA MergeInductive ==
    ASSUME AllowCycles = FALSE, AllowLateInner = FALSE
    PROVE  Spec => [](Base /\ MergeInv)
<1>1. Init => Acyclic
  BY DEF Init, Acyclic
<1>2. IInv /\ Acyclic /\ [Next]_vars => Acyclic'
  <2> SUFFICES ASSUME IInv, Acyclic, [Next]_vars PROVE Acyclic'
    OBVIOUS
  <2>1. CASE UNCHANGED <<to, childs, leafs>>
    BY <2>1 DEF Acyclic
  <2>2. ASSUME NEW t \in Id, NEW ch \in Id, ClientMayBind(t, ch), BindMerge(t, ch)
        PROVE  Acyclic'
    BY <2>2, BindAcyclic DEF ClientMayBind
  <2> QED BY <2>1, <2>2, TreeSteps
<1>3. Spec => []Acyclic
  BY <1>1, <1>2, Inductive, PTL DEF Spec
<1>4. Spec => []LeafsExact
  BY LeafsAreLeaves
<1>5. Spec => []Base
  <2>1. IInv /\ ChildsExact /\ LeafsExact /\ Acyclic => Base
    BY DEF Base
  <2> QED BY <1>3, <1>4, <2>1, Inductive, ChildsCounted, PTL
<1>6. Init => MergeInv
  BY DEF Init, MergeInv
<1>7. Base /\ MergeInv /\ [Next]_vars => MergeInv'
  <2> SUFFICES ASSUME Base, MergeInv, [Next]_vars PROVE MergeInv'
    OBVIOUS
  <2>1. CASE DoMerge
    BY <2>1, LeafKeepsCount, WaitKeepsCount, UpKeepsCount, EndsClean DEF DoMerge
  <2>2. CASE MergeBegin
    BY <2>2, BeginsClean
  <2>3. CASE UNCHANGED vars
    BY <2>3, StutterKeeps DEF vars, tree, loop
  <2>4. ASSUME pc = "idle", UNCHANGED <<pc, merged>> PROVE MergeInv'
    BY <2>4 DEF MergeInv
  <2> QED BY <2>1, <2>2, <2>3, <2>4
          DEF Next, Regist, ResetNode, Record, BindMerge, loop
<1> QED BY <1>5, <1>6, <1>7, PTL DEF Spec

\* Without loops and late inner binds every DoMerge call completes every entry
\* something is bound to: when it returns, no count is left over that would
\* make the next call complete an entry too early, for every forest and every
\* order of the leaves.
THEOREM MergeLeavesClean ==
    ASSUME AllowCycles = FALSE, AllowLateInner = FALSE
    PROVE  Spec => []MergedClean
<1>1. Base /\ MergeInv => MergedClean
  BY DEF MergeInv, MergedClean
<1> QED BY <1>1, MergeInductive, PTL

----------------------------------------------------------------------------
(* A merge is one atomic step of MergeAbs                                  *)

\* The ids, the ancestors and the sums of MergeAbs are those of MergeTree.
LEMMA AbsSame ==
    /\ Abs!Id = Id /\ Abs!reserve_end_id = reserve_end_id /\ Abs!Kind = Kind
    /\ Abs!Zero = Zero /\ \A s, n, x : Abs!Added(s, n, x) = Added(s, n, x)
    /\ \A n : Abs!Above(n) = Above(n) /\ Abs!Below(n) = Under(n)
    /\ \A n : Abs!HasChilds(n) <=> Bound(n) # {}
    /\ pc # "idle" => \A k, n : Abs!Total(k, n) = Owed(k, Under(n))
<1>1. Abs!Id = Id /\ Abs!reserve_end_id = reserve_end_id
  BY DEF Abs!Id, Id, Abs!end_id, end_id, Abs!declare_end_id, declare_end_id,
         Abs!declare_begin_id, declare_begin_id, Abs!reserve_end_id, reserve_end_id,
         Abs!reserve_begin_id, reserve_begin_id, Abs!begin_id, begin_id,
         Abs!kInnerNull, kInnerNull
<1>2. \A n : Abs!Above(n) = Above(n)
  BY <1>1 DEF Abs!Above, Abs!Closed, Above, Closed
<1>3. \A n : Abs!Below(n) = Under(n)
  BY <1>1, <1>2 DEF Abs!Below, Under
<1>4. \A n : Abs!HasChilds(n) <=> Bound(n) # {}
  BY <1>1 DEF Abs!HasChilds, Bound
<1>5. \A f, S : Abs!SumFunctionOnSet(f, S) = SumFunctionOnSet(f, S)
  BY DEF Abs!SumFunctionOnSet, Abs!FoldFunctionOnSet, Abs!MapThenFoldSet,
         SumFunctionOnSet, FoldFunctionOnSet, MapThenFoldSet
<1>6. ASSUME pc # "idle", NEW k, NEW n PROVE Abs!Total(k, n) = Owed(k, Under(n))
  BY <1>1, <1>3, <1>5, <1>6 DEF Abs!Total, Owed
<1>7. /\ Abs!Kind = Kind /\ Abs!Zero = Zero
      /\ \A s, n, x : Abs!Added(s, n, x) = Added(s, n, x)
  BY DEF Abs!Kind, Kind, Abs!Zero, Zero, Abs!Added, Added
<1> QED BY <1>1, <1>2, <1>3, <1>4, <1>6, <1>7

\* When the climbs are over, every entry is what the atomic merge makes of it.
LEMMA AllSettled ==
    ASSUME Base, MergeInv, pc = "leaf", li > Len(leafs), NEW k \in Kind, NEW n \in Id
    PROVE  data[k][n] = Abs!Settled(k, n)
<1>1. PICK D \in SUBSET Id : Progress(D, 0, li) /\ Paid(D, 0)
  BY DEF MergeInv
<1>2. PICK s \in Stat : s = snap[k][n]
  BY BaseFacts
<1>3. PICK total : total = Owed(k, Under(n))
  OBVIOUS
<1>4. Abs!Settled(k, n) =
        IF Bound(n) = {} /\ to[n] = 0 THEN s
        ELSE [c   |-> s.c + (IF Bound(n) # {} /\ total > 0 THEN 1 ELSE 0),
              sum |-> s.sum + (IF Bound(n) # {} /\ total > 0 THEN total ELSE 0),
              t_u |-> 0]
  BY <1>2, <1>3, AbsSame DEF Abs!Settled
<1>5. CASE n \notin D
  <2>1. Bound(n) = {} /\ to[n] = 0
    BY <1>1, <1>5, AllDone
  <2>2. data[k][n] = Waiting(k, n, (Bound(n) \cap D) \ {0}) /\ (Bound(n) \cap D) \ {0} = {}
    BY <1>1, <1>5, <2>1 DEF Paid
  <2>3. data[k][n] = [s EXCEPT !.t_u = s.t_u]
    <3>1. Owed(k, Reached(n, {})) = s.t_u
      BY <1>2, OwedOne
    <3>2. data[k][n] = Waiting(k, n, {})
      BY <2>2
    <3> QED BY <1>2, <3>1, <3>2 DEF Waiting
  <2> QED BY <1>4, <2>1, <2>3 DEF Stat
<1>6. CASE n \in D
  <2>1. Bound(n) # {} \/ to[n] # 0
    BY <1>1, <1>6 DEF Progress
  <2>2. data[k][n] = IF Bound(n) = {} THEN [s EXCEPT !.t_u = 0] ELSE Flushed(s, total)
    BY <1>1, <1>2, <1>3, <1>6 DEF Paid, Kept
  <2>3. s.c \in Int /\ s.sum \in Int
    BY DEF Stat
  <2>4. CASE Bound(n) = {}
    BY <1>4, <2>1, <2>2, <2>3, <2>4 DEF Stat
  <2>5. CASE Bound(n) # {}
    BY <1>4, <2>2, <2>3, <2>5 DEF Stat, Flushed, Added
  <2> QED BY <2>4, <2>5
<1> QED BY <1>5, <1>6

LEMMA EndIsMerge ==
    ASSUME Base, MergeInv, NEW cost \in Costs, MergeEnd(cost)
    PROVE  Abs!Merge(cost)
<1>1. /\ pc = "leaf" /\ li > Len(leafs) /\ pc' = "idle" /\ UNCHANGED <<active, to>>
      /\ data' = [data EXCEPT !["cpu"][kInnerMergeCost] = Added(@, 1, cost)]
  BY DEF MergeEnd, tree
<1> DEFINE settled == [k \in Kind |-> [n \in Id |-> Abs!Settled(k, n)]]
<1>2. data = settled
  BY <1>1, AllSettled, BaseFacts
<1> HIDE DEF settled
<1>3. [k \in Abs!Kind |-> [n \in Abs!Id |-> Abs!Settled(k, n)]] = settled
  BY AbsSame DEF settled
<1> QED BY <1>1, <1>2, <1>3, AbsSame DEF Abs!Merge

\* Without loops and late inner binds a whole DoMerge call, whatever the forest
\* and the order of its leaves, does what one atomic merge does: every entry
\* with childs gets the total of what was pending at it and below it, once, and
\* nothing stays pending; every other call is the abstract one.
THEOREM MergeRefines ==
    ASSUME AllowCycles = FALSE, AllowLateInner = FALSE
    PROVE  Spec => MergeIsAtomic
<1>1. Init => Abs!Init
  BY AbsSame DEF Init, Abs!Init, NoData
<1>2. Base /\ MergeInv /\ [Next]_vars => [Abs!Next]_(Abs!vars)
  <2> SUFFICES ASSUME Base, MergeInv, [Next]_vars PROVE [Abs!Next]_(Abs!vars)
    OBVIOUS
  <2>1. ASSUME NEW i \in Id, NEW re_reg \in BOOLEAN, Regist(i, re_reg) PROVE Abs!Regist(i)
    BY <2>1, AbsSame DEF Regist, loop, Abs!Regist, Abs!Clear
  <2>2. ASSUME NEW i \in Id, ResetNode(i) PROVE Abs!Reset(i)
    BY <2>2, AbsSame DEF ResetNode, tree, loop, Abs!Reset, Abs!Clear
  <2>3. ASSUME NEW k \in Kind, NEW i \in Id, NEW x \in Amounts, Record(k, i, x)
        PROVE  Abs!Record(k, i, x)
    BY <2>3, AbsSame DEF Record, tree, loop, Abs!Record
  <2>4. ASSUME NEW t \in Id, NEW ch \in Id, ClientMayBind(t, ch), BindMerge(t, ch)
        PROVE  Abs!Bind(t, ch)
    <3>1. active[t] /\ active[ch] /\ to[ch] = 0
      BY <2>4 DEF BindMerge, BindMergeRet
    <3>2. ch \notin Abs!Above(t)
      BY <2>4, AbsSame DEF ClientMayBind
    <3> QED BY <2>4, <3>1, <3>2 DEF BindMerge, loop, Abs!Bind
  <2>5. CASE MergeBegin
    BY <2>5 DEF MergeBegin, tree, Abs!vars
  <2>6. CASE MergeLeaf \/ MergeWait \/ MergeUp
    BY <2>6 DEF MergeLeaf, MergeWait, MergeUp, NextLeaf, tree, Abs!vars
  <2>7. ASSUME NEW cost \in Costs, MergeEnd(cost) PROVE Abs!Merge(cost)
    BY <2>7, EndIsMerge
  <2>8. CASE UNCHANGED vars
    BY <2>8 DEF vars, tree, loop, Abs!vars
  <2> QED BY <2>1, <2>2, <2>3, <2>4, <2>5, <2>6, <2>7, <2>8, AbsSame
          DEF Next, DoMerge, Abs!Next
<1>3. Abs!Init /\ [][Abs!Next]_(Abs!vars) => MergeIsAtomic
  BY PTL DEF MergeIsAtomic, Abs!Spec
<1> QED BY <1>1, <1>2, <1>3, MergeInductive, PTL DEF Spec

=============================================================================
