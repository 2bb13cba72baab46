--------------------------- MODULE ShowTreeProofs ---------------------------
(***************************************************************************)
(* Invariance proofs for ShowTree: the walks over the windows and over the *)
(* jump table stay inside the tables and miss nothing, a reset clears what *)
(* is shown below its entry and a report prints it, for any number of      *)
(* entries, any depth limit and any sequence of calls.                     *)
(***************************************************************************)
EXTENDS ShowTree, TLAPS, WellFoundedInduction, SequenceTheorems, FiniteSetTheorems

\* The ids are 0 .. end_id - 1.
LEMMA IdFacts ==
    /\ end_id \in Nat /\ end_id > 1
    /\ Id = 1 .. end_id - 1
    /\ Id0 = 0 .. end_id - 1
<1>1. end_id \in Nat /\ end_id > 1
  BY IdsAssumption DEF end_id, declare_end_id, declare_begin_id, reserve_end_id,
     reserve_begin_id
<1> QED BY <1>1 DEF Id, Id0, begin_id, kInnerNull

LEMMA IdSets ==
    /\ Id \subseteq Id0 /\ 0 \in Id0 /\ 0 \notin Id
    /\ \A i \in Id0 : i # 0 => i \in Id
BY IdFacts

\* The inner, reserve and declared parts follow each other.
LEMMA Layout ==
    /\ kInnerMax \in Nat /\ kInnerMax > 1 /\ kInnerMax <= end_id
    /\ declare_begin_id \in Nat /\ declare_begin_id >= kInnerMax
    /\ declare_end_id = end_id /\ reserve_begin_id = kInnerMax
    /\ reserve_end_id = declare_begin_id /\ declare_begin_id <= end_id
    /\ Declared = declare_begin_id .. end_id - 1
    /\ Declared \subseteq Id
BY IdsAssumption, IdFacts DEF end_id, declare_end_id, declare_begin_id, reserve_end_id,
   reserve_begin_id, Declared

\* A non-empty set of naturals has a least element.
LEMMA LeastNat ==
    ASSUME NEW S, S \subseteq Nat, S # {}
    PROVE  \E m \in S : \A n \in S : m <= n
<1>1. PICK m \in S : \A n \in S : ~(<<n, m>> \in OpToRel(<, Nat))
  BY NatLessThanWellFounded, WFMin
<1>2. \A n \in S : ~(n < m)
  BY <1>1 DEF OpToRel
<1> QED BY <1>2

\* Links join registered entries only.
LinksActive ==
    /\ active \in [Id0 -> BOOLEAN]
    /\ \A c \in Id : upper[c] # 0 => active[c] /\ active[upper[c]]

IInv == ShowTypeOK /\ WindowInBounds /\ LinksActive

\* The four things a call can do to show_.
LEMMA ShowSteps ==
    ASSUME IInv, [Next]_vars
    PROVE  \/ UNCHANGED <<show, active>>
           \/ \E S \in SUBSET Id0 :
                /\ Blank(S)
                /\ active' = [i \in Id0 |-> active[i] \/ i \in S]
                /\ \A i \in S \cap Id : ClientMayRegist(i)
           \/ \E p, c \in Id : BindChilds(p, c)
           \/ BuildJumpPath
<1>1. CASE UNCHANGED vars
  BY <1>1 DEF vars, show
<1>2. CASE InitRecord /\ \A i \in 1 .. kInnerMax - 1 : ClientMayRegist(i)
  <2> DEFINE inner == 0 .. kInnerMax - 1
             S == inner \cup {i \in reserve_begin_id .. reserve_end_id - 1 : ~active[i]}
  <2>1. Blank(S) /\ active' = [i \in Id0 |-> active[i] \/ i \in S]
    BY <1>2 DEF InitRecord
  <2>2. S \in SUBSET Id0
    BY IdFacts, Layout
  <2>3. ASSUME NEW i \in Id, i \in S PROVE ClientMayRegist(i)
    <3>1. CASE i \in inner
      BY <3>1, <1>2, IdFacts, Layout
    <3>2. CASE ~active[i]
      <4>1. upper[i] = 0
        BY <3>2 DEF IInv, LinksActive
      <4>2. ~HasChilds(i)
        BY <3>2, IdFacts DEF IInv, LinksActive, HasChilds
      <4> QED BY <4>1, <4>2 DEF ClientMayRegist
    <3> QED BY <3>1, <3>2, <2>3
  <2> HIDE DEF S
  <2> QED BY <2>1, <2>2, <2>3
<1>3. ASSUME NEW i \in Id, NEW tr, NEW re_reg \in BOOLEAN, ClientMayRegist(i), Regist(i, tr, re_reg)
      PROVE  \E S \in SUBSET Id0 :
                /\ Blank(S)
                /\ active' = [j \in Id0 |-> active[j] \/ j \in S]
                /\ \A j \in S \cap Id : ClientMayRegist(j)
  <2>1. {i} \in SUBSET Id0 /\ Blank({i})
    BY <1>3, IdFacts DEF Regist
  <2>2. active' = [j \in Id0 |-> active[j] \/ j \in {i}]
    BY <1>3, IdFacts DEF Regist, IInv, LinksActive
  <2> QED BY <1>3, <2>1, <2>2
<1>4. CASE \/ \E i \in Id, name \in Names : Rename(i, name)
           \/ \E i \in Id0, f \in Fields : Record(i, f)
           \/ \E keep \in BOOLEAN : ResetRangeNode(reserve_begin_id, reserve_end_id, keep)
           \/ \E keep \in BOOLEAN : ResetRangeNode(declare_begin_id, declare_end_id, keep)
           \/ \E p \in Id : ResetChilds(p)
           \/ \E set \in BOOLEAN : SetOutputFunc(set)
           \/ \E flags \in SUBSET Flags : OutputReport(flags)
           \/ \E i \in Id : OutputOneRecord(i)
           \/ \E name \in Names : OutputTempRecord(name)
  BY <1>4, Zenon DEF Rename, Record, ResetRangeNode, ResetChilds, SetOutputFunc, OutputReport,
     OutputOneRecord, OutputTempRecord
<1> QED BY <1>1, <1>2, <1>3, <1>4, Zenon DEF Next

----------------------------------------------------------------------------
(* Windows                                                                 *)

\* Widening a window keeps it inside the table and puts c into it.
LEMMA WindowOfFacts ==
    ASSUME IInv, NEW p \in Id, NEW c \in Id
    PROVE  LET w == WindowOf(p, c)
           IN  /\ w[1] \in Id /\ w[2] \in 1 .. end_id /\ w[1] + w[2] <= end_id
               /\ c \in w[1] .. w[1] + w[2] - 1
               /\ child[p] # 0 => child[p] .. child[p] + window[p] - 1 \subseteq w[1] .. w[1] + w[2] - 1
<1>1. p \in Id0 /\ c \in Id0
  BY IdFacts
<1>2. /\ child[p] \in Id0 /\ window[p] \in 0 .. end_id
      /\ child[p] + window[p] <= end_id /\ (window[p] > 0 <=> child[p] > 0)
  BY <1>1 DEF IInv, ShowTypeOK, WindowInBounds
<1>a. /\ c \in Id /\ c \in Nat /\ c >= 1 /\ c + 1 <= end_id /\ end_id \in Nat
      /\ child[p] \in Nat /\ window[p] \in Nat
      /\ \A k \in Int : k \in Id <=> 1 <= k /\ k + 1 <= end_id
  BY <1>2, IdFacts
<1> DEFINE w == WindowOf(p, c)
           Goal(f, n) == /\ f \in Id /\ n \in 1 .. end_id /\ f + n <= end_id
                         /\ c \in f .. f + n - 1
                         /\ child[p] # 0 =>
                              child[p] .. child[p] + window[p] - 1 \subseteq f .. f + n - 1
<1> SUFFICES Goal(w[1], w[2])
  OBVIOUS
<1>3. CASE child[p] = 0
  <2>1. w[1] = c /\ w[2] = 1
    BY <1>3 DEF WindowOf
  <2>2. Goal(c, 1)
    BY <1>3, <1>a
  <2> HIDE DEF Goal, w
  <2> QED BY <2>1, <2>2
<1>4. CASE child[p] # 0 /\ c < child[p]
  <2>1. w[1] = c /\ w[2] = window[p] + child[p] - c
    BY <1>4 DEF WindowOf
  <2>2. Goal(c, window[p] + child[p] - c)
    BY <1>2, <1>4, <1>a
  <2> HIDE DEF Goal, w
  <2> QED BY <2>1, <2>2
<1>5. CASE child[p] # 0 /\ c >= child[p] + window[p]
  <2>1. ~(c < child[p])
    BY <1>5, <1>a
  <2>2. w[1] = child[p] /\ w[2] = c - child[p] + 1
    BY <1>5, <2>1 DEF WindowOf
  <2>3. Goal(child[p], c - child[p] + 1)
    BY <1>2, <1>5, <1>a
  <2> HIDE DEF Goal, w
  <2> QED BY <2>2, <2>3
<1>6. CASE child[p] # 0 /\ ~(c < child[p]) /\ ~(c >= child[p] + window[p])
  <2>1. w[1] = child[p] /\ w[2] = window[p]
    BY <1>6 DEF WindowOf
  <2>2. Goal(child[p], window[p])
    BY <1>2, <1>6, <1>a
  <2> HIDE DEF Goal, w
  <2> QED BY <2>1, <2>2
<1> QED BY <1>3, <1>4, <1>5, <1>6

\* The first top-level entry after a declared entry exists.
LEMMA NextTopFacts ==
    ASSUME IInv, NEW i \in Declared
    PROVE  /\ NextTop(i) \in i + 1 .. end_id
           /\ \A j \in i + 1 .. NextTop(i) - 1 : upper[j] # 0
<1> DEFINE Q(n) == /\ n = declare_end_id \/ upper[n] = 0
                   /\ \A j \in i + 1 .. n - 1 : upper[j] # 0
           S == {n \in i + 1 .. end_id : n = end_id \/ upper[n] = 0}
<1>1. S \subseteq Nat /\ end_id \in S /\ i \in Nat
  BY IdFacts, Layout
<1>2. PICK m \in S : \A n \in S : m <= n
  BY <1>1, LeastNat
<1>3. m \in i + 1 .. declare_end_id /\ Q(m)
  BY <1>1, <1>2, IdFacts, Layout
<1>4. NextTop(i) = CHOOSE n \in i + 1 .. declare_end_id : Q(n)
  BY DEF NextTop
<1>5. NextTop(i) \in i + 1 .. declare_end_id /\ Q(NextTop(i))
  BY <1>3, <1>4
<1> QED BY <1>5, Layout

LEMMA InitIInv == Init => IInv /\ WindowCovers /\ JumpsSafe
BY IdFacts, Layout DEF Init, IInv, ShowTypeOK, WindowInBounds, LinksActive, WindowCovers, JumpsSafe

\* Clearing, binding and building jumps keep the windows inside the table.
LEMMA NextIInv == IInv /\ [Next]_vars => IInv'
<1> SUFFICES ASSUME IInv, [Next]_vars PROVE IInv'
  OBVIOUS
<1> USE IdSets
<1>1. CASE UNCHANGED <<show, active>>
  BY <1>1 DEF show, IInv, ShowTypeOK, WindowInBounds, LinksActive
<1>2. ASSUME NEW S \in SUBSET Id0, Blank(S),
             active' = [i \in Id0 |-> active[i] \/ i \in S],
             \A i \in S \cap Id : ClientMayRegist(i)
      PROVE  IInv'
  <2>1. end_id \in Nat /\ 0 \in 0 .. end_id
    BY IdFacts
  <2>2. ShowTypeOK'
    BY <1>2, <2>1 DEF Blank, IInv, ShowTypeOK
  <2>3. WindowInBounds'
    <3> SUFFICES ASSUME NEW p \in Id0
                 PROVE  child'[p] + window'[p] <= end_id /\ (window'[p] > 0 <=> child'[p] > 0)
      BY DEF WindowInBounds
    <3>1. CASE p \in S
      <4>1. child'[p] = 0 /\ window'[p] = 0
        BY <1>2, <3>1 DEF Blank
      <4> QED BY <4>1, <2>1
    <3>2. CASE p \notin S
      <4>1. child'[p] = child[p] /\ window'[p] = window[p]
        BY <1>2, <3>2 DEF Blank
      <4> QED BY <4>1 DEF IInv, WindowInBounds
    <3> QED BY <3>1, <3>2
  <2>4. LinksActive'
    <3>1. active' \in [Id0 -> BOOLEAN]
      BY <1>2
    <3>2. ASSUME NEW c \in Id, upper'[c] # 0 PROVE active'[c] /\ active'[upper'[c]]
      <4>1. upper'[c] = upper[c] /\ upper[c] \in Id0
        BY <1>2, <3>2 DEF Blank, IInv, ShowTypeOK
      <4> QED BY <1>2, <3>2, <4>1 DEF IInv, LinksActive
    <3> QED BY <3>1, <3>2 DEF LinksActive
  <2> QED BY <2>2, <2>3, <2>4 DEF IInv
<1>3. ASSUME NEW p \in Id, NEW c \in Id, BindChilds(p, c) PROVE IInv'
  <2> DEFINE w == WindowOf(p, c)
  <2>1. /\ w[1] \in Id /\ w[2] \in 1 .. end_id /\ w[1] + w[2] <= end_id
        /\ w[2] \in 0 .. end_id /\ w[1] > 0 /\ w[2] > 0
    BY WindowOfFacts, IdFacts
  <2>2. /\ child' = [child EXCEPT ![p] = w[1]] /\ window' = [window EXCEPT ![p] = w[2]]
        /\ upper' = [upper EXCEPT ![c] = p] /\ active[p] /\ active[c]
        /\ UNCHANGED <<active, jumps>>
    BY <1>3 DEF BindChilds
  <2> HIDE DEF w
  <2>3. ShowTypeOK'
    BY <2>1, <2>2 DEF IInv, ShowTypeOK
  <2>4. WindowInBounds'
    <3> SUFFICES ASSUME NEW q \in Id0
                 PROVE  child'[q] + window'[q] <= end_id /\ (window'[q] > 0 <=> child'[q] > 0)
      BY DEF WindowInBounds
    <3>1. CASE q = p
      <4>1. child'[q] = w[1] /\ window'[q] = w[2]
        BY <2>2, <3>1 DEF IInv, ShowTypeOK
      <4> QED BY <4>1, <2>1
    <3>2. CASE q # p
      <4>1. child'[q] = child[q] /\ window'[q] = window[q]
        BY <2>2, <3>2 DEF IInv, ShowTypeOK
      <4> QED BY <4>1 DEF IInv, WindowInBounds
    <3> QED BY <3>1, <3>2
  <2>5. LinksActive'
    <3>1. \A d \in Id : upper'[d] = IF d = c THEN p ELSE upper[d]
      BY <2>2 DEF IInv, ShowTypeOK
    <3> QED BY <2>2, <3>1 DEF IInv, LinksActive
  <2> QED BY <2>3, <2>4, <2>5 DEF IInv
<1>4. CASE BuildJumpPath
  <2>1. \A i \in Declared : NextTop(i) - i - 1 \in 0 .. end_id
    BY NextTopFacts, Layout, IdFacts
  <2>2. ShowTypeOK'
    BY <1>4, <2>1 DEF BuildJumpPath, IInv, ShowTypeOK
  <2> QED BY <1>4, <2>2 DEF BuildJumpPath, IInv, WindowInBounds, LinksActive
<1> QED BY <1>1, <1>2, <1>3, <1>4, ShowSteps

THEOREM Inductive == Spec => []IInv
BY InitIInv, NextIInv, PTL DEF Spec

\* The loops of RecursiveOutput and ResetChilds over child .. child + window
\* never index show_ out of bounds.
THEOREM WindowsInBounds == Spec => []WindowInBounds
<1>1. IInv => WindowInBounds
  BY DEF IInv
<1> QED BY <1>1, Inductive, PTL

\* Unless a client re-registers an entry that has childs, every walk over a
\* window meets every child, wherever its id lies and however it was moved.
THEOREM WindowsCover ==
    ASSUME "parent" \notin ReReg
    PROVE  Spec => []WindowCovers
<1>1. IInv /\ WindowCovers /\ [Next]_vars => WindowCovers'
  <2> SUFFICES ASSUME IInv, WindowCovers, [Next]_vars, NEW d \in Id, upper'[d] # 0
               PROVE  d \in child'[upper'[d]] .. child'[upper'[d]] + window'[upper'[d]] - 1
    BY DEF WindowCovers
  <2> USE IdSets
  <2>1. CASE UNCHANGED <<show, active>>
    BY <2>1 DEF show, WindowCovers
  <2>2. ASSUME NEW S \in SUBSET Id0, Blank(S), \A i \in S \cap Id : ClientMayRegist(i)
        PROVE  d \in child'[upper'[d]] .. child'[upper'[d]] + window'[upper'[d]] - 1
    <3>1. upper'[d] = IF d \in S THEN 0 ELSE upper[d]
      BY <2>2 DEF Blank
    <3>2. upper'[d] = upper[d] /\ upper[d] \in Id
      BY <3>1 DEF IInv, ShowTypeOK
    <3>3. upper[d] \notin S
      BY <2>2, <3>2 DEF ClientMayRegist, HasChilds
    <3>4. child'[upper[d]] = child[upper[d]] /\ window'[upper[d]] = window[upper[d]]
      BY <2>2, <3>2, <3>3 DEF Blank
    <3> QED BY <3>2, <3>4 DEF WindowCovers
  <2>3. ASSUME NEW p \in Id, NEW c \in Id, BindChilds(p, c)
        PROVE  d \in child'[upper'[d]] .. child'[upper'[d]] + window'[upper'[d]] - 1
    <3> DEFINE w == WindowOf(p, c)
    <3>1. /\ c \in w[1] .. w[1] + w[2] - 1
          /\ child[p] # 0 => child[p] .. child[p] + window[p] - 1 \subseteq w[1] .. w[1] + w[2] - 1
      BY WindowOfFacts
    <3>2. /\ child' = [child EXCEPT ![p] = w[1]] /\ window' = [window EXCEPT ![p] = w[2]]
          /\ upper' = [upper EXCEPT ![c] = p]
      BY <2>3 DEF BindChilds
    <3> HIDE DEF w
    <3>3. CASE d = c
      BY <3>1, <3>2, <3>3 DEF IInv, ShowTypeOK
    <3>4. CASE d # c /\ upper[d] = p
      <4>1. d \in child[p] .. child[p] + window[p] - 1
        BY <3>4 DEF WindowCovers
      <4>2. child[p] # 0
        <5>1. p \in Id0 /\ child[p] \in Nat /\ window[p] \in Nat /\ d \in Nat /\ d > 0
          <6>1. p \in Id0 /\ child[p] \in Id0 /\ window[p] \in 0 .. end_id
            BY DEF IInv, ShowTypeOK
          <6> QED BY <6>1, IdFacts
        <5>2. window[p] > 0 <=> child[p] > 0
          BY DEF IInv, WindowInBounds
        <5> QED BY <4>1, <5>1, <5>2
      <4>3. d \in w[1] .. w[1] + w[2] - 1
        BY <4>1, <4>2, <3>1
      <4>4. upper'[d] = p /\ child'[p] = w[1] /\ window'[p] = w[2]
        BY <3>2, <3>4 DEF IInv, ShowTypeOK
      <4> QED BY <4>3, <4>4
    <3>5. CASE d # c /\ upper[d] # p
      BY <3>2, <3>5 DEF WindowCovers, IInv, ShowTypeOK
    <3> QED BY <3>3, <3>4, <3>5
  <2>4. CASE BuildJumpPath
    BY <2>4 DEF BuildJumpPath, WindowCovers
  <2> QED BY <2>1, <2>2, <2>3, <2>4, ShowSteps
<1> QED BY <1>1, InitIInv, Inductive, PTL DEF Spec

\* Unless a client re-registers an entry that is shown below another one, the
\* jumps of a report skip nested entries only and end inside the table.
THEOREM JumpsSkipNestedOnly ==
    ASSUME "child" \notin ReReg
    PROVE  Spec => []JumpsSafe
<1>1. IInv /\ JumpsSafe /\ [Next]_vars => JumpsSafe'
  <2> SUFFICES ASSUME IInv, JumpsSafe, [Next]_vars, NEW i \in Declared
               PROVE  /\ i + jumps'[i] < declare_end_id
                      /\ \A j \in i + 1 .. i + jumps'[i] : upper'[j] # 0
    BY DEF JumpsSafe
  <2> DEFINE Goal == /\ i + jumps'[i] < declare_end_id
                     /\ \A j \in i + 1 .. i + jumps'[i] : upper'[j] # 0
  <2>1. /\ i \in Id0 /\ i \in Nat /\ jumps[i] \in Nat /\ i + jumps[i] < declare_end_id
        /\ i < declare_end_id /\ declare_end_id \in Nat
        /\ \A j \in i + 1 .. i + jumps[i] : upper[j] # 0 /\ j \in Id /\ j \in Id0
    <3>1. i \in Id0 /\ i \in Nat /\ i < declare_end_id /\ declare_end_id \in Nat
      BY Layout, IdFacts
    <3>2. jumps[i] \in Nat
      BY <3>1, IdFacts DEF IInv, ShowTypeOK
    <3>3. i + jumps[i] < declare_end_id /\ \A j \in i + 1 .. i + jumps[i] : upper[j] # 0
      BY DEF JumpsSafe
    <3>4. \A j \in i + 1 .. i + jumps[i] : j \in Id /\ j \in Id0
      BY <3>1, <3>2, <3>3, Layout, IdFacts
    <3> QED BY <3>1, <3>2, <3>3, <3>4
  <2>2. CASE UNCHANGED <<show, active>>
    BY <2>1, <2>2 DEF show
  <2>3. ASSUME NEW S \in SUBSET Id0, Blank(S), \A k \in S \cap Id : ClientMayRegist(k)
        PROVE  Goal
    <3>1. CASE i \in S
      <4>1. jumps'[i] = 0
        BY <2>1, <2>3, <3>1 DEF Blank
      <4> QED BY <4>1, <2>1
    <3>2. CASE i \notin S
      <4>1. jumps'[i] = jumps[i]
        BY <2>1, <2>3, <3>2 DEF Blank
      <4>2. \A j \in i + 1 .. i + jumps[i] : j \notin S
        BY <2>1, <2>3 DEF ClientMayRegist
      <4>3. \A j \in i + 1 .. i + jumps[i] : upper'[j] = upper[j]
        BY <2>1, <2>3, <4>2 DEF Blank
      <4> QED BY <2>1, <4>1, <4>3
    <3> QED BY <3>1, <3>2
  <2>4. ASSUME NEW p \in Id, NEW c \in Id, BindChilds(p, c) PROVE Goal
    <3>1. jumps' = jumps /\ p # 0 /\ \A j \in Id0 : upper'[j] = IF j = c THEN p ELSE upper[j]
      BY <2>4, IdSets DEF BindChilds, IInv, ShowTypeOK
    <3> QED BY <2>1, <3>1
  <2>5. CASE BuildJumpPath
    <3>1. jumps'[i] = NextTop(i) - i - 1 /\ upper' = upper
      BY <2>1, <2>5 DEF BuildJumpPath
    <3>2. NextTop(i) \in i + 1 .. end_id /\ \A j \in i + 1 .. NextTop(i) - 1 : upper[j] # 0
      BY NextTopFacts
    <3> QED BY <2>1, <3>1, <3>2, Layout
  <2> QED BY <2>2, <2>3, <2>4, <2>5, ShowSteps
<1> QED BY <1>1, InitIInv, Inductive, PTL DEF Spec

----------------------------------------------------------------------------
(* Recursive functions                                                     *)

\* u begins with x and goes on with F.
Iterated(N, x, F, u) == u[0] = x /\ \A d \in 0 .. N - 1 : u[d + 1] = F[<<d, u[d]>>]

\* A function on 0 .. N may be defined by a first value and a step.
LEMMA Iterates ==
    ASSUME NEW N \in Nat, NEW X, NEW x \in X, NEW F \in [Nat \X X -> X]
    PROVE  \E u \in [0 .. N -> X] : Iterated(N, x, F, u)
<1> DEFINE Is(k, u) == u[0] = x /\ \A d \in 0 .. k - 1 : u[d + 1] = F[<<d, u[d]>>]
           Bad == {k \in Nat : ~\E u \in [0 .. k -> X] : Is(k, u)}
<1>1. ASSUME Bad # {} PROVE FALSE
  <2>1. PICK k \in Bad : \A j \in Bad : k <= j
    <3>1. Bad \subseteq Nat
      OBVIOUS
    <3> QED BY <1>1, <3>1, LeastNat
  <2>2. k \in Nat /\ ~\E u \in [0 .. k -> X] : Is(k, u)
    OBVIOUS
  <2>3. k # 0
    <3>1. [d \in 0 .. 0 |-> x] \in [0 .. 0 -> X] /\ Is(0, [d \in 0 .. 0 |-> x])
      OBVIOUS
    <3> QED BY <2>2, <3>1
  <2>4. k - 1 \in Nat /\ k - 1 \notin Bad
    <3>1. k - 1 \in Nat /\ ~(k <= k - 1)
      BY <2>2, <2>3
    <3> HIDE DEF Bad
    <3> QED BY <2>1, <3>1
  <2>5. PICK u \in [0 .. k - 1 -> X] : Is(k - 1, u)
    BY <2>4
  <2> DEFINE v == [d \in 0 .. k |-> IF d = k THEN F[<<k - 1, u[k - 1]>>] ELSE u[d]]
  <2>6. v \in [0 .. k -> X]
    BY <2>4
  <2>7. ASSUME NEW d \in 0 .. k - 1 PROVE v[d + 1] = F[<<d, v[d]>>]
    <3>1. v[d] = u[d] /\ d \in Nat
      BY <2>2
    <3>2. CASE d + 1 = k
      <4>1. d = k - 1 /\ v[d + 1] = F[<<k - 1, u[k - 1]>>]
        BY <2>2, <3>2
      <4> QED BY <3>1, <4>1
    <3>3. CASE d + 1 # k
      <4>1. d \in 0 .. (k - 1) - 1 /\ v[d + 1] = u[d + 1]
        BY <2>2, <3>3
      <4> QED BY <2>5, <3>1, <4>1
    <3> QED BY <3>2, <3>3
  <2>8. v[0] = x
    BY <2>2, <2>3, <2>5
  <2> QED BY <2>2, <2>6, <2>7, <2>8
<1>2. N \notin Bad
  BY <1>1
<1> QED BY <1>2 DEF Iterated

----------------------------------------------------------------------------
(* Levels                                                                  *)

Deepest == kProfMaxDepth + 1

LEMMA DeepestType == kProfMaxDepth \in Nat /\ Deepest \in Nat
BY ShowAssumption DEF Deepest

\* Every level is below the one above it.
LEMMA UpperFacts ==
    ASSUME IInv, NEW n \in Id0
    PROVE  /\ UpperAt(n) \in [0 .. Deepest -> Id0]
           /\ UpperAt(n)[0] = n
           /\ \A d \in 0 .. Deepest - 1 :
                UpperAt(n)[d + 1] = IF UpperAt(n)[d] = 0 THEN 0 ELSE upper[UpperAt(n)[d]]
<1> DEFINE Body(u) == [d \in 0 .. kProfMaxDepth + 1 |->
                         IF d = 0 THEN n ELSE IF u[d - 1] = 0 THEN 0 ELSE upper[u[d - 1]]]
           up == CHOOSE u : u = Body(u)
           F == [z \in Nat \X Id0 |-> IF z[2] = 0 THEN 0 ELSE upper[z[2]]]
<1>1. F \in [Nat \X Id0 -> Id0]
  BY IdSets DEF IInv, ShowTypeOK
<1>2. PICK u \in [0 .. Deepest -> Id0] :
        u[0] = n /\ \A d \in 0 .. Deepest - 1 : u[d + 1] = F[<<d, u[d]>>]
  <2>1. PICK G : G = F
    OBVIOUS
  <2>2. G \in [Nat \X Id0 -> Id0] /\ Deepest \in Nat
    BY <1>1, <2>1, DeepestType
  <2>3. \E u \in [0 .. Deepest -> Id0] : Iterated(Deepest, n, G, u)
    BY <2>2, Iterates
  <2> QED BY <2>1, <2>3 DEF Iterated
<1>3. ASSUME NEW d \in 0 .. Deepest - 1
      PROVE  u[d + 1] = IF u[d] = 0 THEN 0 ELSE upper[u[d]]
  <2>1. d \in Nat /\ u[d] \in Id0
    BY DeepestType
  <2> QED BY <1>2, <2>1
<1>4. u = Body(u)
  <2>1. ASSUME NEW d \in 0 .. kProfMaxDepth + 1 PROVE u[d] = Body(u)[d]
    <3>1. CASE d = 0
      BY <1>2, <3>1
    <3>2. CASE d # 0
      <4>1. d - 1 \in 0 .. Deepest - 1 /\ (d - 1) + 1 = d
        BY <3>2, DeepestType DEF Deepest
      <4> QED BY <1>3, <3>2, <4>1
    <3> QED BY <3>1, <3>2
  <2> QED BY <2>1 DEF Deepest
<1>5. up = Body(up)
  BY <1>4
<1> HIDE DEF up
<1>6. UpperAt(n) = up
  BY DEF UpperAt, up
<1>7. /\ up[0] = n
      /\ \A d \in 0 .. Deepest - 1 : up[d + 1] = IF up[d] = 0 THEN 0 ELSE upper[up[d]]
  <2>1. \A d \in 0 .. kProfMaxDepth + 1 : up[d] = Body(up)[d]
    BY <1>5
  <2> QED BY <2>1, DeepestType DEF Deepest
<1> DEFINE Bad == {d \in 0 .. Deepest : up[d] \notin Id0}
<1>8. ASSUME Bad # {} PROVE FALSE
  <2>1. PICK d \in Bad : \A j \in Bad : d <= j
    <3>1. Bad \subseteq Nat
      OBVIOUS
    <3> QED BY <1>8, <3>1, LeastNat
  <2>2. d # 0
    BY <1>7
  <2>3. /\ d - 1 \in 0 .. Deepest - 1 /\ d - 1 \notin Bad /\ (d - 1) + 1 = d
        /\ d - 1 \in 0 .. Deepest
    BY <2>1, <2>2, DeepestType
  <2>4. up[d - 1] \in Id0
    BY <2>3
  <2>5. up[d] \in Id0
    BY <1>7, <2>3, <2>4, IdSets DEF IInv, ShowTypeOK
  <2> QED BY <2>5
<1>9. up \in [0 .. Deepest -> Id0]
  <2>1. \A d \in 0 .. Deepest : up[d] \in Id0
    BY <1>8
  <2>2. up = [d \in 0 .. Deepest |-> up[d]]
    BY <1>5 DEF Deepest
  <2> QED BY <2>1, <2>2
<1> QED BY <1>6, <1>7, <1>9

\* Levels add up.
LEMMA UpperAdds ==
    ASSUME IInv, NEW n \in Id0, NEW m \in 0 .. Deepest, NEW d \in 0 .. Deepest, m + d <= Deepest
    PROVE  UpperAt(n)[m + d] = UpperAt(UpperAt(n)[m])[d]
<1>1. PICK i \in Id0 : i = UpperAt(n)[m]
  BY UpperFacts
<1> DEFINE Bad == {e \in 0 .. d : UpperAt(n)[m + e] # UpperAt(i)[e]}
<1>2. ASSUME Bad # {} PROVE FALSE
  <2>1. PICK e \in Bad : \A j \in Bad : e <= j
    <3>1. Bad \subseteq Nat
      OBVIOUS
    <3> QED BY <1>2, <3>1, LeastNat
  <2>2. e # 0
    BY <1>1, UpperFacts
  <2>3. /\ e - 1 \in 0 .. d /\ e - 1 \notin Bad /\ (e - 1) + 1 = e
        /\ e - 1 \in 0 .. Deepest - 1 /\ m + (e - 1) \in 0 .. Deepest - 1
        /\ (m + (e - 1)) + 1 = m + e
    BY <2>1, <2>2, DeepestType
  <2>4. UpperAt(n)[m + (e - 1)] = UpperAt(i)[e - 1]
    BY <2>3
  <2>5. /\ UpperAt(n)[m + e] = IF UpperAt(n)[m + (e - 1)] = 0 THEN 0
                               ELSE upper[UpperAt(n)[m + (e - 1)]]
        /\ UpperAt(i)[e] = IF UpperAt(i)[e - 1] = 0 THEN 0 ELSE upper[UpperAt(i)[e - 1]]
    BY <2>3, UpperFacts
  <2> QED BY <2>4, <2>5
<1>3. d \in 0 .. d /\ d \notin Bad
  BY <1>2
<1> QED BY <1>1, <1>3

\* Nothing is above nothing.
LEMMA UpperZero ==
    ASSUME IInv, NEW d \in 0 .. Deepest
    PROVE  UpperAt(0)[d] = 0
<1> DEFINE Bad == {e \in 0 .. d : UpperAt(0)[e] # 0}
<1>1. ASSUME Bad # {} PROVE FALSE
  <2>1. PICK e \in Bad : \A j \in Bad : e <= j
    <3>1. Bad \subseteq Nat
      OBVIOUS
    <3> QED BY <1>1, <3>1, LeastNat
  <2>2. 0 \in Id0 /\ e # 0
    BY IdSets, UpperFacts
  <2>3. e - 1 \notin Bad /\ e - 1 \in 0 .. Deepest - 1 /\ (e - 1) + 1 = e /\ e - 1 \in 0 .. d
    BY <2>1, <2>2, DeepestType
  <2>4. UpperAt(0)[e] = 0
    BY <2>2, <2>3, UpperFacts
  <2> QED BY <2>4
<1> QED BY <1>1

\* One level up from n is what n is shown below; there the count starts again.
LEMMA UpperStep ==
    ASSUME IInv, NEW n \in Id, NEW d \in 0 .. Deepest - 1
    PROVE  /\ upper[n] \in Id0
           /\ UpperAt(n)[d + 1] = UpperAt(upper[n])[d]
<1>1. n \in Id0 /\ n # 0 /\ upper[n] \in Id0
  BY IdSets DEF IInv, ShowTypeOK
<1>2. 0 \in 0 .. Deepest - 1 /\ 1 \in 0 .. Deepest /\ d \in 0 .. Deepest /\ 1 + d <= Deepest
      /\ 1 + d = d + 1 /\ 0 + 1 = 1
  BY DeepestType
<1>3. UpperAt(n)[1] = upper[n]
  BY <1>1, <1>2, UpperFacts
<1>4. UpperAt(n)[1 + d] = UpperAt(UpperAt(n)[1])[d]
  BY <1>1, <1>2, UpperAdds
<1> QED BY <1>1, <1>2, <1>3, <1>4

----------------------------------------------------------------------------
(* Resets                                                                  *)

\* The loops over p's window find all that is shown below p, and nothing else.
LEMMA ShownIs ==
    ASSUME IInv, WindowCovers, NEW p \in Id
    PROVE  Shown(p) = {c \in Id : upper[c] = p}
<1>1. /\ p \in Id0 /\ p # 0 /\ child[p] \in Nat /\ window[p] \in Nat
      /\ child[p] + window[p] <= end_id /\ (window[p] > 0 <=> child[p] > 0)
  <2>1. p \in Id0 /\ p # 0
    BY IdSets
  <2>2. child[p] \in Id0 /\ window[p] \in 0 .. end_id
    BY <2>1 DEF IInv, ShowTypeOK
  <2>3. child[p] + window[p] <= end_id /\ (window[p] > 0 <=> child[p] > 0)
    BY <2>1 DEF IInv, WindowInBounds
  <2> QED BY <2>1, <2>2, <2>3, IdFacts
<1>2. \A i \in child[p] .. child[p] + window[p] - 1 : i \in Id
  BY <1>1, IdFacts
<1> QED BY <1>1, <1>2 DEF Shown, WindowCovers

\* A call visits at depth d the entries shown d levels below its own.
LEMMA VisitedIs ==
    ASSUME IInv, WindowCovers, NEW p \in Id
    PROVE  \A d \in 0 .. Deepest : Visited(p)[d] = {n \in Id : UpperAt(n)[d] = p}
<1> DEFINE Body(u) == [d \in 0 .. kProfMaxDepth + 1 |->
                         IF d = 0 THEN {p} ELSE UNION {Shown(i) : i \in u[d - 1]}]
           level == CHOOSE u : u = Body(u)
           At(d) == {n \in Id : UpperAt(n)[d] = p}
           u == [d \in 0 .. kProfMaxDepth + 1 |-> At(d)]
<1>1. p \in Id0 /\ p # 0
  BY IdSets
<1>2. At(0) = {p}
  BY IdSets, UpperFacts
<1>3. ASSUME NEW d \in 0 .. Deepest - 1
      PROVE  UNION {Shown(i) : i \in At(d)} = At(d + 1)
  <2>1. ASSUME NEW n \in Id
        PROVE  (upper[n] \in Id /\ UpperAt(upper[n])[d] = p) <=> UpperAt(n)[d + 1] = p
    <3>1. upper[n] \in Id0 /\ UpperAt(n)[d + 1] = UpperAt(upper[n])[d]
      BY UpperStep
    <3>2. d \in 0 .. Deepest
      BY DeepestType
    <3> QED BY <1>1, <3>1, <3>2, IdSets, UpperZero
  <2>2. \A i \in At(d) : i \in Id /\ Shown(i) = {c \in Id : upper[c] = i}
    BY ShownIs
  <2> QED BY <2>1, <2>2
<1> HIDE DEF At
<1>4. u = Body(u)
  <2>1. ASSUME NEW d \in 0 .. kProfMaxDepth + 1 PROVE u[d] = Body(u)[d]
    <3>1. CASE d = 0
      BY <1>2, <3>1
    <3>2. CASE d # 0
      <4>1. /\ d - 1 \in 0 .. Deepest - 1 /\ (d - 1) + 1 = d
            /\ d - 1 \in 0 .. kProfMaxDepth + 1
        BY <3>2, DeepestType DEF Deepest
      <4>2. u[d - 1] = At(d - 1) /\ u[d] = At(d)
        BY <4>1
      <4> QED BY <1>3, <3>2, <4>1, <4>2
    <3> QED BY <3>1, <3>2
  <2> QED BY <2>1
<1>5. level = Body(level)
  BY <1>4
<1> HIDE DEF level, u
<1>6. Visited(p) = level
  BY DEF Visited, level
<1> DEFINE Bad == {d \in 0 .. Deepest : level[d] # At(d)}
<1>7. ASSUME Bad # {} PROVE FALSE
  <2>1. PICK d \in Bad : \A j \in Bad : d <= j
    <3>1. Bad \subseteq Nat
      OBVIOUS
    <3> QED BY <1>7, <3>1, LeastNat
  <2>2. d \in 0 .. kProfMaxDepth + 1
    BY DEF Deepest
  <2>3. level[d] = IF d = 0 THEN {p} ELSE UNION {Shown(i) : i \in level[d - 1]}
    <3>1. Body(level)[d] = IF d = 0 THEN {p} ELSE UNION {Shown(i) : i \in level[d - 1]}
      BY <2>2
    <3> QED BY <1>5, <3>1
  <2>4. d # 0
    BY <1>2, <2>3
  <2>5. d - 1 \notin Bad /\ d - 1 \in 0 .. Deepest - 1 /\ (d - 1) + 1 = d /\ d - 1 \in 0 .. Deepest
    BY <2>1, <2>4, DeepestType
  <2>6. level[d - 1] = At(d - 1)
    BY <2>5
  <2>7. level[d] = At(d)
    BY <1>3, <2>3, <2>4, <2>5, <2>6
  <2> QED BY <2>7
<1> QED BY <1>6, <1>7 DEF At

HasTyped == has \in [Id0 -> SUBSET AllFields]

LEMMA NextHasTyped == HasTyped /\ [Next]_vars => HasTyped'
<1> SUFFICES ASSUME HasTyped, [Next]_vars PROVE HasTyped'
  OBVIOUS
<1>1. ASSUME NEW S, Blank(S) PROVE HasTyped'
  BY <1>1 DEF Blank, HasTyped
<1>2. CASE InitRecord
  BY <1>1, <1>2 DEF InitRecord
<1>3. ASSUME NEW i, NEW tr, NEW re_reg, Regist(i, tr, re_reg) PROVE HasTyped'
  BY <1>1, <1>3 DEF Regist
<1>4. ASSUME NEW i \in Id0, NEW f \in Fields, Record(i, f) PROVE HasTyped'
  BY <1>4, ShowAssumption DEF Record, HasTyped, AllFields
<1>5. ASSUME NEW first, NEW last, NEW keep, ResetRangeNode(first, last, keep) PROVE HasTyped'
  BY <1>5 DEF ResetRangeNode, HasTyped
<1>6. ASSUME NEW p, ResetChilds(p) PROVE HasTyped'
  <2>1. PICK V : has' = [i \in Id0 |-> IF i \in V THEN has[i] \ ChildsReset ELSE has[i]]
    BY <1>6 DEF ResetChilds
  <2> QED BY <2>1 DEF HasTyped
<1>7. ASSUME NEW name, OutputTempRecord(name) PROVE HasTyped'
  BY <1>7, IdSets DEF OutputTempRecord, HasTyped
<1>8. CASE UNCHANGED has
  BY <1>8 DEF HasTyped
<1>9. CASE \/ \E i \in Id, name \in Names : Rename(i, name)
           \/ \E p, c \in Id : BindChilds(p, c)
           \/ BuildJumpPath
           \/ \E set \in BOOLEAN : SetOutputFunc(set)
           \/ \E flags \in SUBSET Flags : OutputReport(flags)
           \/ \E i \in Id : OutputOneRecord(i)
  BY <1>8, <1>9, Zenon DEF Rename, BindChilds, BuildJumpPath, SetOutputFunc, OutputReport,
     OutputOneRecord
<1>10. CASE UNCHANGED vars
  BY <1>8, <1>10 DEF vars
<1> QED BY <1>2, <1>3, <1>4, <1>5, <1>6, <1>7, <1>9, <1>10, Zenon DEF Next

\* Unless a client re-registers an entry that has childs, ResetChilds(p) clears
\* what is shown below p down to one level past the depth limit, all of it and
\* nothing else, for every hierarchy and every order of the ids in it.
THEOREM ResetsStayInScope ==
    ASSUME "parent" \notin ReReg
    PROVE  Spec => ResetsInScope
<1>1. Init => HasTyped
  BY DEF Init, HasTyped
<1>2. IInv /\ WindowCovers /\ HasTyped => ResetScope
  <2> SUFFICES ASSUME IInv, WindowCovers, HasTyped,
                      NEW p \in Id, ResetChilds(p), NEW n \in Id0
               PROVE  has'[n] = IF n \in Tree(p) THEN has[n] \cap {"vm"} ELSE has[n]
    BY DEF ResetScope
  <2>1. PICK V : /\ V = UNION {Visited(p)[d] : d \in 0 .. kProfMaxDepth + 1}
                 /\ has' = [i \in Id0 |-> IF i \in V THEN has[i] \ ChildsReset ELSE has[i]]
    BY DEF ResetChilds
  <2>2. n \in V <=> n \in Tree(p)
    BY <2>1, VisitedIs DEF Tree, ShownAt, Deepest
  <2>3. has[n] \ ChildsReset = has[n] \cap {"vm"}
    BY DEF HasTyped, AllFields, ChildsReset
  <2> QED BY <2>1, <2>2, <2>3
<1>3. ResetScope => [ResetScope]_vars
  OBVIOUS
<1> QED BY <1>1, <1>2, NextHasTyped, Inductive, WindowsCover, PTL DEF Spec, ResetsInScope

----------------------------------------------------------------------------
(* Lines                                                                   *)

\* What RecursiveOutput prints: entries and depths.
Line == Id0 \X (0 .. Deepest)

Holds(s, x) == \E k \in 1 .. Len(s) : s[k] = x

NoneTwice(s) == \A j, k \in 1 .. Len(s) : s[j][1] = s[k][1] => j = k

\* No entry is in s as well as in t.
Apart(s, t) == \A x, y : Holds(s, x) /\ Holds(t, y) => x[1] # y[1]

\* Where the elements of a concatenation are.
LEMMA ConcatParts ==
    ASSUME NEW S, NEW s \in Seq(S), NEW t \in Seq(S)
    PROVE  /\ s \o t \in Seq(S)
           /\ \A k \in 1 .. Len(s) : k \in 1 .. Len(s \o t) /\ (s \o t)[k] = s[k]
           /\ \A b \in 1 .. Len(t) :
                b + Len(s) \in 1 .. Len(s \o t) /\ (s \o t)[b + Len(s)] = t[b]
           /\ \A k \in 1 .. Len(s \o t) :
                k \in 1 .. Len(s) \/ \E b \in 1 .. Len(t) : k = b + Len(s)
<1>1. /\ s \o t \in Seq(S) /\ Len(s \o t) = Len(s) + Len(t)
      /\ \A k \in 1 .. Len(s) + Len(t) :
           (s \o t)[k] = IF k <= Len(s) THEN s[k] ELSE t[k - Len(s)]
  BY ConcatProperties
<1>2. Len(s) \in Nat /\ Len(t) \in Nat
  BY LenProperties
<1> DEFINE u == s \o t
<1>3. u \in Seq(S) /\ Len(u) = Len(s) + Len(t)
      /\ \A k \in 1 .. Len(s) + Len(t) : u[k] = IF k <= Len(s) THEN s[k] ELSE t[k - Len(s)]
  BY <1>1
<1> HIDE DEF u
<1>4. ASSUME NEW k \in 1 .. Len(s) PROVE k \in 1 .. Len(u) /\ u[k] = s[k]
  BY <1>2, <1>3
<1>5. ASSUME NEW b \in 1 .. Len(t) PROVE b + Len(s) \in 1 .. Len(u) /\ u[b + Len(s)] = t[b]
  <2>1. /\ b + Len(s) \in 1 .. Len(s) + Len(t) /\ ~(b + Len(s) <= Len(s))
        /\ (b + Len(s)) - Len(s) = b
    BY <1>2
  <2> QED BY <1>3, <2>1
<1>6. ASSUME NEW k \in 1 .. Len(u)
      PROVE  k \in 1 .. Len(s) \/ \E b \in 1 .. Len(t) : k = b + Len(s)
  <2>1. k \in 1 .. Len(s) \/ (k - Len(s) \in 1 .. Len(t) /\ k = (k - Len(s)) + Len(s))
    BY <1>2, <1>3
  <2> QED BY <2>1
<1> QED BY <1>3, <1>4, <1>5, <1>6 DEF u

LEMMA ConcatHolds ==
    ASSUME NEW S, NEW s \in Seq(S), NEW t \in Seq(S)
    PROVE  \A x : Holds(s \o t, x) <=> Holds(s, x) \/ Holds(t, x)
<1> DEFINE u == s \o t
<1>1. /\ \A k \in 1 .. Len(s) : k \in 1 .. Len(u) /\ u[k] = s[k]
      /\ \A b \in 1 .. Len(t) : b + Len(s) \in 1 .. Len(u) /\ u[b + Len(s)] = t[b]
      /\ \A k \in 1 .. Len(u) : k \in 1 .. Len(s) \/ \E b \in 1 .. Len(t) : k = b + Len(s)
  BY ConcatParts
<1> HIDE DEF u
<1>2. ASSUME NEW x, Holds(u, x) PROVE Holds(s, x) \/ Holds(t, x)
  <2>1. PICK k \in 1 .. Len(u) : u[k] = x
    BY <1>2 DEF Holds
  <2>2. CASE k \in 1 .. Len(s)
    BY <1>1, <2>1, <2>2 DEF Holds
  <2>3. CASE \E b \in 1 .. Len(t) : k = b + Len(s)
    BY <1>1, <2>1, <2>3 DEF Holds
  <2> QED BY <1>1, <2>2, <2>3
<1>3. ASSUME NEW x, Holds(s, x) PROVE Holds(u, x)
  BY <1>1, <1>3 DEF Holds
<1>4. ASSUME NEW x, Holds(t, x) PROVE Holds(u, x)
  BY <1>1, <1>4 DEF Holds
<1> QED BY <1>2, <1>3, <1>4 DEF u

\* No entry is in a concatenation twice when it is not in a part twice and not
\* in both.
LEMMA ConcatLines ==
    ASSUME NEW S, NEW s \in Seq(S), NEW t \in Seq(S), NoneTwice(s), NoneTwice(t), Apart(s, t)
    PROVE  NoneTwice(s \o t)
<1> DEFINE u == s \o t
<1>1. /\ \A k \in 1 .. Len(s) : u[k] = s[k]
      /\ \A b \in 1 .. Len(t) : u[b + Len(s)] = t[b]
      /\ \A k \in 1 .. Len(u) : k \in 1 .. Len(s) \/ \E b \in 1 .. Len(t) : k = b + Len(s)
  BY ConcatParts
<1> HIDE DEF u
<1>2. ASSUME NEW a \in 1 .. Len(s), NEW b \in 1 .. Len(t) PROVE s[a][1] # t[b][1]
  BY DEF Apart, Holds
<1>3. ASSUME NEW j \in 1 .. Len(u), NEW k \in 1 .. Len(u), u[j][1] = u[k][1]
      PROVE  j = k
  <2>1. CASE j \in 1 .. Len(s)
    <3>1. CASE k \in 1 .. Len(s)
      BY <1>1, <1>3, <2>1, <3>1 DEF NoneTwice
    <3>2. ASSUME NEW b \in 1 .. Len(t), k = b + Len(s) PROVE FALSE
      BY <1>1, <1>2, <1>3, <2>1, <3>2
    <3> QED BY <1>1, <3>1, <3>2
  <2>2. ASSUME NEW a \in 1 .. Len(t), j = a + Len(s) PROVE j = k
    <3>1. CASE k \in 1 .. Len(s)
      BY <1>1, <1>2, <1>3, <2>2, <3>1
    <3>2. ASSUME NEW b \in 1 .. Len(t), k = b + Len(s) PROVE j = k
      <4>1. t[a][1] = t[b][1]
        BY <1>1, <1>3, <2>2, <3>2
      <4>2. a = b
        BY <4>1 DEF NoneTwice
      <4> QED BY <2>2, <3>2, <4>2
    <3> QED BY <1>1, <3>1, <3>2
  <2> QED BY <1>1, <2>1, <2>2
<1> QED BY <1>3 DEF u, NoneTwice

\* The lines of several calls after each other.
LEMMA CollectedLines ==
    ASSUME NEW S, NEW N \in Nat, NEW runs, \A k \in 1 .. N : runs[k].lines \in Seq(S)
    PROVE  /\ Collected(runs, N) \in Seq(S)
           /\ \A x : Holds(Collected(runs, N), x) <=> \E k \in 1 .. N : Holds(runs[k].lines, x)
           /\ /\ \A k \in 1 .. N : NoneTwice(runs[k].lines)
              /\ \A j, k \in 1 .. N : j # k => Apart(runs[j].lines, runs[k].lines)
              => NoneTwice(Collected(runs, N))
<1> DEFINE ss == [k \in 1 .. N |-> runs[k].lines]
           Body(f) == [i \in 1 .. N |-> IF i = 1 THEN ss[i] ELSE f[i - 1] \o ss[i]]
           flat == CHOOSE f : f = Body(f)
<1>1. Len(ss) = N /\ ss \in Seq(Seq(S))
  <2>1. ss \in [1 .. N -> Seq(S)]
    OBVIOUS
  <2> QED BY <2>1, SeqDef
<1>2. CASE N = 0
  <2>1. Collected(runs, N) = ss
    BY <1>1, <1>2 DEF Collected, FlattenSeq
  <2>2. ss = << >>
    BY <1>2
  <2> HIDE DEF ss
  <2>3. Collected(runs, N) \in Seq(S) /\ Len(Collected(runs, N)) = 0
    BY <2>1, <2>2, EmptySeq
  <2> QED BY <1>2, <2>3 DEF Holds, NoneTwice
<1>3. CASE N # 0
  <2>1. Collected(runs, N) = flat[N]
    BY <1>1, <1>3 DEF Collected, FlattenSeq
  <2>2. \E f : f = Body(f)
    <3> DEFINE X == Seq(S)
               F == [z \in Nat \X X |-> IF z[1] + 1 \in 1 .. N THEN z[2] \o ss[z[1] + 1] ELSE z[2]]
    <3>1. F \in [Nat \X X -> X]
      <4>1. ASSUME NEW a \in Nat, NEW v \in X, a + 1 \in 1 .. N PROVE v \o ss[a + 1] \in X
        <5>1. ss[a + 1] \in X
          BY <4>1
        <5> QED BY <5>1, ConcatProperties
      <4> QED BY <4>1
    <3>2. << >> \in X
      OBVIOUS
    <3>3. PICK G : G = F
      OBVIOUS
    <3>4. G \in [Nat \X X -> X]
      BY <3>1, <3>3
    <3>5. PICK u \in [0 .. N -> X] : Iterated(N, << >>, G, u)
      <4> HIDE DEF X
      <4> QED BY <3>2, <3>4, Iterates
    <3> DEFINE f == [i \in 1 .. N |-> u[i]]
    <3>6. ASSUME NEW i \in 1 .. N PROVE u[i] = u[i - 1] \o ss[i]
      <4>1. i - 1 \in 0 .. N - 1 /\ (i - 1) + 1 = i /\ i - 1 \in Nat /\ i - 1 \in 0 .. N
        OBVIOUS
      <4>2. u[i - 1] \in X
        BY <4>1
      <4>3. u[(i - 1) + 1] = G[<<i - 1, u[i - 1]>>]
        BY <3>5, <4>1 DEF Iterated
      <4> QED BY <3>3, <4>1, <4>2, <4>3
    <3>7. u[0] = << >>
      BY <3>5 DEF Iterated
    <3>8. ASSUME NEW i \in 1 .. N PROVE f[i] = IF i = 1 THEN ss[i] ELSE f[i - 1] \o ss[i]
      <4>1. CASE i = 1
        <5>1. ss[1] \in Seq(S)
          BY <4>1
        <5>2. << >> \o ss[1] = ss[1]
          BY <5>1, ConcatEmptySeq
        <5>3. u[1] = u[0] \o ss[1]
          <6>1. 1 \in 1 .. N /\ 1 - 1 = 0
            BY <4>1
          <6> QED BY <3>6, <6>1
        <5> HIDE DEF ss
        <5> QED BY <3>7, <4>1, <5>2, <5>3
      <4>2. CASE i # 1
        <5>1. i - 1 \in 1 .. N
          BY <4>2
        <5> QED BY <3>6, <4>2, <5>1
      <4> QED BY <4>1, <4>2
    <3>9. f = Body(f)
      BY <3>8
    <3> QED BY <3>9
  <2>3. flat = Body(flat)
    BY <2>2
  <2> HIDE DEF flat
  <2> DEFINE Good(n) ==
        /\ flat[n] \in Seq(S)
        /\ \A x : Holds(flat[n], x) <=> \E k \in 1 .. n : Holds(runs[k].lines, x)
        /\ /\ \A k \in 1 .. n : NoneTwice(runs[k].lines)
           /\ \A j, k \in 1 .. n : j # k => Apart(runs[j].lines, runs[k].lines)
           => NoneTwice(flat[n])
      Bad == {n \in 1 .. N : ~Good(n)}
  <2>4. ASSUME Bad # {} PROVE FALSE
    <3>1. PICK n \in Bad : \A j \in Bad : n <= j
      <4>1. Bad \subseteq Nat
        OBVIOUS
      <4> HIDE DEF Bad
      <4> QED BY <2>4, <4>1, LeastNat
    <3>2. n \in 1 .. N /\ ~Good(n)
      OBVIOUS
    <3>3. flat[n] = IF n = 1 THEN runs[n].lines ELSE flat[n - 1] \o runs[n].lines
      <4>1. Body(flat)[n] = IF n = 1 THEN ss[n] ELSE flat[n - 1] \o ss[n]
        OBVIOUS
      <4> QED BY <2>3, <4>1
    <3>4. runs[n].lines \in Seq(S)
      OBVIOUS
    <3>5. CASE n = 1
      <4>1. Good(n)
        BY <3>3, <3>4, <3>5
      <4> QED BY <3>2, <4>1
    <3>6. CASE n # 1
      <4>1. n - 1 \in 1 .. N /\ ~(n <= n - 1)
        BY <3>6
      <4>2. Good(n - 1)
        BY <3>1, <4>1
      <4>3. /\ \A k \in 1 .. n - 1 : k \in 1 .. n
            /\ \A k \in 1 .. n : k \in 1 .. n - 1 \/ k = n
            /\ n \in 1 .. n /\ n \notin 1 .. n - 1
        OBVIOUS
      <4> DEFINE a == flat[n - 1]
                 b == runs[n].lines
      <4>4. a \in Seq(S) /\ b \in Seq(S) /\ flat[n] = a \o b
        BY <3>3, <3>4, <3>6, <4>2
      <4>5. /\ a \o b \in Seq(S)
            /\ \A x : Holds(a \o b, x) <=> Holds(a, x) \/ Holds(b, x)
            /\ NoneTwice(a) /\ NoneTwice(b) /\ Apart(a, b) => NoneTwice(a \o b)
        <5> HIDE DEF a, b
        <5> QED BY <4>4, ConcatParts, ConcatHolds, ConcatLines
      <4>6. \A x : Holds(flat[n], x) <=> \E k \in 1 .. n : Holds(runs[k].lines, x)
        <5>1. \A x : Holds(a, x) <=> \E k \in 1 .. n - 1 : Holds(runs[k].lines, x)
          BY <4>2
        <5> QED BY <4>3, <4>4, <4>5, <5>1
      <4>7. ASSUME \A k \in 1 .. n : NoneTwice(runs[k].lines),
                   \A j, k \in 1 .. n : j # k => Apart(runs[j].lines, runs[k].lines)
            PROVE  NoneTwice(flat[n])
        <5>1. NoneTwice(a) /\ NoneTwice(b)
          BY <4>2, <4>3, <4>7
        <5>2. Apart(a, b)
          <6> SUFFICES ASSUME NEW x, NEW y, Holds(a, x), Holds(b, y) PROVE x[1] # y[1]
            BY DEF Apart
          <6>1. PICK k \in 1 .. n - 1 : Holds(runs[k].lines, x)
            BY <4>2
          <6>2. Apart(runs[k].lines, b)
            BY <4>3, <4>7
          <6> QED BY <6>1, <6>2 DEF Apart
        <5> QED BY <4>4, <4>5, <5>1, <5>2
      <4>8. Good(n)
        BY <4>4, <4>5, <4>6, <4>7
      <4> QED BY <3>2, <4>8
    <3> QED BY <3>5, <3>6
  <2>5. N \in 1 .. N
    BY <1>3
  <2>6. Good(N)
    BY <2>4, <2>5
  <2> QED BY <2>1, <2>6
<1> QED BY <1>2, <1>3

----------------------------------------------------------------------------
(* Childs                                                                  *)

\* s lists the elements of S, each once.
Lists(s, S) ==
    /\ s \in Seq(S)
    /\ \A j, k \in 1 .. Len(s) : s[j] = s[k] => j = k
    /\ \A x \in S : Holds(s, x)

LEMMA ShownType ==
    ASSUME IInv, NEW p \in Id0
    PROVE  Shown(p) \subseteq Id /\ IsFiniteSet(Shown(p)) /\ \A i \in Shown(p) : upper[i] = p
<1>1. /\ child[p] \in Nat /\ window[p] \in Nat
      /\ child[p] + window[p] <= end_id /\ (window[p] > 0 <=> child[p] > 0)
  <2>1. child[p] \in Id0 /\ window[p] \in 0 .. end_id
    BY DEF IInv, ShowTypeOK
  <2>2. child[p] + window[p] <= end_id /\ (window[p] > 0 <=> child[p] > 0)
    BY DEF IInv, WindowInBounds
  <2> QED BY <2>1, <2>2, IdFacts
<1>2. Shown(p) \subseteq Id
  BY <1>1, IdFacts DEF Shown
<1>3. IsFiniteSet(Id)
  BY IdFacts, FS_Interval
<1> QED BY <1>2, <1>3, FS_Subset DEF Shown

\* The loop over a window meets every child once.
LEMMA ChildsFacts ==
    ASSUME IInv, NEW p \in Id0
    PROVE  Lists(Childs(p), Shown(p))
<1> DEFINE S == Shown(p)
           N == Cardinality(S)
           Low(i) == {j \in S : j < i}
           rank == [i \in S |-> Cardinality(Low(i))]
           T == 0 .. N - 1
<1>1. S \subseteq Id /\ IsFiniteSet(S) /\ S \subseteq Int
  BY ShownType, IdFacts
<1> HIDE DEF S
<1>2. N \in Nat
  BY <1>1, FS_CardinalityType
<1>3. IsFiniteSet(T) /\ Cardinality(T) = N
  BY <1>2, FS_Interval
<1>4. ASSUME NEW i \in S
      PROVE  /\ IsFiniteSet(Low(i)) /\ Cardinality(Low(i)) \in Nat
             /\ Cardinality(Low(i)) < N
  <2>1. Low(i) \in SUBSET S /\ i \notin Low(i)
    BY <1>1
  <2> HIDE DEF Low
  <2>2. /\ IsFiniteSet(Low(i)) /\ Cardinality(Low(i)) <= N
        /\ (N = Cardinality(Low(i)) => S = Low(i))
    BY <1>1, <2>1, FS_Subset
  <2>3. Cardinality(Low(i)) \in Nat
    BY <2>2, FS_CardinalityType
  <2> QED BY <1>2, <2>1, <2>2, <2>3
<1>5. ASSUME NEW i \in S, NEW j \in S, i < j PROVE Cardinality(Low(i)) # Cardinality(Low(j))
  <2>1. i \in Int /\ j \in Int /\ \A x \in S : x \in Int
    BY <1>1
  <2>2. Low(i) \in SUBSET Low(j) /\ i \in Low(j) /\ i \notin Low(i)
    <3>1. \A x \in S : x < i => x < j
      BY <2>1, <1>5
    <3>2. ~(i < i)
      BY <2>1
    <3> HIDE DEF S
    <3> QED BY <1>5, <3>1, <3>2
  <2> HIDE DEF Low
  <2> QED BY <1>4, <2>2, FS_Subset
<1>6. rank \in Injection(S, T)
  <2>1. rank \in [S -> T]
    BY <1>2, <1>4
  <2>2. ASSUME NEW i \in S, NEW j \in S, rank[i] = rank[j] PROVE i = j
    BY <1>1, <1>5, <2>2
  <2> HIDE DEF rank
  <2> QED BY <2>1, <2>2 DEF Injection, IsInjective
<1>7. rank \in Surjection(S, T)
  <2> HIDE DEF rank, T, N
  <2> QED BY <1>1, <1>3, <1>6, FS_Injection DEF N
<1> DEFINE At(k) == CHOOSE i \in S : Cardinality(Low(i)) = k - 1
<1>8. ASSUME NEW k \in 1 .. N PROVE At(k) \in S /\ Cardinality(Low(At(k))) = k - 1
  <2>1. k - 1 \in T
    BY <1>2
  <2>2. \E i \in S : rank[i] = k - 1
    <3> HIDE DEF rank, T
    <3> QED BY <1>7, <2>1 DEF Surjection
  <2>3. \E i \in S : Cardinality(Low(i)) = k - 1
    BY <2>2
  <2> QED BY <2>3
<1>9. Childs(p) = [k \in 1 .. N |-> At(k)]
  BY DEF Childs, S
<1> HIDE DEF At
<1>10. Childs(p) \in [1 .. N -> S]
  BY <1>8, <1>9
<1>11. Childs(p) \in Seq(S) /\ Len(Childs(p)) = N
  <2>1. Childs(p) \in Seq(S)
    BY <1>2, <1>10, SeqDef
  <2> QED BY <1>2, <1>10, <2>1, LenProperties
<1>12. ASSUME NEW j \in 1 .. N, NEW k \in 1 .. N, At(j) = At(k) PROVE j = k
  <2> HIDE DEF Low
  <2>1. j - 1 = k - 1
    BY <1>8, <1>12
  <2> QED BY <1>2, <2>1
<1>13. ASSUME NEW i \in S PROVE \E k \in 1 .. N : At(k) = i
  <2>1. Cardinality(Low(i)) + 1 \in 1 .. N
    BY <1>2, <1>4
  <2>2. PICK k \in 1 .. N : k = Cardinality(Low(i)) + 1
    BY <2>1
  <2>3. At(k) \in S /\ Cardinality(Low(At(k))) = Cardinality(Low(i))
    BY <1>4, <1>8, <2>2
  <2>4. At(k) = i
    <3>1. ~(At(k) < i) /\ ~(i < At(k))
      BY <1>5, <2>3
    <3>2. At(k) \in Int /\ i \in Int
      BY <1>1, <2>3
    <3> QED BY <3>1, <3>2
  <2> QED BY <2>4
<1>14. \A k \in 1 .. N : Childs(p)[k] = At(k)
  BY <1>9
<1>15. Lists(Childs(p), S)
  <2> HIDE DEF N
  <2> QED BY <1>11, <1>12, <1>13, <1>14 DEF Lists, Holds
<1> QED BY <1>15 DEF S

----------------------------------------------------------------------------
(* The walk                                                                *)

\* What a call of RecursiveOutput yields.
Run == [lines : Seq(Line), ret : Int]

\* The calls for the childs of i.
LEMMA ChildsOutputIs ==
    ASSUME NEW i \in Id0, NEW d \in 0 .. Deepest, NEW runs \in Seq(Run)
    PROVE  \E n \in 0 .. Len(runs), r \in Int :
             /\ ChildsOutput(i, d, runs) =
                  [lines |-> << <<i, d>> >> \o Collected(runs, n), ret |-> r]
             /\ (\A k \in 1 .. Len(runs) : runs[k].ret = 0) => n = Len(runs) /\ r = 0
<1> DEFINE failed == {k \in 1 .. Len(runs) : runs[k].ret < 0}
           first == CHOOSE k \in failed : \A j \in failed : k <= j
<1>1. Len(runs) \in Nat /\ \A k \in 1 .. Len(runs) : runs[k] \in Run
  BY LenProperties, ElementOfSeq
<1>2. CASE failed = {}
  <2>1. ChildsOutput(i, d, runs) =
          [lines |-> << <<i, d>> >> \o Collected(runs, Len(runs)), ret |-> 0]
    BY <1>2 DEF ChildsOutput
  <2>2. Len(runs) \in 0 .. Len(runs) /\ 0 \in Int
    BY <1>1
  <2> QED BY <2>1, <2>2
<1>3. CASE failed # {}
  <2>1. first \in failed
    <3>1. failed \subseteq Nat
      OBVIOUS
    <3> HIDE DEF failed
    <3> QED BY <1>3, <3>1, LeastNat
  <2>2. ChildsOutput(i, d, runs) =
          [lines |-> << <<i, d>> >> \o Collected(runs, first), ret |-> runs[first].ret]
    BY <1>3 DEF ChildsOutput
  <2>3. first \in 0 .. Len(runs) /\ runs[first].ret \in Int /\ runs[first].ret # 0
        /\ first \in 1 .. Len(runs)
    <3> HIDE DEF first
    <3> QED BY <1>1, <2>1 DEF Run
  <2>4. ~\A k \in 1 .. Len(runs) : runs[k].ret = 0
    BY <2>3
  <2> HIDE DEF first
  <2> QED BY <2>2, <2>3, <2>4
<1> QED BY <1>2, <1>3

LEMMA ChildsOutputType ==
    ASSUME NEW i \in Id0, NEW d \in 0 .. Deepest, NEW runs \in Seq(Run)
    PROVE  ChildsOutput(i, d, runs) \in Run
<1>1. PICK n \in 0 .. Len(runs), r \in Int :
        ChildsOutput(i, d, runs) = [lines |-> << <<i, d>> >> \o Collected(runs, n), ret |-> r]
  BY ChildsOutputIs
<1>2. n \in Nat /\ \A k \in 1 .. n : runs[k].lines \in Seq(Line)
  <2>1. Len(runs) \in Nat /\ \A k \in 1 .. Len(runs) : runs[k] \in Run
    BY LenProperties, ElementOfSeq
  <2> QED BY <2>1 DEF Run
<1>3. Collected(runs, n) \in Seq(Line)
  BY <1>2, CollectedLines
<1>4. << <<i, d>> >> \in Seq(Line)
  BY DEF Line
<1>5. << <<i, d>> >> \o Collected(runs, n) \in Seq(Line)
  BY <1>3, <1>4, ConcatProperties
<1> QED BY <1>1, <1>5 DEF Run

Runs == [Id0 -> Run]

\* The calls for the childs of i, when the calls at the next depth are deeper.
Below(i, deeper) == [k \in 1 .. Len(Childs(i)) |-> deeper[Childs(i)[k]]]

LEMMA BelowType ==
    ASSUME IInv, NEW i \in Id0, NEW deeper \in Runs
    PROVE  Below(i, deeper) \in Seq(Run) /\ Len(Below(i, deeper)) = Len(Childs(i))
<1>1. Childs(i) \in Seq(Shown(i)) /\ Shown(i) \subseteq Id0
  BY ChildsFacts, ShownType, IdSets DEF Lists
<1>2. Len(Childs(i)) \in Nat /\ \A k \in 1 .. Len(Childs(i)) : Childs(i)[k] \in Id0
  BY <1>1, LenProperties, ElementOfSeq
<1>3. Below(i, deeper) \in [1 .. Len(Childs(i)) -> Run]
  BY <1>2 DEF Below, Runs
<1>4. Below(i, deeper) \in Seq(Run)
  BY <1>2, <1>3, SeqDef
<1> QED BY <1>2, <1>3, <1>4, LenProperties

LEMMA RecursiveOutputType ==
    ASSUME IInv, NEW i \in Id0, NEW d \in 0 .. Deepest, NEW deeper,
           d <= kProfMaxDepth => deeper \in Runs
    PROVE  RecursiveOutput(i, d, deeper) \in Run
<1>1. << >> \in Seq(Line) /\ << <<i, d>> >> \in Seq(Line) /\ 0 \in Int /\ -4 \in Int /\ -5 \in Int
  BY DEF Line
<1>2. CASE d > kProfMaxDepth
  BY <1>1, <1>2 DEF RecursiveOutput, Run
<1>3. CASE ~(d > kProfMaxDepth)
  <2>1. deeper \in Runs
    BY <1>3, DeepestType
  <2>2. ChildsOutput(i, d, Below(i, deeper)) \in Run
    BY <2>1, BelowType, ChildsOutputType
  <2> QED BY <1>1, <1>3, <2>2 DEF RecursiveOutput, Run, Below
<1> QED BY <1>2, <1>3

\* The calls of RecursiveOutput for every entry at every depth.
Walked(W) ==
    /\ W \in [0 .. Deepest -> Runs]
    /\ \A d \in 0 .. Deepest, i \in Id0 :
         W[d][i] = RecursiveOutput(i, d, IF d > kProfMaxDepth THEN << >> ELSE W[d + 1])

LEMMA WalkIs ==
    ASSUME IInv
    PROVE  \E W : Walked(W) /\ Walk = W[0]
<1> DEFINE Deeper(w, d) == IF d > kProfMaxDepth THEN << >> ELSE w[d + 1]
           Body(w) == [d \in 0 .. kProfMaxDepth + 1 |->
                         [i \in Id0 |-> RecursiveOutput(i, d, Deeper(w, d))]]
           walk == CHOOSE w : w = Body(w)
<1>1. \E w : w = Body(w)
  <2> DEFINE x == [i \in Id0 |-> RecursiveOutput(i, Deepest, << >>)]
             F == [z \in Nat \X Runs |->
                     IF z[1] < Deepest
                     THEN [i \in Id0 |-> RecursiveOutput(i, Deepest - z[1] - 1, z[2])]
                     ELSE z[2]]
  <2>1. x \in Runs
    <3>1. Deepest \in 0 .. Deepest /\ ~(Deepest <= kProfMaxDepth)
      BY DeepestType DEF Deepest
    <3> QED BY <3>1, RecursiveOutputType DEF Runs
  <2>2. F \in [Nat \X Runs -> Runs]
    <3>1. ASSUME NEW a \in Nat, NEW v \in Runs, a < Deepest
          PROVE  [i \in Id0 |-> RecursiveOutput(i, Deepest - a - 1, v)] \in Runs
      <4>1. Deepest - a - 1 \in 0 .. Deepest
        BY <3>1, DeepestType
      <4> QED BY <4>1, RecursiveOutputType DEF Runs
    <3> QED BY <3>1
  <2>3. PICK G, y : G = F /\ y = x
    OBVIOUS
  <2>4. G \in [Nat \X Runs -> Runs] /\ y \in Runs
    BY <2>1, <2>2, <2>3
  <2>5. PICK u \in [0 .. Deepest -> Runs] : Iterated(Deepest, y, G, u)
    BY <2>4, DeepestType, Iterates
  <2> DEFINE w == [d \in 0 .. kProfMaxDepth + 1 |-> u[Deepest - d]]
  <2>6. ASSUME NEW d \in 0 .. kProfMaxDepth + 1
        PROVE  w[d] = [i \in Id0 |-> RecursiveOutput(i, d, Deeper(w, d))]
    <3>1. CASE d > kProfMaxDepth
      <4>1. d = Deepest /\ Deepest - d = 0
        BY <3>1, DeepestType DEF Deepest
      <4>2. Deeper(w, d) = << >>
        BY <3>1
      <4>3. w[d] = u[0] /\ u[0] = y
        BY <2>5, <4>1 DEF Iterated
      <4> QED BY <2>3, <4>1, <4>2, <4>3
    <3>2. CASE ~(d > kProfMaxDepth)
      <4>1. /\ Deepest - d - 1 \in 0 .. Deepest - 1 /\ Deepest - d - 1 \in Nat
            /\ Deepest - d - 1 \in 0 .. Deepest
            /\ (Deepest - d - 1) + 1 = Deepest - d /\ Deepest - d - 1 < Deepest
            /\ Deepest - (Deepest - d - 1) - 1 = d /\ d + 1 \in 0 .. kProfMaxDepth + 1
            /\ Deepest - (d + 1) = Deepest - d - 1
        BY <3>2, DeepestType DEF Deepest
      <4>2. PICK e : e = Deepest - d - 1
        OBVIOUS
      <4>3. u[e + 1] = G[<<e, u[e]>>] /\ u[e] \in Runs /\ <<e, u[e]>> \in Nat \X Runs
        BY <2>5, <4>1, <4>2 DEF Iterated
      <4>4. G[<<e, u[e]>>] = [i \in Id0 |-> RecursiveOutput(i, Deepest - e - 1, u[e])]
        BY <2>3, <4>1, <4>2, <4>3
      <4>5. w[d] = u[e + 1] /\ Deeper(w, d) = u[e]
        BY <3>2, <4>1, <4>2
      <4> QED BY <4>1, <4>2, <4>3, <4>4, <4>5
    <3> QED BY <3>1, <3>2
  <2>7. w = Body(w)
    BY <2>6
  <2> QED BY <2>7
<1>2. walk = Body(walk)
  BY <1>1
<1> HIDE DEF walk
<1>3. Walk = walk[0]
  BY DEF Walk, walk
<1>4. ASSUME NEW d \in 0 .. Deepest, NEW i \in Id0
      PROVE  walk[d][i] = RecursiveOutput(i, d, Deeper(walk, d))
  <2>1. Body(walk)[d] = [j \in Id0 |-> RecursiveOutput(j, d, Deeper(walk, d))]
    BY DEF Deepest
  <2> QED BY <1>2, <2>1
<1>5. ASSUME NEW d \in 0 .. Deepest
      PROVE  walk[d] = [i \in Id0 |-> RecursiveOutput(i, d, Deeper(walk, d))]
  <2>1. Body(walk)[d] = [j \in Id0 |-> RecursiveOutput(j, d, Deeper(walk, d))]
    BY DEF Deepest
  <2> QED BY <1>2, <2>1
<1> DEFINE Bad == {e \in 0 .. Deepest : walk[Deepest - e] \notin Runs}
<1>6. ASSUME Bad # {} PROVE FALSE
  <2>1. PICK e \in Bad : \A j \in Bad : e <= j
    <3>1. Bad \subseteq Nat
      OBVIOUS
    <3> HIDE DEF Bad
    <3> QED BY <1>6, <3>1, LeastNat
  <2>2. PICK d \in 0 .. Deepest : d = Deepest - e
    BY DeepestType
  <2>3. d <= kProfMaxDepth => Deeper(walk, d) \in Runs
    <3>1. SUFFICES ASSUME d <= kProfMaxDepth PROVE walk[d + 1] \in Runs
      BY DeepestType
    <3>2. e - 1 \in 0 .. Deepest /\ ~(e <= e - 1) /\ Deepest - (e - 1) = d + 1
      BY <2>2, <3>1, DeepestType DEF Deepest
    <3>3. e - 1 \notin Bad
      BY <2>1, <3>2
    <3> QED BY <3>2, <3>3
  <2>4. walk[d] \in Runs
    <3> HIDE DEF Deeper
    <3>1. PICK v : v = Deeper(walk, d)
      OBVIOUS
    <3>2. d <= kProfMaxDepth => v \in Runs
      BY <2>3, <3>1
    <3>3. \A i \in Id0 : RecursiveOutput(i, d, v) \in Run
      BY <3>2, RecursiveOutputType
    <3>4. walk[d] = [i \in Id0 |-> RecursiveOutput(i, d, v)]
      BY <1>5, <3>1
    <3> QED BY <3>3, <3>4 DEF Runs
  <2> QED BY <2>2, <2>4
<1>7. ASSUME NEW d \in 0 .. Deepest PROVE walk[d] \in Runs
  <2>1. Deepest - d \in 0 .. Deepest /\ Deepest - (Deepest - d) = d
    BY DeepestType
  <2>2. Deepest - d \notin Bad
    BY <1>6
  <2> QED BY <2>1, <2>2
<1>8. walk \in [0 .. Deepest -> Runs]
  <2>1. walk = [d \in 0 .. Deepest |-> walk[d]]
    BY <1>2 DEF Deepest
  <2> QED BY <1>7, <2>1
<1> QED BY <1>3, <1>4, <1>8 DEF Walked

\* r is shown below nothing.
IsRoot(r) == r \in Id /\ upper[r] = 0

\* An entry is shown below one top-level entry, at one depth.
LEMMA OneRoot ==
    ASSUME IInv, NEW n \in Id0, NEW a \in 0 .. Deepest, NEW b \in 0 .. Deepest,
           IsRoot(UpperAt(n)[a]), IsRoot(UpperAt(n)[b])
    PROVE  a = b
<1>1. ASSUME NEW c \in 0 .. Deepest, NEW d \in 0 .. Deepest, c < d, IsRoot(UpperAt(n)[c])
      PROVE  UpperAt(n)[d] = 0
  <2>1. c \in 0 .. Deepest - 1 /\ c + 1 \in 0 .. Deepest /\ d - (c + 1) \in 0 .. Deepest
        /\ (c + 1) + (d - (c + 1)) = d
    BY <1>1, DeepestType
  <2>2. UpperAt(n)[c + 1] = 0
    BY <1>1, <2>1, UpperFacts DEF IsRoot
  <2>3. UpperAt(n)[(c + 1) + (d - (c + 1))] = UpperAt(UpperAt(n)[c + 1])[d - (c + 1)]
    <3>1. (c + 1) + (d - (c + 1)) <= Deepest
      BY <2>1
    <3> QED BY <2>1, <3>1, UpperAdds
  <2> QED BY <2>1, <2>2, <2>3, UpperZero
<1>2. ~IsRoot(0)
  BY IdSets DEF IsRoot
<1>3. a < b \/ a = b \/ b < a
  BY DeepestType
<1> QED BY <1>1, <1>2, <1>3

\* What a call prints is registered and shown below the call's entry, as deep
\* as it says.
Sound(i, d, lines) ==
    \A n, e : Holds(lines, <<n, e>>) =>
        n \in Id /\ e \in d .. Deepest /\ active[n] /\ UpperAt(n)[e - d] = i

\* All that is shown below the call's entry is printed.
Complete(i, d, lines) ==
    \A n \in Id, m \in 0 .. Deepest - d : UpperAt(n)[m] = i => Holds(lines, <<n, d + m>>)

\* The run is right for entry i at depth d.
Right(i, d, run) ==
    /\ Sound(i, d, run.lines)
    /\ IsRoot(UpperAt(i)[d]) => NoneTwice(run.lines)
    /\ IsRoot(UpperAt(i)[d]) /\ Printable(UpperAt(i)[d]) =>
         run.ret = 0 /\ Complete(i, d, run.lines)

\* The entry of a call that prints itself only.
LEMMA RightLine ==
    ASSUME IInv, NEW i \in Id, NEW d \in 0 .. Deepest, active[i]
    PROVE  /\ Sound(i, d, << <<i, d>> >>) /\ NoneTwice(<< <<i, d>> >>)
           /\ \A n, e : Holds(<< <<i, d>> >>, <<n, e>>) <=> n = i /\ e = d
<1>1. \A n, e : Holds(<< <<i, d>> >>, <<n, e>>) <=> n = i /\ e = d
  BY DEF Holds
<1>2. UpperAt(i)[d - d] = i /\ d \in d .. Deepest
  BY IdSets, UpperFacts, DeepestType
<1> QED BY <1>1, <1>2 DEF Sound, NoneTwice

\* If the calls for the childs are right, so is the call.
LEMMA RightChilds ==
    ASSUME IInv, WindowCovers, NEW i \in Id, NEW d \in 0 .. kProfMaxDepth, active[i],
           NEW deeper \in Runs, \A c \in Id : Right(c, d + 1, deeper[c])
    PROVE  Right(i, d, ChildsOutput(i, d, Below(i, deeper)))
<1> DEFINE runs == Below(i, deeper)
           N == Len(runs)
           Child(k) == Childs(i)[k]
<1>1. /\ i \in Id0 /\ i # 0 /\ d \in 0 .. Deepest /\ d \in 0 .. Deepest - 1
      /\ d + 1 \in 0 .. Deepest /\ d \in Nat /\ Deepest \in Nat
  BY IdSets, DeepestType DEF Deepest
<1>2. runs \in Seq(Run) /\ N \in Nat /\ N = Len(Childs(i))
  <2>1. runs \in Seq(Run) /\ N = Len(Childs(i))
    BY <1>1, BelowType
  <2> QED BY <2>1, LenProperties
<1>3. \A k \in 1 .. N : runs[k] = deeper[Child(k)]
  BY <1>2 DEF Below
<1>4. /\ \A k \in 1 .. N : Child(k) \in Id /\ Child(k) \in Id0 /\ upper[Child(k)] = i
      /\ \A j, k \in 1 .. N : Child(j) = Child(k) => j = k
      /\ \A c \in Id : upper[c] = i => \E k \in 1 .. N : Child(k) = c
  <2>1. Lists(Childs(i), Shown(i)) /\ Shown(i) = {c \in Id : upper[c] = i}
    BY <1>1, ChildsFacts, ShownIs
  <2>2. \A k \in 1 .. N : Child(k) \in Shown(i)
    BY <1>2, <2>1, ElementOfSeq DEF Lists
  <2> QED BY <1>2, <2>1, <2>2, IdSets DEF Lists, Holds
<1>5. \A k \in 1 .. N : runs[k].lines \in Seq(Line) /\ Right(Child(k), d + 1, runs[k])
  <2>1. \A k \in 1 .. N : runs[k] \in Run
    BY <1>2, ElementOfSeq
  <2> HIDE DEF runs, Child
  <2> QED BY <1>3, <1>4, <2>1 DEF Run
<1> HIDE DEF runs, Child, N
<1>6. PICK h \in 0 .. N, r \in Int :
        /\ ChildsOutput(i, d, runs) =
             [lines |-> << <<i, d>> >> \o Collected(runs, h), ret |-> r]
        /\ (\A k \in 1 .. N : runs[k].ret = 0) => h = N /\ r = 0
  BY <1>1, <1>2, ChildsOutputIs DEF N
<1> DEFINE own == << <<i, d>> >>
           rest == Collected(runs, h)
           lines == own \o rest
<1>7. own \in Seq(Line) /\ rest \in Seq(Line)
  <2>1. own \in Seq(Line)
    BY <1>1 DEF Line
  <2>2. h \in Nat /\ \A k \in 1 .. h : runs[k].lines \in Seq(Line)
    BY <1>2, <1>5
  <2> QED BY <2>1, <2>2, CollectedLines
<1>8. /\ \A x : Holds(rest, x) <=> \E k \in 1 .. h : Holds(runs[k].lines, x)
      /\ /\ \A k \in 1 .. h : NoneTwice(runs[k].lines)
         /\ \A j, k \in 1 .. h : j # k => Apart(runs[j].lines, runs[k].lines)
         => NoneTwice(rest)
  <2>1. h \in Nat /\ \A k \in 1 .. h : runs[k].lines \in Seq(Line)
    BY <1>2, <1>5
  <2> QED BY <2>1, CollectedLines
<1> HIDE DEF own, rest
<1>9. /\ \A x : Holds(lines, x) <=> Holds(own, x) \/ Holds(rest, x)
      /\ NoneTwice(own) /\ NoneTwice(rest) /\ Apart(own, rest) => NoneTwice(lines)
  BY <1>7, ConcatHolds, ConcatLines
<1>10. /\ Sound(i, d, own) /\ NoneTwice(own)
      /\ \A n, e : Holds(own, <<n, e>>) <=> n = i /\ e = d
  BY <1>1, RightLine DEF own
<1>11. \A k \in 1 .. h : k \in 1 .. N
  BY <1>2
<1>12. \A x : Holds(rest, x) => x \in Line
  BY <1>7, ElementOfSeq DEF Holds
<1>13. \A x : Holds(own, x) => x \in Line
  BY <1>7, ElementOfSeq DEF Holds
\* What a child's call prints is shown one level deeper below i.
<1>14. ASSUME NEW k \in 1 .. h, NEW n, NEW e, Holds(runs[k].lines, <<n, e>>)
       PROVE  /\ n \in Id /\ n \in Id0 /\ active[n] /\ e \in d + 1 .. Deepest
              /\ e - (d + 1) \in 0 .. Deepest /\ UpperAt(n)[e - (d + 1)] = Child(k)
              /\ e - d \in 0 .. Deepest /\ UpperAt(n)[e - d] = i
  <2>1. /\ n \in Id /\ n \in Id0 /\ e \in d + 1 .. Deepest /\ active[n]
        /\ UpperAt(n)[e - (d + 1)] = Child(k)
    BY <1>5, <1>11, <1>14, IdSets DEF Right, Sound
  <2>2. /\ e - (d + 1) \in 0 .. Deepest - 1 /\ e - (d + 1) \in 0 .. Deepest
        /\ (e - (d + 1)) + 1 = e - d /\ e - d \in 0 .. Deepest
    BY <1>1, <2>1
  <2>3. UpperAt(n)[(e - (d + 1)) + 1] = upper[Child(k)]
    <3>1. Child(k) # 0
      BY <1>4, <1>11, IdSets
    <3> QED BY <2>1, <2>2, <3>1, UpperFacts
  <2> QED BY <1>4, <1>11, <2>1, <2>2, <2>3
<1>15. Sound(i, d, lines)
  <2> SUFFICES ASSUME NEW n, NEW e, Holds(lines, <<n, e>>)
               PROVE  n \in Id /\ e \in d .. Deepest /\ active[n] /\ UpperAt(n)[e - d] = i
    BY DEF Sound
  <2>1. CASE Holds(own, <<n, e>>)
    BY <1>10, <2>1 DEF Sound
  <2>2. CASE Holds(rest, <<n, e>>)
    <3>1. PICK k \in 1 .. h : Holds(runs[k].lines, <<n, e>>)
      BY <1>8, <2>2
    <3>2. n \in Id /\ active[n] /\ e \in d + 1 .. Deepest /\ UpperAt(n)[e - d] = i
      BY <1>14, <3>1
    <3> QED BY <1>1, <3>2
  <2> QED BY <1>9, <2>1, <2>2
<1>16. ASSUME IsRoot(UpperAt(i)[d]) PROVE NoneTwice(lines)
  \* A line of a child's call is at the depth its entry has in the whole tree.
  <2>1. ASSUME NEW k \in 1 .. h, NEW n, NEW e, Holds(runs[k].lines, <<n, e>>)
        PROVE  e \in 0 .. Deepest /\ UpperAt(n)[e] = UpperAt(i)[d]
    <3>1. /\ n \in Id0 /\ e \in d + 1 .. Deepest /\ e - d \in 0 .. Deepest
          /\ UpperAt(n)[e - d] = i
      BY <1>14, <2>1
    <3>2. (e - d) + d = e /\ (e - d) + d <= Deepest /\ e \in 0 .. Deepest
      BY <1>1, <3>1
    <3>3. UpperAt(n)[(e - d) + d] = UpperAt(UpperAt(n)[e - d])[d]
      BY <1>1, <3>1, <3>2, UpperAdds
    <3> QED BY <3>1, <3>2, <3>3
  <2>2. ASSUME NEW k \in 1 .. h PROVE NoneTwice(runs[k].lines)
    <3>1. UpperAt(Child(k))[d + 1] = UpperAt(i)[d]
      BY <1>1, <1>4, <1>11, UpperStep
    <3> QED BY <1>5, <1>11, <1>16, <3>1 DEF Right
  <2>3. ASSUME NEW j \in 1 .. h, NEW k \in 1 .. h, j # k
        PROVE  Apart(runs[j].lines, runs[k].lines)
    <3> SUFFICES ASSUME NEW x, NEW y, Holds(runs[j].lines, x), Holds(runs[k].lines, y),
                        x[1] = y[1]
                 PROVE  FALSE
      BY DEF Apart
    <3>1. PICK n, a, b : x = <<n, a>> /\ y = <<n, b>>
      <4>1. x \in Line /\ y \in Line
        BY <1>8, <1>12
      <4> QED BY <4>1 DEF Line
    <3>2. /\ n \in Id0 /\ a \in 0 .. Deepest /\ UpperAt(n)[a] = UpperAt(i)[d]
          /\ UpperAt(n)[a - (d + 1)] = Child(j)
      BY <1>14, <2>1, <3>1
    <3>3. /\ b \in 0 .. Deepest /\ UpperAt(n)[b] = UpperAt(i)[d]
          /\ UpperAt(n)[b - (d + 1)] = Child(k)
      BY <1>14, <2>1, <3>1
    <3>4. a = b
      BY <1>16, <3>2, <3>3, OneRoot
    <3> QED BY <1>4, <1>11, <2>3, <3>2, <3>3, <3>4
  <2>4. Apart(own, rest)
    <3> SUFFICES ASSUME NEW x, NEW y, Holds(own, x), Holds(rest, y), x[1] = y[1] PROVE FALSE
      BY DEF Apart
    <3>1. PICK n, a, b : x = <<n, a>> /\ y = <<n, b>>
      <4>1. x \in Line /\ y \in Line
        BY <1>12, <1>13
      <4> QED BY <4>1 DEF Line
    <3>2. n = i /\ a = d
      BY <1>10, <3>1
    <3>3. PICK k \in 1 .. h : Holds(runs[k].lines, <<n, b>>)
      BY <1>8, <3>1
    <3>4. b \in d + 1 .. Deepest /\ b \in 0 .. Deepest /\ UpperAt(n)[b] = UpperAt(i)[d]
      BY <1>14, <2>1, <3>3
    <3>5. b = d
      BY <1>1, <1>16, <3>2, <3>4, OneRoot
    <3> QED BY <1>1, <3>4, <3>5
  <2> QED BY <1>8, <1>9, <1>10, <2>2, <2>3, <2>4
<1>17. ASSUME IsRoot(UpperAt(i)[d]), Printable(UpperAt(i)[d])
       PROVE  r = 0 /\ Complete(i, d, lines)
  <2>1. ASSUME NEW k \in 1 .. N
        PROVE  runs[k].ret = 0 /\ Complete(Child(k), d + 1, runs[k].lines)
    <3>1. UpperAt(Child(k))[d + 1] = UpperAt(i)[d]
      BY <1>1, <1>4, UpperStep
    <3> QED BY <1>5, <1>17, <3>1 DEF Right
  <2>2. h = N /\ r = 0
    BY <1>6, <2>1
  <2>3. ASSUME NEW n \in Id, NEW m \in 0 .. Deepest - d, UpperAt(n)[m] = i
        PROVE  Holds(lines, <<n, d + m>>)
    <3>1. CASE m = 0
      <4>1. n = i /\ d + m = d
        <5>1. n \in Id0 /\ UpperAt(n)[0] = n
          BY IdSets, UpperFacts
        <5> QED BY <1>1, <2>3, <3>1, <5>1
      <4> QED BY <1>9, <1>10, <4>1
    <3>2. CASE m # 0
      <4>1. /\ m - 1 \in 0 .. Deepest - (d + 1) /\ m - 1 \in 0 .. Deepest - 1
            /\ (m - 1) + 1 = m /\ (d + 1) + (m - 1) = d + m /\ m - 1 \in 0 .. Deepest
        BY <1>1, <3>2
      <4>2. PICK c \in Id0 : c = UpperAt(n)[m - 1]
        BY <4>1, IdSets, UpperFacts
      <4>3. i = IF c = 0 THEN 0 ELSE upper[c]
        <5>1. UpperAt(n)[(m - 1) + 1] = IF c = 0 THEN 0 ELSE upper[c]
          BY <4>1, <4>2, IdSets, UpperFacts
        <5> QED BY <2>3, <4>1, <5>1
      <4>4. c \in Id /\ upper[c] = i
        BY <1>1, <4>3, IdSets
      <4>5. PICK k \in 1 .. N : Child(k) = c
        BY <1>4, <4>4
      <4>6. Holds(runs[k].lines, <<n, (d + 1) + (m - 1)>>)
        BY <2>1, <4>1, <4>2, <4>5 DEF Complete
      <4> QED BY <1>8, <1>9, <2>2, <4>1, <4>6
    <3> QED BY <3>1, <3>2
  <2> QED BY <2>2, <2>3 DEF Complete
<1>18. ChildsOutput(i, d, runs) = [lines |-> lines, ret |-> r]
  BY <1>6 DEF own, rest
<1>19. Right(i, d, [lines |-> lines, ret |-> r])
  <2> HIDE DEF lines
  <2> QED BY <1>15, <1>16, <1>17 DEF Right
<1> QED BY <1>18, <1>19 DEF runs

\* Every call of RecursiveOutput is right: what it prints is shown below its
\* entry, at the depth printed; nothing is printed twice and nothing is missing
\* where it could be.
LEMMA WalkRight ==
    ASSUME IInv, WindowCovers, NEW W, Walked(W)
    PROVE  \A d \in 0 .. Deepest, i \in Id : Right(i, d, W[d][i])
<1> DEFINE Bad == {e \in 0 .. Deepest : ~\A i \in Id : Right(i, Deepest - e, W[Deepest - e][i])}
<1>1. ASSUME Bad # {} PROVE FALSE
  <2>1. PICK e \in Bad : \A j \in Bad : e <= j
    <3>1. Bad \subseteq Nat
      OBVIOUS
    <3> HIDE DEF Bad
    <3> QED BY <1>1, <3>1, LeastNat
  <2>2. PICK d \in 0 .. Deepest : d = Deepest - e
    BY DeepestType
  <2>3. PICK i \in Id : ~Right(i, d, W[d][i])
    BY <2>2
  <2>4. i \in Id0
    BY IdSets
  <2> DEFINE deeper == IF d > kProfMaxDepth THEN << >> ELSE W[d + 1]
  <2>5. W[d][i] = RecursiveOutput(i, d, deeper)
    BY <2>4 DEF Walked
  <2> HIDE DEF deeper
  <2>6. ~Printable(UpperAt(i)[d]) \/ ~IsRoot(UpperAt(i)[d]) \/
          (active[i] /\ trait[i].clk /\ trait[i].name = "ok" /\ d <= kProfMaxDepth)
    <3> SUFFICES ASSUME Printable(UpperAt(i)[d]), IsRoot(UpperAt(i)[d])
                 PROVE  active[i] /\ trait[i].clk /\ trait[i].name = "ok" /\ d <= kProfMaxDepth
      OBVIOUS
    <3>1. PICK r : r = UpperAt(i)[d]
      OBVIOUS
    <3>2. i \in Tree(r)
      BY <3>1 DEF Tree, ShownAt, Deepest
    <3>3. /\ active[i] /\ trait[i].clk /\ trait[i].name = "ok"
          /\ \E c \in 0 .. kProfMaxDepth : UpperAt(i)[c] = r
      BY <3>1, <3>2 DEF Printable, ShownAt
    <3>4. PICK c \in 0 .. kProfMaxDepth : UpperAt(i)[c] = r
      BY <3>3
    <3>5. c \in 0 .. Deepest /\ c <= kProfMaxDepth
      BY DeepestType DEF Deepest
    <3>6. c = d
      BY <2>4, <3>1, <3>4, <3>5, OneRoot
    <3> QED BY <3>3, <3>5, <3>6
  <2>7. Sound(i, d, << >>) /\ NoneTwice(<< >>)
    BY DEF Sound, NoneTwice, Holds
  <2>8. CASE ~active[i] \/ trait[i].name = "out" \/ ~trait[i].clk \/ trait[i].name = "long"
    <3>1. W[d][i].lines = << >>
      BY <2>5, <2>8 DEF RecursiveOutput
    <3> QED BY <2>3, <2>6, <2>7, <2>8, <3>1 DEF Right
  <2>9. CASE /\ active[i] /\ trait[i].name # "out" /\ trait[i].clk /\ trait[i].name # "long"
             /\ d > kProfMaxDepth
    <3>1. W[d][i].lines = << <<i, d>> >>
      BY <2>5, <2>9 DEF RecursiveOutput
    <3>2. ~(d <= kProfMaxDepth)
      BY <2>9, DeepestType
    <3> QED BY <2>3, <2>6, <2>9, <3>1, <3>2, RightLine DEF Right
  <2>10. CASE /\ active[i] /\ trait[i].name # "out" /\ trait[i].clk /\ trait[i].name # "long"
              /\ ~(d > kProfMaxDepth)
    <3>1. d \in 0 .. kProfMaxDepth /\ d + 1 \in 0 .. Deepest /\ deeper = W[d + 1]
      BY <2>10, DeepestType DEF Deepest, deeper
    <3>2. deeper \in Runs
      BY <3>1 DEF Walked
    <3>3. \A c \in Id : Right(c, d + 1, deeper[c])
      <4>1. e - 1 \in 0 .. Deepest /\ ~(e <= e - 1) /\ Deepest - (e - 1) = d + 1
        BY <2>2, <3>1, DeepestType DEF Deepest
      <4>2. e - 1 \notin Bad
        BY <2>1, <4>1
      <4> QED BY <3>1, <4>1, <4>2
    <3>4. W[d][i] = ChildsOutput(i, d, Below(i, deeper))
      BY <2>5, <2>10 DEF RecursiveOutput, Below
    <3> QED BY <2>3, <2>10, <3>1, <3>2, <3>3, <3>4, RightChilds
  <2> QED BY <2>8, <2>9, <2>10
<1>2. ASSUME NEW d \in 0 .. Deepest, NEW i \in Id PROVE Right(i, d, W[d][i])
  <2>1. Deepest - d \in 0 .. Deepest /\ Deepest - (Deepest - d) = d
    BY DeepestType
  <2>2. Deepest - d \notin Bad
    BY <1>1
  <2> QED BY <2>1, <2>2
<1> QED BY <1>2

\* A report's call for an entry prints nothing below another entry, and all of
\* a printable tree.
LEMMA TopRight ==
    ASSUME IInv, WindowCovers, NEW i \in Id
    PROVE  LET lines == Top(i, Walk).lines
           IN  /\ lines \in Seq(Line)
               /\ NoneTwice(lines)
               /\ \A n, e : Holds(lines, <<n, e>>) =>
                    /\ n \in Id /\ e \in 0 .. Deepest /\ active[n]
                    /\ upper[i] = 0 /\ UpperAt(n)[e] = i
               /\ output /\ upper[i] = 0 /\ Printable(i) =>
                    \A n \in Id, m \in 0 .. Deepest :
                        UpperAt(n)[m] = i => Holds(lines, <<n, m>>)
<1>1. PICK W : Walked(W) /\ Walk = W[0]
  BY WalkIs
<1>2. /\ i \in Id0 /\ UpperAt(i)[0] = i /\ 0 \in 0 .. Deepest
  BY IdSets, UpperFacts, DeepestType
<1>3. Right(i, 0, Walk[i]) /\ Walk[i].lines \in Seq(Line)
  <2>1. Walk[i] \in Run
    BY <1>1, <1>2 DEF Walked, Runs
  <2> QED BY <1>1, <1>2, <2>1, WalkRight DEF Run
<1>4. CASE ~output \/ upper[i] # 0
  <2>1. Top(i, Walk).lines = << >>
    BY <1>4 DEF Top
  <2> QED BY <1>4, <2>1 DEF NoneTwice, Holds
<1>5. CASE output /\ upper[i] = 0
  <2>1. Top(i, Walk) = Walk[i]
    BY <1>5 DEF Top
  <2>2. IsRoot(UpperAt(i)[0]) /\ UpperAt(i)[0] = i
    BY <1>2, <1>5 DEF IsRoot
  <2>3. \A e \in 0 .. Deepest : e - 0 = e /\ 0 + e = e /\ e \in 0 .. Deepest - 0
    BY DeepestType
  <2>4. \A n, e : Holds(Walk[i].lines, <<n, e>>) =>
          n \in Id /\ e \in 0 .. Deepest /\ active[n] /\ UpperAt(n)[e] = i
    BY <1>3, <2>3 DEF Right, Sound
  <2>5. Printable(i) => \A n \in Id, m \in 0 .. Deepest :
                          UpperAt(n)[m] = i => Holds(Walk[i].lines, <<n, m>>)
    <3>1. Printable(i) => Complete(i, 0, Walk[i].lines)
      BY <1>3, <2>2 DEF Right
    <3> QED BY <2>3, <3>1 DEF Complete
  <2>6. NoneTwice(Walk[i].lines)
    BY <1>3, <2>2 DEF Right
  <2> QED BY <1>3, <1>5, <2>1, <2>4, <2>5, <2>6
<1> QED BY <1>4, <1>5

----------------------------------------------------------------------------
(* What a report visits                                                    *)

\* s visits entries of A only, none twice, and all of C.
Visits(s, A, C) ==
    /\ s \in Seq(A)
    /\ \A j, k \in 1 .. Len(s) : s[j] = s[k] => j = k
    /\ \A x \in C : Holds(s, x)

LEMMA VisitsConcat ==
    ASSUME NEW A, NEW B, NEW C, NEW D, A \cap B = {}, NEW s, NEW t,
           Visits(s, A, C), Visits(t, B, D)
    PROVE  Visits(s \o t, A \cup B, C \cup D)
<1> DEFINE u == s \o t
<1>1. PICK S : S = A \cup B /\ s \in Seq(S) /\ t \in Seq(S)
  <2>1. PICK S : S = A \cup B
    OBVIOUS
  <2>2. A \subseteq S /\ B \subseteq S
    BY <2>1
  <2>3. s \in Seq(S) /\ t \in Seq(S)
    BY <2>2, SeqMonotonic DEF Visits
  <2> QED BY <2>1, <2>3
<1>2. /\ u \in Seq(S)
      /\ \A k \in 1 .. Len(s) : u[k] = s[k]
      /\ \A b \in 1 .. Len(t) : u[b + Len(s)] = t[b]
      /\ \A k \in 1 .. Len(u) : k \in 1 .. Len(s) \/ \E b \in 1 .. Len(t) : k = b + Len(s)
  BY <1>1, ConcatParts
<1>3. \A x : Holds(u, x) <=> Holds(s, x) \/ Holds(t, x)
  BY <1>1, ConcatHolds
<1> HIDE DEF u
<1>4. ASSUME NEW a \in 1 .. Len(s), NEW b \in 1 .. Len(t) PROVE s[a] # t[b]
  <2>1. s[a] \in A /\ t[b] \in B
    BY ElementOfSeq DEF Visits
  <2> QED BY <2>1
<1>5. ASSUME NEW j \in 1 .. Len(u), NEW k \in 1 .. Len(u), u[j] = u[k] PROVE j = k
  <2>1. CASE j \in 1 .. Len(s)
    <3>1. CASE k \in 1 .. Len(s)
      BY <1>2, <1>5, <2>1, <3>1 DEF Visits
    <3>2. ASSUME NEW b \in 1 .. Len(t), k = b + Len(s) PROVE FALSE
      BY <1>2, <1>4, <1>5, <2>1, <3>2
    <3> QED BY <1>2, <3>1, <3>2
  <2>2. ASSUME NEW a \in 1 .. Len(t), j = a + Len(s) PROVE j = k
    <3>1. CASE k \in 1 .. Len(s)
      BY <1>2, <1>4, <1>5, <2>2, <3>1
    <3>2. ASSUME NEW b \in 1 .. Len(t), k = b + Len(s) PROVE j = k
      BY <1>2, <1>5, <2>2, <3>2 DEF Visits
    <3> QED BY <1>2, <3>1, <3>2
  <2> QED BY <1>2, <2>1, <2>2
<1> QED BY <1>1, <1>2, <1>3, <1>5 DEF u, Visits

\* declare_window_ ends behind the last registered entry.
WindowEnds ==
    /\ declare_window \in declare_begin_id .. end_id
    /\ \A i \in Declared : active[i] => i < declare_window

LEMMA NextWindowEnds == IInv /\ WindowEnds /\ [Next]_vars => WindowEnds'
<1> SUFFICES ASSUME IInv, WindowEnds, [Next]_vars PROVE WindowEnds'
  OBVIOUS
<1> USE DEF WindowEnds
<1>1. CASE InitRecord
  <2>1. /\ declare_window' = declare_window
        /\ active' = [i \in Id0 |-> active[i] \/ i \in 0 .. kInnerMax - 1
                          \/ i \in {j \in reserve_begin_id .. reserve_end_id - 1 : ~active[j]}]
    BY <1>1, Zenon DEF InitRecord
  <2>2. \A i \in Declared : i \in Id0 /\ i \notin 0 .. kInnerMax - 1
                            /\ i \notin reserve_begin_id .. reserve_end_id - 1
    BY Layout, IdFacts
  <2>3. \A i \in Declared : active'[i] = active[i]
    BY <2>1, <2>2 DEF IInv, LinksActive
  <2> QED BY <2>1, <2>3
<1>2. ASSUME NEW i \in Id, NEW tr, NEW re_reg, Regist(i, tr, re_reg) PROVE WindowEnds'
  <2>1. declare_window' = WindowAfter(i) /\ active' = [active EXCEPT ![i] = TRUE]
    BY <1>2 DEF Regist
  <2>2. \A j \in Declared : active'[j] => active[j] \/ j = i
    BY <2>1, Layout, IdSets DEF IInv, LinksActive
  <2>3. /\ WindowAfter(i) \in declare_begin_id .. end_id /\ WindowAfter(i) >= declare_window
        /\ i \in Declared => WindowAfter(i) > i
    BY Layout, IdFacts DEF WindowAfter
  <2>4. \A j \in Declared : j \in Int
    BY Layout
  <2>5. declare_window \in Int /\ WindowAfter(i) \in Int
    BY <2>3, Layout
  <2> QED BY <2>1, <2>2, <2>3, <2>4, <2>5
<1>3. CASE UNCHANGED <<declare_window, active>>
  BY <1>3
<1>4. CASE \/ \E i \in Id, name \in Names : Rename(i, name)
           \/ \E p, c \in Id : BindChilds(p, c)
           \/ BuildJumpPath
           \/ \E i \in Id0, f \in Fields : Record(i, f)
           \/ \E keep \in BOOLEAN : ResetRangeNode(reserve_begin_id, reserve_end_id, keep)
           \/ \E keep \in BOOLEAN : ResetRangeNode(declare_begin_id, declare_end_id, keep)
           \/ \E p \in Id : ResetChilds(p)
           \/ \E set \in BOOLEAN : SetOutputFunc(set)
           \/ \E flags \in SUBSET Flags : OutputReport(flags)
           \/ \E i \in Id : OutputOneRecord(i)
           \/ \E name \in Names : OutputTempRecord(name)
  BY <1>3, <1>4, Zenon DEF Rename, BindChilds, BuildJumpPath, Record, ResetRangeNode, ResetChilds,
     SetOutputFunc, OutputReport, OutputOneRecord, OutputTempRecord
<1>5. CASE UNCHANGED vars
  BY <1>3, <1>5 DEF vars
<1> QED BY <1>1, <1>2, <1>4, <1>5, Zenon DEF Next

\* The loop over the declared entries visits every top-level one once.
LEMMA StopsFacts ==
    ASSUME IInv, JumpsSafe, WindowEnds
    PROVE  Visits(Stops, Declared, {i \in Declared : active[i] /\ upper[i] = 0})
<1> DEFINE dom == declare_begin_id .. 2 * end_id
           Body(f) == [i \in dom |->
                         IF i >= declare_window THEN << >> ELSE <<i>> \o f[i + jumps[i] + 1]]
           from == CHOOSE f : f = Body(f)
           next(i) == i + jumps[i] + 1
\* The entry after a stop.
<1>1. ASSUME NEW i \in declare_begin_id .. end_id, ~(i >= declare_window)
      PROVE  /\ i \in Declared /\ i \in Nat /\ next(i) \in i + 1 .. end_id
             /\ \A j \in i + 1 .. next(i) - 1 : upper[j] # 0
  <2>1. i \in Declared /\ i \in Nat /\ i \in Id0
    <3>1. /\ declare_window \in Nat /\ declare_window <= end_id /\ i \in Nat
          /\ i >= declare_begin_id /\ declare_begin_id \in Nat /\ end_id \in Nat
      BY Layout, IdFacts DEF WindowEnds
    <3>2. i < end_id
      BY <1>1, <3>1
    <3> QED BY <3>1, <3>2, Layout, IdSets
  <2>2. jumps[i] \in Nat
    BY <2>1, IdFacts DEF IInv, ShowTypeOK
  <2>3. i + jumps[i] < end_id /\ \A j \in i + 1 .. i + jumps[i] : upper[j] # 0
    BY <2>1, Layout DEF JumpsSafe
  <2>4. next(i) - 1 = i + jumps[i]
    BY <2>1, <2>2
  <2>5. next(i) \in i + 1 .. end_id
    BY <2>1, <2>2, <2>3, IdFacts
  <2> QED BY <2>1, <2>3, <2>4, <2>5
<1>2. end_id \in Nat /\ declare_begin_id \in Nat /\ declare_begin_id <= end_id
  BY Layout, IdFacts
<1> HIDE DEF next
<1>3. \E f : f = Body(f)
  <2>1. PICK dw : dw = declare_window
    OBVIOUS
  <2>2. dw \in Nat /\ dw <= end_id
    BY <2>1, <1>2 DEF WindowEnds
  <2> DEFINE Val(f, i) == IF i >= dw THEN << >> ELSE <<i>> \o f[next(i)]
             \* f is what the loop yields from end_id - k on.
             Ok(f, k) == \A i \in dom : i + k >= end_id => f[i] = Val(f, i)
             Bad == {k \in Nat : ~\E f : Ok(f, k) /\ f = [i \in dom |-> f[i]]}
  <2>3. ASSUME Bad # {} PROVE FALSE
    <3>1. PICK k \in Bad : \A j \in Bad : k <= j
      <4>1. Bad \subseteq Nat
        OBVIOUS
      <4> HIDE DEF Bad
      <4> QED BY <2>3, <4>1, LeastNat
    <3>2. k # 0
      <4>1. Ok([i \in dom |-> << >>], 0)
        BY <1>2, <2>2
      <4> QED BY <4>1
    <3>3. k - 1 \in Nat /\ ~(k <= k - 1)
      BY <3>2
    <3>4. k - 1 \notin Bad
      BY <3>1, <3>3
    <3>5. PICK f : Ok(f, k - 1) /\ f = [i \in dom |-> f[i]]
      BY <3>3, <3>4
    <3> DEFINE g == [i \in dom |-> IF i + k = end_id THEN Val(f, i) ELSE f[i]]
    <3>6. ASSUME NEW i \in dom, i + k >= end_id PROVE g[i] = Val(g, i)
      <4>1. Val(g, i) = Val(f, i)
        <5>1. CASE i >= dw
          BY <5>1
        <5>2. CASE ~(i >= dw)
          <6>1. i \in declare_begin_id .. end_id /\ i \in Nat
            BY <1>2, <2>2, <5>2
          <6>2. next(i) \in i + 1 .. end_id
            BY <1>1, <2>1, <5>2, <6>1
          <6>3. next(i) \in dom /\ next(i) + k # end_id
            BY <1>2, <3>6, <6>1, <6>2
          <6>4. g[next(i)] = f[next(i)]
            BY <6>3
          <6> HIDE DEF g
          <6> QED BY <6>4
        <5> QED BY <5>1, <5>2
      <4>2. CASE i + k = end_id
        BY <4>1, <4>2
      <4>3. CASE i + k # end_id
        <5>1. i + (k - 1) >= end_id
          BY <1>2, <3>6, <4>3
        <5>2. g[i] = f[i] /\ f[i] = Val(f, i)
          BY <3>5, <4>3, <5>1
        <5> HIDE DEF g, Val
        <5> QED BY <4>1, <5>2
      <4> QED BY <4>2, <4>3
    <3>7. Ok(g, k) /\ g = [i \in dom |-> g[i]]
      <4>1. g = [i \in dom |-> g[i]]
        OBVIOUS
      <4> HIDE DEF g, Val
      <4> QED BY <3>6, <4>1
    <3>8. k \notin Bad
      <4> HIDE DEF g, Ok
      <4> QED BY <3>7
    <3> QED BY <3>8
  <2>4. end_id \notin Bad
    BY <2>3
  <2>5. PICK f : Ok(f, end_id) /\ f = [i \in dom |-> f[i]]
    BY <1>2, <2>4
  <2>6. ASSUME NEW i \in dom PROVE f[i] = Body(f)[i]
    <3>1. i + end_id >= end_id
      BY <1>2
    <3>2. f[i] = Val(f, i)
      BY <2>5, <3>1
    <3> QED BY <2>1, <3>2 DEF next
  <2>7. f = Body(f)
    BY <2>5, <2>6
  <2> QED BY <2>7
<1>4. from = Body(from)
  BY <1>3
<1> HIDE DEF from
<1>5. Stops = from[declare_begin_id]
  BY DEF Stops, from
<1>6. ASSUME NEW i \in declare_begin_id .. end_id
      PROVE  from[i] = IF i >= declare_window THEN << >> ELSE <<i>> \o from[next(i)]
  <2>1. i \in dom
    BY <1>2
  <2>2. Body(from)[i] = IF i >= declare_window THEN << >> ELSE <<i>> \o from[i + jumps[i] + 1]
    BY <2>1
  <2> QED BY <1>4, <2>2 DEF next
\* What the loop visits from i on.
<1> DEFINE Rest(i) == {j \in Declared : j >= i}
           Tops(i) == {j \in Rest(i) : active[j] /\ upper[j] = 0}
           Bad == {k \in 0 .. end_id :
                     /\ end_id - k \in declare_begin_id .. end_id
                     /\ ~Visits(from[end_id - k], Rest(end_id - k), Tops(end_id - k))}
<1>7. ASSUME Bad # {} PROVE FALSE
  <2>1. PICK k \in Bad : \A j \in Bad : k <= j
    <3>1. Bad \subseteq Nat
      OBVIOUS
    <3> HIDE DEF Bad
    <3> QED BY <1>7, <3>1, LeastNat
  <2>2. PICK i \in declare_begin_id .. end_id : i = end_id - k
    OBVIOUS
  <2>3. ~Visits(from[i], Rest(i), Tops(i))
    BY <2>2
  <2>4. CASE i >= declare_window
    <3>1. from[i] = << >>
      BY <1>6, <2>4
    <3>2. Tops(i) = {}
      <4>1. \A j \in Declared : j \in Nat /\ (active[j] => j < declare_window)
        BY Layout DEF WindowEnds
      <4>2. declare_window \in Nat /\ i \in Nat
        BY <1>2 DEF WindowEnds
      <4> QED BY <2>4, <4>1, <4>2
    <3> HIDE DEF Tops, Rest
    <3>3. Visits(<< >>, Rest(i), {})
      BY DEF Visits, Holds
    <3> QED BY <2>3, <3>1, <3>2, <3>3
  <2>5. CASE ~(i >= declare_window)
    <3>1. /\ i \in Declared /\ i \in Nat /\ next(i) \in i + 1 .. end_id
          /\ \A j \in i + 1 .. next(i) - 1 : upper[j] # 0
      BY <1>1, <2>5
    <3>2. PICK n \in i + 1 .. end_id : n = next(i)
      BY <3>1
    <3>3. n \in declare_begin_id .. end_id /\ end_id - n \in 0 .. end_id
          /\ end_id - (end_id - n) = n /\ ~(k <= end_id - n) /\ n \in Nat
      BY <1>2, <2>2, <3>1
    <3>4. end_id - n \notin Bad
      BY <2>1, <3>3
    <3>5. Visits(from[n], Rest(n), Tops(n))
      BY <3>3, <3>4
    <3>6. from[i] = <<i>> \o from[n]
      BY <1>6, <2>5, <3>2
    <3>7. Visits(<<i>>, {i}, {i})
      <4>1. <<i>> \in Seq({i}) /\ Len(<<i>>) = 1 /\ <<i>>[1] = i
        OBVIOUS
      <4> QED BY <4>1 DEF Visits, Holds
    <3>8. {i} \cap Rest(n) = {}
      BY <3>1, <3>3
    <3>9. {i} \cup Rest(n) \subseteq Rest(i)
      BY <3>1, <3>3, Layout
    <3>10. Tops(i) \subseteq {i} \cup Tops(n)
      <4> SUFFICES ASSUME NEW j \in Declared, j >= i, active[j], upper[j] = 0, j # i
                   PROVE  j >= n
        OBVIOUS
      <4>1. j \in Nat /\ j \notin i + 1 .. n - 1
        BY <3>1, <3>2, Layout
      <4> QED BY <3>1, <3>3, <4>1
    <3> HIDE DEF Rest, Tops
    <3>11. Visits(from[i], {i} \cup Rest(n), {i} \cup Tops(n))
      BY <3>5, <3>6, <3>7, <3>8, VisitsConcat
    <3>12. from[i] \in Seq(Rest(i))
      BY <3>9, <3>11, SeqMonotonic DEF Visits
    <3> QED BY <2>3, <3>10, <3>11, <3>12 DEF Visits
  <2> QED BY <2>4, <2>5
<1>8. Visits(from[declare_begin_id], Rest(declare_begin_id), Tops(declare_begin_id))
  <2>1. end_id - declare_begin_id \in 0 .. end_id
        /\ end_id - (end_id - declare_begin_id) = declare_begin_id
        /\ declare_begin_id \in declare_begin_id .. end_id
    BY <1>2
  <2>2. end_id - declare_begin_id \notin Bad
    BY <1>7
  <2> QED BY <2>1, <2>2
<1>9. Rest(declare_begin_id) = Declared
  BY Layout
<1> QED BY <1>5, <1>8, <1>9

\* The entries of the parts asked for.
Asked(flags) == UNION {Part[f] : f \in flags}

LEMMA PartsAre ==
    ASSUME NEW flags \in SUBSET Flags
    PROVE  /\ Part["inner"] = 1 .. kInnerMax - 1
           /\ Part["reserve"] = kInnerMax .. declare_begin_id - 1
           /\ Part["declare"] = Declared
           /\ \A x : x \in Asked(flags) <=> \E f \in flags : x \in Part[f]
           /\ Asked(flags) \subseteq Id
<1>1. /\ Part["inner"] = 1 .. kInnerMax - 1
      /\ Part["reserve"] = kInnerMax .. declare_begin_id - 1
      /\ Part["declare"] = Declared
  BY Layout DEF Part, begin_id, kInnerNull
<1>2. \A x : x \in Asked(flags) <=> \E f \in flags : x \in Part[f]
  BY DEF Asked
<1>3. \A f \in Flags : Part[f] \subseteq Id
  BY <1>1, Layout, IdFacts DEF Flags
<1> QED BY <1>1, <1>2, <1>3

\* A report calls RecursiveOutput once for every registered top-level entry of
\* the parts asked for.
LEMMA CallsFacts ==
    ASSUME IInv, JumpsSafe, WindowEnds, NEW flags \in SUBSET Flags
    PROVE  Visits(Calls(flags), Asked(flags),
                  {i \in Asked(flags) : active[i] /\ upper[i] = 0})
<1> DEFINE inner == IF "inner" \in flags THEN [k \in 1 .. kInnerMax - 1 |-> k] ELSE << >>
           reserve == IF "reserve" \in flags
                      THEN [k \in 1 .. kReserve |-> reserve_begin_id + k - 1] ELSE << >>
           declare == IF "declare" \in flags THEN Stops ELSE << >>
           Of(f) == IF f \in flags THEN Part[f] ELSE {}
           Need(f) == {i \in Of(f) : active[i] /\ upper[i] = 0}
<1>1. /\ kInnerMax \in Nat /\ kReserve \in Nat /\ kInnerMax > 1
      /\ declare_begin_id = kInnerMax + kReserve /\ reserve_begin_id = kInnerMax
  BY IdsAssumption DEF declare_begin_id, reserve_end_id, reserve_begin_id
<1>2. Calls(flags) = (inner \o reserve) \o declare
  BY DEF Calls
<1>3. Visits(<< >>, {}, {})
  BY DEF Visits, Holds
<1>4. Visits(inner, Of("inner"), Need("inner"))
  <2>1. CASE "inner" \in flags
    <3> DEFINE s == [k \in 1 .. kInnerMax - 1 |-> k]
    <3>1. Of("inner") = 1 .. kInnerMax - 1
      BY <2>1, PartsAre
    <3>2. s \in Seq(1 .. kInnerMax - 1) /\ Len(s) = kInnerMax - 1
      BY <1>1
    <3>3. Visits(s, 1 .. kInnerMax - 1, Need("inner"))
      <4>1. \A x \in Need("inner") : x \in 1 .. kInnerMax - 1
        BY <3>1
      <4> HIDE DEF Need
      <4> QED BY <3>2, <4>1 DEF Visits, Holds
    <3> QED BY <2>1, <3>1, <3>3
  <2>2. CASE "inner" \notin flags
    BY <1>3, <2>2
  <2> QED BY <2>1, <2>2
<1>5. Visits(reserve, Of("reserve"), Need("reserve"))
  <2>1. CASE "reserve" \in flags
    <3> DEFINE s == [k \in 1 .. kReserve |-> reserve_begin_id + k - 1]
               R == kInnerMax .. declare_begin_id - 1
    <3>1. Of("reserve") = R
      BY <2>1, PartsAre
    <3>2. s \in Seq(R) /\ Len(s) = kReserve /\ \A k \in 1 .. kReserve : s[k] = kInnerMax + k - 1
      <4>1. \A k \in 1 .. kReserve : reserve_begin_id + k - 1 \in R
        BY <1>1
      <4> QED BY <1>1, <4>1
    <3>3. \A x \in R : x - kInnerMax + 1 \in 1 .. kReserve /\ x = kInnerMax + (x - kInnerMax + 1) - 1
      BY <1>1
    <3>4. \A x \in R : Holds(s, x)
      <4> HIDE DEF s, R
      <4> QED BY <3>2, <3>3 DEF Holds
    <3>5. \A j, k \in 1 .. Len(s) : s[j] = s[k] => j = k
      <4> HIDE DEF s
      <4> QED BY <1>1, <3>2
    <3>6. \A x \in Need("reserve") : x \in R
      BY <3>1
    <3> HIDE DEF s, R, Need
    <3>7. Visits(s, R, Need("reserve"))
      BY <3>2, <3>4, <3>5, <3>6 DEF Visits
    <3> QED BY <2>1, <3>1, <3>7 DEF s
  <2>2. CASE "reserve" \notin flags
    BY <1>3, <2>2
  <2> QED BY <2>1, <2>2
<1>6. Visits(declare, Of("declare"), Need("declare"))
  <2>1. CASE "declare" \in flags
    <3>1. Of("declare") = Declared
      BY <2>1, PartsAre
    <3> QED BY <2>1, <3>1, StopsFacts
  <2>2. CASE "declare" \notin flags
    BY <1>3, <2>2
  <2> QED BY <2>1, <2>2
<1>7. Of("inner") \cap Of("reserve") = {} /\ (Of("inner") \cup Of("reserve")) \cap Of("declare") = {}
  <2>1. /\ Part["inner"] = 1 .. kInnerMax - 1
        /\ Part["reserve"] = kInnerMax .. declare_begin_id - 1
        /\ Part["declare"] = declare_begin_id .. end_id - 1
    BY PartsAre, Layout
  <2>2. Part["inner"] \cap Part["reserve"] = {} /\ Part["inner"] \cap Part["declare"] = {}
        /\ Part["reserve"] \cap Part["declare"] = {}
    BY <1>1, <2>1, Layout
  <2> QED BY <2>2
<1>8. Asked(flags) = (Of("inner") \cup Of("reserve")) \cup Of("declare")
  BY PartsAre DEF Flags
<1>9. {i \in Asked(flags) : active[i] /\ upper[i] = 0}
        = (Need("inner") \cup Need("reserve")) \cup Need("declare")
  BY <1>8
<1> HIDE DEF inner, reserve, declare, Of, Need
<1>10. Visits(inner \o reserve, Of("inner") \cup Of("reserve"), Need("inner") \cup Need("reserve"))
  BY <1>4, <1>5, <1>7, VisitsConcat
<1>11. Visits((inner \o reserve) \o declare, (Of("inner") \cup Of("reserve")) \cup Of("declare"),
              (Need("inner") \cup Need("reserve")) \cup Need("declare"))
  BY <1>6, <1>7, <1>10, VisitsConcat
<1> QED BY <1>2, <1>8, <1>9, <1>11

----------------------------------------------------------------------------
(* Reports                                                                 *)

\* A report of the calls for ids prints the trees asked for, each once.
Reported(top, lines) ==
    /\ lines \in Seq(Line)
    /\ NoneTwice(lines)
    /\ \A n, e : Holds(lines, <<n, e>>) =>
         /\ e \in 0 .. Deepest /\ active[n]
         /\ UpperAt(n)[e] \in top /\ upper[UpperAt(n)[e]] = 0
    /\ output => \A r \in top : upper[r] = 0 /\ active[r] /\ Printable(r) =>
         \A n \in Id, m \in 0 .. Deepest : UpperAt(n)[m] = r => Holds(lines, <<n, m>>)

LEMMA ReportedIsExact ==
    ASSUME NEW top, NEW lines, Reported(top, lines), out = [top |-> top, lines |-> lines]
    PROVE  ReportExact
<1>1. out.top = top /\ out.lines = lines /\ lines \in Seq(Line)
  BY DEF Reported
<1>2. ReportComplete
  <2> SUFFICES ASSUME output, NEW r \in top, upper[r] = 0, active[r], Printable(r), NEW n \in Tree(r)
               PROVE  \E k \in 1 .. Len(lines) :
                        /\ lines[k][1] = n /\ ShownAt(n, r, lines[k][2])
                        /\ \A j \in 1 .. Len(lines) : lines[j][1] = n => j = k
    BY <1>1 DEF ReportComplete
  <2>1. PICK m \in 0 .. Deepest : n \in Id /\ UpperAt(n)[m] = r
    BY DEF Tree, ShownAt, Deepest
  <2>2. Holds(lines, <<n, m>>)
    BY <2>1 DEF Reported
  <2>3. PICK k \in 1 .. Len(lines) : lines[k] = <<n, m>>
    BY <2>2 DEF Holds
  <2>4. lines[k][1] = n /\ lines[k][2] = m
    BY <2>3
  <2>5. \A j \in 1 .. Len(lines) : lines[j][1] = n => j = k
    BY <2>4 DEF Reported, NoneTwice
  <2> QED BY <2>1, <2>4, <2>5 DEF ShownAt
<1>3. ReportSound
  <2>1. \A j, k \in 1 .. Len(lines) : lines[j][1] = lines[k][1] => j = k
    BY DEF Reported, NoneTwice
  <2>2. ASSUME NEW k \in 1 .. Len(lines)
        PROVE  /\ active[lines[k][1]] /\ UpperAt(lines[k][1])[lines[k][2]] \in top
               /\ upper[UpperAt(lines[k][1])[lines[k][2]]] = 0
    <3>1. PICK n, e : lines[k] = <<n, e>>
      <4>1. lines[k] \in Line
        BY <1>1, ElementOfSeq
      <4> QED BY <4>1 DEF Line
    <3>2. Holds(lines, <<n, e>>)
      BY <3>1 DEF Holds
    <3>3. lines[k][1] = n /\ lines[k][2] = e
      BY <3>1
    <3> QED BY <3>2, <3>3 DEF Reported
  <2> QED BY <1>1, <2>1, <2>2 DEF ReportSound
<1> QED BY <1>2, <1>3 DEF ReportExact

LEMMA OneIsReported ==
    ASSUME IInv, WindowCovers, NEW i \in Id
    PROVE  Reported({i}, Top(i, Walk).lines)
<1>1. PICK lines : lines = Top(i, Walk).lines
  OBVIOUS
<1>2. /\ lines \in Seq(Line)
      /\ NoneTwice(lines)
      /\ \A n, e : Holds(lines, <<n, e>>) =>
           n \in Id /\ e \in 0 .. Deepest /\ active[n] /\ upper[i] = 0 /\ UpperAt(n)[e] = i
      /\ output /\ upper[i] = 0 /\ Printable(i) =>
           \A n \in Id, m \in 0 .. Deepest : UpperAt(n)[m] = i => Holds(lines, <<n, m>>)
  BY <1>1, TopRight
<1>3. Reported({i}, lines)
  BY <1>2 DEF Reported
<1> QED BY <1>1, <1>3

LEMMA AllIsReported ==
    ASSUME IInv, WindowCovers, JumpsSafe, WindowEnds, NEW flags \in SUBSET Flags
    PROVE  Reported(Asked(flags),
                    Collected([k \in 1 .. Len(Calls(flags)) |-> Top(Calls(flags)[k], Walk)],
                              Len(Calls(flags))))
<1>1. PICK ids, w : ids = Calls(flags) /\ w = Walk
  OBVIOUS
<1> DEFINE N == Len(ids)
           runs == [k \in 1 .. N |-> Top(ids[k], w)]
           all == Collected(runs, N)
           top == Asked(flags)
<1>2. Visits(ids, top, {i \in top : active[i] /\ upper[i] = 0}) /\ top \subseteq Id
  BY <1>1, CallsFacts, PartsAre
<1>3. N \in Nat /\ \A k \in 1 .. N : ids[k] \in top /\ ids[k] \in Id
  BY <1>2, LenProperties, ElementOfSeq DEF Visits
<1>4. ASSUME NEW k \in 1 .. N
      PROVE  /\ runs[k].lines \in Seq(Line)
             /\ NoneTwice(runs[k].lines)
             /\ \A n, e : Holds(runs[k].lines, <<n, e>>) =>
                  /\ n \in Id /\ e \in 0 .. Deepest /\ active[n]
                  /\ upper[ids[k]] = 0 /\ UpperAt(n)[e] = ids[k]
             /\ output /\ upper[ids[k]] = 0 /\ Printable(ids[k]) =>
                  \A n \in Id, m \in 0 .. Deepest :
                      UpperAt(n)[m] = ids[k] => Holds(runs[k].lines, <<n, m>>)
  <2>1. PICK i \in Id : i = ids[k]
    BY <1>3
  <2>2. runs[k].lines = Top(i, Walk).lines
    BY <1>1, <2>1
  <2>3. PICK lines : lines = Top(i, Walk).lines
    OBVIOUS
  <2>4. /\ lines \in Seq(Line)
        /\ NoneTwice(lines)
        /\ \A n, e : Holds(lines, <<n, e>>) =>
             n \in Id /\ e \in 0 .. Deepest /\ active[n] /\ upper[i] = 0 /\ UpperAt(n)[e] = i
        /\ output /\ upper[i] = 0 /\ Printable(i) =>
             \A n \in Id, m \in 0 .. Deepest : UpperAt(n)[m] = i => Holds(lines, <<n, m>>)
    BY <2>3, TopRight
  <2> HIDE DEF runs
  <2> QED BY <2>1, <2>2, <2>3, <2>4
<1> HIDE DEF runs, N
<1>5. /\ all \in Seq(Line)
      /\ \A x : Holds(all, x) <=> \E k \in 1 .. N : Holds(runs[k].lines, x)
      /\ /\ \A k \in 1 .. N : NoneTwice(runs[k].lines)
         /\ \A j, k \in 1 .. N : j # k => Apart(runs[j].lines, runs[k].lines)
         => NoneTwice(all)
  BY <1>3, <1>4, CollectedLines
<1> HIDE DEF all
<1>6. ASSUME NEW j \in 1 .. N, NEW k \in 1 .. N, j # k PROVE Apart(runs[j].lines, runs[k].lines)
  <2> SUFFICES ASSUME NEW x, NEW y, Holds(runs[j].lines, x), Holds(runs[k].lines, y), x[1] = y[1]
               PROVE  FALSE
    BY DEF Apart
  <2>1. PICK n, a, b : x = <<n, a>> /\ y = <<n, b>>
    <3>1. x \in Line /\ y \in Line
      BY <1>4, ElementOfSeq DEF Holds
    <3> QED BY <3>1 DEF Line
  <2>2. n \in Id0 /\ a \in 0 .. Deepest /\ UpperAt(n)[a] = ids[j] /\ upper[ids[j]] = 0
    BY <1>4, <2>1, IdSets
  <2>3. b \in 0 .. Deepest /\ UpperAt(n)[b] = ids[k] /\ upper[ids[k]] = 0
    BY <1>4, <2>1
  <2>4. a = b
    BY <1>3, <2>2, <2>3, OneRoot DEF IsRoot
  <2> QED BY <1>2, <1>6, <2>2, <2>3, <2>4 DEF Visits, N
<1>7. NoneTwice(all)
  BY <1>4, <1>5, <1>6
<1>8. ASSUME NEW n, NEW e, Holds(all, <<n, e>>)
      PROVE  /\ e \in 0 .. Deepest /\ active[n]
             /\ UpperAt(n)[e] \in top /\ upper[UpperAt(n)[e]] = 0
  <2>1. PICK k \in 1 .. N : Holds(runs[k].lines, <<n, e>>)
    BY <1>5, <1>8
  <2> HIDE DEF top
  <2> QED BY <1>3, <1>4, <2>1
<1>9. ASSUME output, NEW r \in top, upper[r] = 0, active[r], Printable(r),
             NEW n \in Id, NEW m \in 0 .. Deepest, UpperAt(n)[m] = r
      PROVE  Holds(all, <<n, m>>)
  <2>1. PICK k \in 1 .. N : ids[k] = r
    BY <1>2, <1>9 DEF Visits, Holds, N
  <2>2. Holds(runs[k].lines, <<n, m>>)
    BY <1>4, <1>9, <2>1
  <2> QED BY <1>5, <2>2
<1>10. Reported(top, all)
  <2> HIDE DEF top
  <2> QED BY <1>5, <1>7, <1>8, <1>9 DEF Reported
<1> QED BY <1>1, <1>10 DEF all, runs, N

\* The last report is right for the hierarchy as it is, or nothing was asked for.
LastReported ==
    \/ out.top = {}
    \/ \E top, lines : out = [top |-> top, lines |-> lines] /\ Reported(top, lines)

LEMMA SameLevels ==
    ASSUME UNCHANGED upper, NEW n
    PROVE  UpperAt(n)' = UpperAt(n)
BY DEF UpperAt

LEMMA ReportedStays ==
    ASSUME UNCHANGED <<active, trait, upper, output>>, NEW top, NEW lines, Reported(top, lines)
    PROVE  Reported(top, lines)'
<1>1. ASSUME NEW n, NEW r, NEW d PROVE ShownAt(n, r, d)' = ShownAt(n, r, d)
  BY SameLevels DEF ShownAt
<1>2. ASSUME NEW r PROVE Tree(r)' = Tree(r)
  BY <1>1 DEF Tree
<1>3. ASSUME NEW r PROVE Printable(r)' = Printable(r)
  BY <1>1, <1>2 DEF Printable
<1> QED BY <1>3, SameLevels DEF Reported

LEMMA NextReported ==
    IInv /\ WindowCovers /\ JumpsSafe /\ WindowEnds /\ LastReported /\ [Next]_vars => LastReported'
<1> SUFFICES ASSUME IInv, WindowCovers, JumpsSafe, WindowEnds, LastReported, [Next]_vars
             PROVE  LastReported'
  OBVIOUS
<1>1. CASE UNCHANGED vars
  <2>1. UNCHANGED <<active, trait, upper, output, out>>
    BY <1>1 DEF vars, show
  <2> QED BY <2>1, ReportedStays DEF LastReported
<1>2. ASSUME NEW i \in Id, OutputOneRecord(i) PROVE LastReported'
  <2>1. PICK lines : lines = Top(i, Walk).lines
    OBVIOUS
  <2>2. out' = [top |-> {i}, lines |-> lines] /\ UNCHANGED <<active, trait, upper, output>>
    BY <1>2, <2>1 DEF OutputOneRecord, show
  <2>3. Reported({i}, lines)
    BY <2>1, OneIsReported
  <2> QED BY <2>2, <2>3, ReportedStays DEF LastReported
<1>3. ASSUME NEW flags \in SUBSET Flags, OutputReport(flags) PROVE LastReported'
  <2>1. PICK lines : lines = Collected([k \in 1 .. Len(Calls(flags)) |-> Top(Calls(flags)[k], Walk)],
                                       Len(Calls(flags)))
    OBVIOUS
  <2>2. out' = [top |-> Asked(flags), lines |-> lines] /\ UNCHANGED <<active, trait, upper, output>>
    BY <1>3, <2>1 DEF OutputReport, show, Asked
  <2>3. Reported(Asked(flags), lines)
    BY <2>1, AllIsReported
  <2> QED BY <2>2, <2>3, ReportedStays DEF LastReported
<1>4. ASSUME NEW name, OutputTempRecord(name) PROVE LastReported'
  BY <1>4 DEF OutputTempRecord, LastReported
<1>5. CASE out' = NoOut
  BY <1>5 DEF NoOut, LastReported
<1>6. CASE InitRecord
  BY <1>5, <1>6 DEF InitRecord
<1>7. ASSUME NEW i, NEW tr, NEW re_reg, Regist(i, tr, re_reg) PROVE LastReported'
  BY <1>5, <1>7 DEF Regist
<1>8. ASSUME NEW p, ResetChilds(p) PROVE LastReported'
  BY <1>5, <1>8 DEF ResetChilds
<1>9. CASE \/ \E i \in Id, name \in Names : Rename(i, name)
           \/ \E p, c \in Id : BindChilds(p, c)
           \/ BuildJumpPath
           \/ \E i \in Id0, f \in Fields : Record(i, f)
           \/ \E keep \in BOOLEAN : ResetRangeNode(reserve_begin_id, reserve_end_id, keep)
           \/ \E keep \in BOOLEAN : ResetRangeNode(declare_begin_id, declare_end_id, keep)
           \/ \E set \in BOOLEAN : SetOutputFunc(set)
  BY <1>5, <1>9, Zenon DEF Rename, BindChilds, BuildJumpPath, Record, ResetRangeNode, SetOutputFunc
<1> QED BY <1>1, <1>2, <1>3, <1>4, <1>6, <1>7, <1>8, <1>9, Zenon DEF Next

\* Unless a client re-registers a linked entry, every report is exact: it prints
\* every entry of every printable tree it was asked for, once and at its depth,
\* and nothing that is not registered and shown there, whatever else was bound,
\* moved, renamed or registered before and however the ids are ordered.
THEOREM ReportsAreExact ==
    ASSUME "parent" \notin ReReg, "child" \notin ReReg
    PROVE  Spec => []ReportExact
<1>1. Init => LastReported /\ WindowEnds
  <2>1. declare_begin_id \in declare_begin_id .. end_id /\ Declared \subseteq Id0
    BY Layout, IdFacts
  <2> QED BY <2>1 DEF Init, LastReported, NoOut, WindowEnds
<1>2. LastReported => ReportExact
  <2>1. out.top = {} => ReportExact
    BY DEF ReportExact, ReportComplete, ReportSound
  <2> QED BY <2>1, ReportedIsExact DEF LastReported
<1> QED BY <1>1, <1>2, NextReported, NextWindowEnds, Inductive, WindowsCover, JumpsSkipNestedOnly,
           PTL DEF Spec

=============================================================================
