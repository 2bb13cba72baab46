--------------------------- MODULE ZAccountProofs ---------------------------
(***************************************************************************)
(* Proofs about the figures the allocator keeps of its chunks: what        *)
(* debug_state_log and debug_color_log print is what is in use, after any  *)
(* sequence of calls, and the checks it runs on itself find nothing.       *)
(*                                                                         *)
(* The first part is about sums.  The second says how the sums and counts  *)
(* over what is lent change with one chunk more; a chunk given back is the *)
(* same read backwards.  The third follows the headers through every       *)
(* operator of the module: no step touches the flags, the bin or the       *)
(* colour of a chunk in use, except the one that hands it out or takes it  *)
(* back.  The last reads the invariant of the heap as check_block and      *)
(* check_chunk do: the sizes of the chunks add up to that of their block.  *)
(***************************************************************************)
EXTENDS ZMallocProofs

-----------------------------------------------------------------------------
(* Sums: what SumFunctionOnSet adds up, for every finite set and every     *)
(* numbers.  The value does not depend on the order in which CHOOSE takes  *)
(* the elements; how it changes with the set and with the numbers.         *)

\* The recursion behind SumFunctionOnSet, over the subsets of U.
SumsOver(U, f, G) ==
    \A s \in SUBSET U :
         G[s] = IF s = {} THEN 0
                ELSE f[CHOOSE x \in s : TRUE] + G[s \ {CHOOSE x \in s : TRUE}]

\* Of every set of numbers that is not empty one is the least.
LEMMA LeastOf ==
    ASSUME NEW T, T \in SUBSET Nat, T # {}
    PROVE  \E n \in T : \A m \in T : n <= m
<1>1. PICK n \in T : \A m \in T : ~(<<m, n>> \in OpToRel(<, Nat))
  BY NatLessThanWellFounded, WFMin
<1>2. \A m \in T : ~(m < n)
  BY <1>1 DEF OpToRel
<1> QED BY <1>2

\* One element less.
LEMMA OneLess ==
    ASSUME NEW s, IsFiniteSet(s), NEW x \in s
    PROVE  /\ IsFiniteSet(s \ {x})
           /\ Cardinality(s) \in Nat /\ Cardinality(s) > 0
           /\ Cardinality(s \ {x}) = Cardinality(s) - 1
BY FS_RemoveElement, FS_EmptySet, FS_CardinalityType

\* Of every set of subsets that is not empty one has no smaller one in it.
LEMMA SmallestOf ==
    ASSUME NEW U, IsFiniteSet(U), NEW W, W \in SUBSET (SUBSET U), W # {}
    PROVE  \E t \in W : \A x \in t : t \ {x} \notin W
<1> DEFINE Sizes == {Cardinality(t) : t \in W}
<1>1. \A t \in W : IsFiniteSet(t) /\ Cardinality(t) \in Nat
  BY FS_Subset, FS_CardinalityType
<1>2. PICK n \in Sizes : \A m \in Sizes : n <= m
  <2>1. Sizes \in SUBSET Nat /\ Sizes # {}
    BY <1>1
  <2> QED BY <2>1, LeastOf
<1>3. PICK t \in W : Cardinality(t) = n
  BY <1>2
<1>4. ASSUME NEW x \in t PROVE t \ {x} \notin W
  <2>1. Cardinality(t \ {x}) = n - 1 /\ n \in Nat
    BY <1>1, <1>3, OneLess
  <2>2. n - 1 \notin Sizes
    BY <1>2, <2>1
  <2> QED BY <2>1, <2>2
<1> QED BY <1>4

\* There is such a function: one for the sets of at most n elements extends to
\* those of n + 1.
LEMMA SumsExist ==
    ASSUME NEW U, IsFiniteSet(U), NEW f \in [U -> Int]
    PROVE  \E G \in [SUBSET U -> Int] : SumsOver(U, f, G)
<1> DEFINE Pick(s) == CHOOSE x \in s : TRUE
           Small(n) == {s \in SUBSET U : Cardinality(s) <= n}
           Does(n, G) == /\ G \in [SUBSET U -> Int]
                         /\ \A s \in Small(n) : G[s] = IF s = {} THEN 0 ELSE f[Pick(s)] + G[s \ {Pick(s)}]
           Bad == {n \in Nat : ~ \E G : Does(n, G)}
<1>1. \A s \in SUBSET U : IsFiniteSet(s) /\ Cardinality(s) \in Nat /\ Cardinality(s) <= Cardinality(U)
  BY FS_Subset, FS_CardinalityType
<1>2. \A s : s # {} => Pick(s) \in s
  OBVIOUS
<1> HIDE DEF Pick
<1>3. Does(0, [s \in SUBSET U |-> 0])
  <2>1. \A s \in Small(0) : s = {}
    BY <1>1, FS_EmptySet
  <2> QED BY <2>1
<1>4. ASSUME NEW n \in Nat, NEW G, Does(n, G) PROVE \E H : Does(n + 1, H)
  <2> DEFINE H == [s \in SUBSET U |-> IF s = {} THEN 0 ELSE f[Pick(s)] + G[s \ {Pick(s)}]]
  <2>1. \A s \in SUBSET U : s # {} => Pick(s) \in U /\ s \ {Pick(s)} \in SUBSET U
    BY <1>2
  <2>2. H \in [SUBSET U -> Int]
    BY <2>1, <1>4
  <2>3. ASSUME NEW s \in Small(n) PROVE H[s] = G[s]
    BY <1>4
  <2>4. ASSUME NEW s \in Small(n + 1), s # {} PROVE s \ {Pick(s)} \in Small(n)
    <3>1. Cardinality(s \ {Pick(s)}) = Cardinality(s) - 1 /\ Cardinality(s) \in Nat
      BY <1>1, <1>2, <2>4, OneLess
    <3> QED BY <3>1, <2>1, <2>4
  <2>5. ASSUME NEW s \in Small(n + 1)
        PROVE  H[s] = IF s = {} THEN 0 ELSE f[Pick(s)] + H[s \ {Pick(s)}]
    BY <2>3, <2>4
  <2> QED BY <2>2, <2>5
<1>5. Bad = {}
  <2> SUFFICES ASSUME Bad # {} PROVE FALSE
    OBVIOUS
  <2>1. PICK n \in Bad : \A m \in Bad : n <= m
    BY LeastOf
  <2> HIDE DEF Does
  <2>2. n # 0
    BY <1>3
  <2>3. n - 1 \in Nat /\ n - 1 \notin Bad
    BY <2>1, <2>2
  <2>4. PICK G : Does(n - 1, G)
    BY <2>3
  <2>5. \E H : Does((n - 1) + 1, H)
    BY <1>4, <2>3, <2>4
  <2>6. (n - 1) + 1 = n
    BY <2>1
  <2> QED BY <2>1, <2>5, <2>6
<1>6. PICK G : Does(Cardinality(U), G)
  <2> HIDE DEF Does
  <2> QED BY <1>5, FS_CardinalityType
<1>7. \A s \in SUBSET U : s \in Small(Cardinality(U))
  BY <1>1
<1>8. G \in [SUBSET U -> Int] /\ SumsOver(U, f, G)
  BY <1>6, <1>7 DEF SumsOver, Pick
<1> QED BY <1>8

\* And one only, also on the subsets of a smaller set.
LEMMA SumsAgree ==
    ASSUME NEW U, IsFiniteSet(U), NEW V \in SUBSET U, NEW f \in [U -> Int],
           NEW G, SumsOver(U, f, G), NEW H, SumsOver(V, f, H), NEW s \in SUBSET V
    PROVE  H[s] = G[s]
<1> DEFINE Pick(t) == CHOOSE x \in t : TRUE
           Wrong == {t \in SUBSET V : H[t] # G[t]}
<1>1. \A t : t # {} => Pick(t) \in t
  OBVIOUS
<1>2. \A t \in SUBSET V : /\ t \in SUBSET U
                          /\ G[t] = IF t = {} THEN 0 ELSE f[Pick(t)] + G[t \ {Pick(t)}]
                          /\ H[t] = IF t = {} THEN 0 ELSE f[Pick(t)] + H[t \ {Pick(t)}]
  BY DEF SumsOver
<1> HIDE DEF Pick
<1>3. ASSUME Wrong # {} PROVE FALSE
  <2>1. PICK t \in Wrong : \A x \in t : t \ {x} \notin Wrong
    <3>1. IsFiniteSet(V) /\ Wrong \in SUBSET (SUBSET V)
      BY FS_Subset
    <3> HIDE DEF Wrong
    <3> QED BY <1>3, <3>1, SmallestOf
  <2>2. t # {}
    BY <1>2
  <2>3. t \ {Pick(t)} \notin Wrong
    BY <1>1, <2>1, <2>2
  <2>4. H[t \ {Pick(t)}] = G[t \ {Pick(t)}]
    BY <2>3
  <2> QED BY <1>2, <2>2, <2>4
<1> QED BY <1>3

LEMMA SumIs ==
    ASSUME NEW U, IsFiniteSet(U), NEW f \in [U -> Int], NEW G, SumsOver(U, f, G),
           NEW S \in SUBSET U
    PROVE  SumFunctionOnSet(f, S) = G[S]
<1> DEFINE Body(g) == [s \in SUBSET S |-> IF s = {} THEN 0
                          ELSE f[CHOOSE x \in s : TRUE] + g[s \ {CHOOSE x \in s : TRUE}]]
           iter == CHOOSE g : g = Body(g)
<1>1. SumFunctionOnSet(f, S) = iter[S]
  BY DEF SumFunctionOnSet, FoldFunctionOnSet, MapThenFoldSet
<1> DEFINE H == [s \in SUBSET S |-> G[s]]
<1>2. H = Body(H)
  BY DEF SumsOver
<1>3. iter = Body(iter)
  BY <1>2
<1> HIDE DEF iter
<1>4. SumsOver(S, f, iter)
  <2>1. \A s \in SUBSET S : iter[s] = Body(iter)[s]
    BY <1>3
  <2> QED BY <2>1 DEF SumsOver
<1> QED BY <1>1, <1>4, SumsAgree

\* The value of the sum does not depend on the element that is taken first.
LEMMA SumStep ==
    ASSUME NEW U, IsFiniteSet(U), NEW f \in [U -> Int], NEW S \in SUBSET U, NEW x \in S
    PROVE  SumFunctionOnSet(f, S) = f[x] + SumFunctionOnSet(f, S \ {x})
<1>1. PICK G \in [SUBSET U -> Int] : SumsOver(U, f, G)
  BY SumsExist
<1> DEFINE Pick(t) == CHOOSE y \in t : TRUE
           Fails(t) == \E y \in t : G[t] # f[y] + G[t \ {y}]
           Wrong == {t \in SUBSET U : Fails(t)}
<1>2. \A t \in SUBSET U : t # {} => Pick(t) \in t /\ G[t] = f[Pick(t)] + G[t \ {Pick(t)}]
  BY <1>1 DEF SumsOver
<1> HIDE DEF Pick
<1>3. ASSUME Wrong # {} PROVE FALSE
  <2>1. PICK t \in Wrong : \A q \in t : t \ {q} \notin Wrong
    <3>1. Wrong \in SUBSET (SUBSET U)
      OBVIOUS
    <3> HIDE DEF Wrong
    <3> QED BY <1>3, <3>1, SmallestOf
  <2>2. PICK y \in t : G[t] # f[y] + G[t \ {y}]
    OBVIOUS
  <2>3. PICK p \in t : p # y /\ G[t] = f[p] + G[t \ {p}]
    BY <1>2, <2>2
  <2>4. ASSUME NEW q \in t PROVE ~Fails(t \ {q})
    BY <2>1
  <2>5. y \in t \ {p} /\ p \in t \ {y}
    BY <2>2, <2>3
  <2>6. G[t \ {p}] = f[y] + G[(t \ {p}) \ {y}] /\ G[t \ {y}] = f[p] + G[(t \ {y}) \ {p}]
    BY <2>4, <2>5
  <2>7. (t \ {p}) \ {y} = (t \ {y}) \ {p} /\ (t \ {y}) \ {p} \in SUBSET U /\ y \in U /\ p \in U
    OBVIOUS
  <2>8. G[(t \ {y}) \ {p}] \in Int /\ f[y] \in Int /\ f[p] \in Int
    BY <1>1, <2>7
  <2>9. G[t] = f[y] + G[t \ {y}]
    <3> DEFINE r == G[(t \ {y}) \ {p}]
    <3>1. G[t \ {p}] = f[y] + r /\ G[t \ {y}] = f[p] + r /\ r \in Int
      BY <2>6, <2>7, <2>8
    <3> HIDE DEF r
    <3> QED BY <2>3, <2>8, <3>1
  <2> QED BY <2>2, <2>9
<1>4. G[S] = f[x] + G[S \ {x}]
  BY <1>3
<1>5. SumFunctionOnSet(f, S) = G[S] /\ SumFunctionOnSet(f, S \ {x}) = G[S \ {x}]
  <2>1. S \ {x} \in SUBSET U
    OBVIOUS
  <2> QED BY <1>1, <2>1, SumIs
<1> QED BY <1>4, <1>5

LEMMA SumType ==
    ASSUME NEW U, IsFiniteSet(U), NEW f \in [U -> Int], NEW S \in SUBSET U
    PROVE  SumFunctionOnSet(f, S) \in Int /\ SumFunctionOnSet(f, {}) = 0
<1>1. PICK G \in [SUBSET U -> Int] : SumsOver(U, f, G)
  BY SumsExist
<1>2. {} \in SUBSET U
  OBVIOUS
<1>3. SumFunctionOnSet(f, S) = G[S] /\ SumFunctionOnSet(f, {}) = G[{}]
  BY <1>1, <1>2, SumIs
<1>4. G[{}] = 0
  BY <1>1, <1>2 DEF SumsOver
<1> QED BY <1>1, <1>3, <1>4

LEMMA SumOne ==
    ASSUME NEW U, IsFiniteSet(U), NEW f \in [U -> Int], NEW n \in U
    PROVE  SumFunctionOnSet(f, {n}) = f[n]
<1>1. SumFunctionOnSet(f, {n}) = f[n] + SumFunctionOnSet(f, {n} \ {n})
  BY SumStep
<1>2. {n} \ {n} = {}
  OBVIOUS
<1>3. SumFunctionOnSet(f, {n}) = f[n] + SumFunctionOnSet(f, {})
  BY <1>1, <1>2
<1>4. SumFunctionOnSet(f, {}) = 0
  BY SumType
<1>5. f[n] \in Int
  OBVIOUS
<1> QED BY <1>3, <1>4, <1>5

\* The sum over two sets without a common element.
LEMMA SumUnion ==
    ASSUME NEW U, IsFiniteSet(U), NEW f \in [U -> Int],
           NEW S \in SUBSET U, NEW T \in SUBSET U, S \cap T = {}
    PROVE  SumFunctionOnSet(f, S \cup T) = SumFunctionOnSet(f, S) + SumFunctionOnSet(f, T)
<1> DEFINE Sum(t) == SumFunctionOnSet(f, t)
           AddsUp(t) == t \cap S = {} => Sum(S \cup t) = Sum(S) + Sum(t)
           Wrong == {t \in SUBSET U : ~AddsUp(t)}
<1>1. \A t \in SUBSET U : Sum(t) \in Int /\ \A x \in t : Sum(t) = f[x] + Sum(t \ {x})
  BY SumStep, SumType
<1>2. Sum({}) = 0
  BY SumType
<1> HIDE DEF Sum
<1>3. ASSUME Wrong # {} PROVE FALSE
  <2>1. PICK t \in Wrong : \A x \in t : t \ {x} \notin Wrong
    <3>1. Wrong \in SUBSET (SUBSET U)
      OBVIOUS
    <3> HIDE DEF Wrong
    <3> QED BY <1>3, <3>1, SmallestOf
  <2>2. t \in SUBSET U /\ ~AddsUp(t)
    OBVIOUS
  <2>3. AddsUp({})
    <3>1. S \cup {} = S /\ Sum(S) \in Int
      BY <1>1
    <3> QED BY <1>2, <3>1
  <2>4. PICK x : x \in t
    BY <2>2, <2>3
  <2>5. AddsUp(t \ {x})
    BY <2>1, <2>2, <2>4
  <2>6. (S \cup t) \ {x} = S \cup (t \ {x}) /\ x \in S \cup t /\ S \cup t \in SUBSET U
        /\ (t \ {x}) \cap S = {}
    BY <2>2, <2>4
  <2>7. Sum(S \cup t) = f[x] + Sum(S \cup (t \ {x})) /\ Sum(t) = f[x] + Sum(t \ {x})
    BY <1>1, <2>2, <2>4, <2>6
  <2>8. Sum(S \cup (t \ {x})) = Sum(S) + Sum(t \ {x})
    BY <2>5, <2>6
  <2>9. f[x] \in Int /\ Sum(S) \in Int /\ Sum(t \ {x}) \in Int
    BY <1>1, <2>2, <2>4
  <2>10. Sum(S \cup t) = Sum(S) + Sum(t)
    BY <2>7, <2>8, <2>9
  <2> QED BY <2>2, <2>10
<1>4. AddsUp(T)
  BY <1>3
<1> QED BY <1>4 DEF Sum

\* What holds of the empty set, and of a set when it holds of every set of one
\* element less, holds of every subset of a finite set.
LEMMA SetsOneByOne ==
    ASSUME NEW U, IsFiniteSet(U), NEW W, {} \in W,
           \A t \in SUBSET U : t # {} /\ (\A x \in t : t \ {x} \in W) => t \in W
    PROVE  \A t \in SUBSET U : t \in W
<1> DEFINE Wrong == {t \in SUBSET U : t \notin W}
<1>1. ASSUME Wrong # {} PROVE FALSE
  <2>1. PICK t \in Wrong : \A x \in t : t \ {x} \notin Wrong
    <3>1. Wrong \in SUBSET (SUBSET U)
      OBVIOUS
    <3> HIDE DEF Wrong
    <3> QED BY <1>1, <3>1, SmallestOf
  <2>2. t \in SUBSET U /\ t \notin W /\ t # {}
    OBVIOUS
  <2>3. \A x \in t : t \ {x} \in W
    BY <2>1, <2>2
  <2> QED BY <2>2, <2>3
<1> QED BY <1>1

\* Smaller numbers have the smaller sum.
LEMMA SumLeq ==
    ASSUME NEW S, IsFiniteSet(S), NEW f \in [S -> Int], NEW g \in [S -> Int],
           \A x \in S : f[x] <= g[x]
    PROVE  SumFunctionOnSet(f, S) <= SumFunctionOnSet(g, S)
<1> DEFINE F(t) == SumFunctionOnSet(f, t)
           G(t) == SumFunctionOnSet(g, t)
           W == {t \in SUBSET S : F(t) <= G(t)}
<1>1. \A t \in SUBSET S : /\ F(t) \in Int /\ \A x \in t : F(t) = f[x] + F(t \ {x})
                          /\ G(t) \in Int /\ \A x \in t : G(t) = g[x] + G(t \ {x})
  BY SumStep, SumType
<1>2. F({}) = 0 /\ G({}) = 0
  BY SumType
<1> HIDE DEF F, G
<1>3. ASSUME NEW t \in SUBSET S, t # {}, \A x \in t : t \ {x} \in W PROVE t \in W
  <2>1. PICK x : x \in t
    BY <1>3
  <2>2. F(t \ {x}) <= G(t \ {x}) /\ f[x] <= g[x] /\ f[x] \in Int /\ g[x] \in Int
        /\ t \ {x} \in SUBSET S
    BY <1>3, <2>1
  <2>3. F(t) = f[x] + F(t \ {x}) /\ G(t) = g[x] + G(t \ {x})
        /\ F(t \ {x}) \in Int /\ G(t \ {x}) \in Int
    BY <1>1, <2>1, <2>2
  <2>4. F(t) <= G(t)
    BY <2>2, <2>3
  <2> QED BY <2>4
<1>4. {} \in W
  BY <1>2
<1> HIDE DEF W
<1>5. \A t \in SUBSET S : t \in W
  BY ONLY <1>3, <1>4, SetsOneByOne, IsFiniteSet(S)
<1> QED BY <1>5 DEF W, F, G

\* A sum of zeros.
LEMMA SumZero ==
    ASSUME NEW S, IsFiniteSet(S), NEW f \in [S -> Int], \A x \in S : f[x] = 0
    PROVE  SumFunctionOnSet(f, S) = 0
<1> DEFINE F(t) == SumFunctionOnSet(f, t)
           W == {t \in SUBSET S : F(t) = 0}
<1>1. \A t \in SUBSET S : F(t) \in Int /\ \A x \in t : F(t) = f[x] + F(t \ {x})
  BY SumStep, SumType
<1>2. F({}) = 0
  BY SumType
<1> HIDE DEF F
<1>3. ASSUME NEW t \in SUBSET S, t # {}, \A x \in t : t \ {x} \in W PROVE t \in W
  <2>1. PICK x : x \in t
    BY <1>3
  <2>2. F(t \ {x}) = 0 /\ f[x] = 0
    BY <1>3, <2>1
  <2>3. F(t) = f[x] + F(t \ {x})
    BY <1>1, <2>1
  <2>4. F(t) = 0
    BY <2>2, <2>3
  <2> QED BY <2>4
<1>4. {} \in W
  BY <1>2
<1> HIDE DEF W
<1>5. \A t \in SUBSET S : t \in W
  BY ONLY <1>3, <1>4, SetsOneByOne, IsFiniteSet(S)
<1> QED BY <1>5 DEF W, F

\* Equal numbers, also those of a larger set.
LEMMA SumSame ==
    ASSUME NEW U, IsFiniteSet(U), NEW S \in SUBSET U, NEW f \in [S -> Int], NEW g \in [U -> Int],
           \A x \in S : f[x] = g[x]
    PROVE  SumFunctionOnSet(f, S) = SumFunctionOnSet(g, S)
<1> DEFINE F(t) == SumFunctionOnSet(f, t)
           G(t) == SumFunctionOnSet(g, t)
           W == {t \in SUBSET S : F(t) = G(t)}
<1>0. IsFiniteSet(S)
  BY FS_Subset
<1>1. \A t \in SUBSET S : /\ F(t) \in Int /\ \A x \in t : F(t) = f[x] + F(t \ {x})
  BY <1>0, SumStep, SumType
<1>2. \A t \in SUBSET U : /\ G(t) \in Int /\ \A x \in t : G(t) = g[x] + G(t \ {x})
  BY SumStep, SumType
<1>3. F({}) = 0 /\ G({}) = 0
  BY <1>0, SumType
<1> HIDE DEF F, G
<1>4. ASSUME NEW t \in SUBSET S, t # {}, \A x \in t : t \ {x} \in W PROVE t \in W
  <2>1. PICK x : x \in t
    BY <1>4
  <2>2. F(t \ {x}) = G(t \ {x}) /\ f[x] = g[x] /\ t \in SUBSET U
    BY <1>4, <2>1
  <2>3. F(t) = f[x] + F(t \ {x}) /\ G(t) = g[x] + G(t \ {x})
    BY <1>1, <1>2, <2>1, <2>2
  <2>4. F(t) = G(t)
    BY <2>2, <2>3
  <2> QED BY <2>4
<1>5. {} \in W
  BY <1>3
<1> HIDE DEF W
<1>6. \A t \in SUBSET S : t \in W
  BY ONLY <1>0, <1>4, <1>5, SetsOneByOne
<1> QED BY <1>6 DEF W, F, G

\* One element more.
LEMMA SumGrown ==
    ASSUME NEW S, IsFiniteSet(S), NEW x, x \notin S, NEW f \in [S -> Int],
           NEW g \in [S \cup {x} -> Int], \A y \in S : f[y] = g[y]
    PROVE  /\ SumFunctionOnSet(g, S \cup {x}) = SumFunctionOnSet(f, S) + g[x]
           /\ SumFunctionOnSet(f, S) \in Int /\ g[x] \in Int
<1> DEFINE U == S \cup {x}
<1>1. IsFiniteSet(U) /\ x \in U /\ S \in SUBSET U /\ U \ {x} = S /\ U \in SUBSET U
      /\ g \in [U -> Int]
  BY FS_AddElement
<1> HIDE DEF U
<1>2. SumFunctionOnSet(g, U) = g[x] + SumFunctionOnSet(g, U \ {x})
  BY <1>1, SumStep
<1>3. SumFunctionOnSet(f, S) = SumFunctionOnSet(g, S)
  BY <1>1, SumSame
<1>4. SumFunctionOnSet(f, S) \in Int /\ g[x] \in Int
  BY <1>1, SumType
<1>5. SumFunctionOnSet(g, U) = SumFunctionOnSet(f, S) + g[x]
  <2> DEFINE m == SumFunctionOnSet(f, S)
             n == g[x]
  <2>1. SumFunctionOnSet(g, U) = n + m /\ m \in Int /\ n \in Int
    BY <1>1, <1>2, <1>3, <1>4
  <2> HIDE DEF m, n
  <2>2. n + m = m + n
    BY <2>1
  <2> QED BY <2>1, <2>2 DEF m, n
<1>6. SumFunctionOnSet(g, S \cup {x}) = SumFunctionOnSet(f, S) + g[x]
  BY ONLY <1>5 DEF U
<1> QED BY ONLY <1>4, <1>6

\* One number that changes.
LEMMA SumChanged ==
    ASSUME NEW S, IsFiniteSet(S), NEW x \in S, NEW f \in [S -> Int], NEW g \in [S -> Int],
           \A y \in S : y # x => f[y] = g[y]
    PROVE  /\ SumFunctionOnSet(g, S) = SumFunctionOnSet(f, S) + (g[x] - f[x])
           /\ SumFunctionOnSet(g, S) \in Int /\ SumFunctionOnSet(f, S) \in Int
<1> DEFINE R == S \ {x}
           h == [y \in R |-> f[y]]
<1>1. R \in SUBSET S /\ R = S \ {x} /\ S \in SUBSET S /\ h \in [R -> Int]
      /\ (\A y \in R : h[y] = f[y] /\ h[y] = g[y])
  OBVIOUS
<1> HIDE DEF R, h
<1>2. SumFunctionOnSet(h, R) = SumFunctionOnSet(f, R)
      /\ SumFunctionOnSet(h, R) = SumFunctionOnSet(g, R)
  BY <1>1, SumSame
<1>3. SumFunctionOnSet(f, S) = f[x] + SumFunctionOnSet(f, R)
      /\ SumFunctionOnSet(g, S) = g[x] + SumFunctionOnSet(g, R)
  BY <1>1, SumStep
<1>4. SumFunctionOnSet(f, R) \in Int /\ SumFunctionOnSet(g, R) \in Int
      /\ f[x] \in Int /\ g[x] \in Int
  BY <1>1, SumType
<1> DEFINE rest == SumFunctionOnSet(f, R)
           all == SumFunctionOnSet(f, S)
           more == SumFunctionOnSet(g, S)
           m == f[x]
           n == g[x]
<1>5. all = m + rest /\ more = n + rest /\ rest \in Int /\ m \in Int /\ n \in Int
  BY <1>2, <1>3, <1>4
<1> HIDE DEF rest, all, more, m, n
<1>6. more = all + (n - m) /\ more \in Int /\ all \in Int
  BY ONLY <1>5
<1> QED BY ONLY <1>6 DEF all, more, m, n

-----------------------------------------------------------------------------
(* The figures and what they stand for *)

\* What is lent by alloc_memory at level l, the part of it that counter x counts,
\* and what is lent by slot i.
Of(s, held, l) == {c \in DOMAIN held : ~held[c].slot /\ Level(s, c) = l}
Counted(s, held, x) ==
    {c \in Of(s, held, x[2]) : s.mem[c].color = x[1] /\ s.mem[c].bin = x[3]}
OfSlotBin(s, held, i) == {c \in DOMAIN held : held[c].slot /\ s.mem[c].bin = i}

\* What debug_color_log prints for a small chunk, for all of them, and from the counters.
Shown == 0 .. BIG_MAX_BIN_ID
Printed(s, c) == IF s.mem[c].bin \in Shown THEN BinSize(0, s.mem[c].bin) ELSE 0
PrintedSum(s, set) == SumFunctionOnSet([c \in set |-> Printed(s, c)], set)
LogOf(k, color) ==
    SumFunctionOnSet([b \in Shown |-> k[<<color, 0, b>>] * BinSize(0, b)], Shown)
LogSum(k) == SumFunctionOnSet([color \in Colors |-> LogOf(k, color)], Colors)

Counters == Colors \X Levels \X Bins

Balanced(s, held) ==
    /\ s.bytes = SumOf(s, DOMAIN held)
    /\ \A x \in Colors \X Levels \X Shown : s.counter[x] = Cardinality(Counted(s, held, x))
    /\ \A i \in SlotIds : s.slot[i].bytes = SumOf(s, OfSlotBin(s, held, i))
    /\ LogSum(s.counter) = PrintedSum(s, Of(s, held, 0))

-----------------------------------------------------------------------------
(* One chunk more *)

SameTags(s, t, c) ==
    /\ t.mem[c].flags = s.mem[c].flags
    /\ t.mem[c].bin = s.mem[c].bin /\ t.mem[c].color = s.mem[c].color

\* The figures can be added up.
Finite(s, held) ==
    /\ IsFiniteSet(DOMAIN held)
    /\ \A c \in DOMAIN held : This(s, c) \in Nat /\ s.mem[c].bin \in Nat

\* more is what is lent in t: what held says of s, and n.
More(s, held, t, more, n) ==
    /\ n \notin DOMAIN held /\ DOMAIN more = DOMAIN held \cup {n}
    /\ \A c \in DOMAIN held : /\ more[c] = held[c] /\ This(t, c) = This(s, c)
                              /\ SameTags(s, t, c)

\* The sum of the sizes, of a part of what is lent.
LEMMA PartGrown ==
    ASSUME NEW s, NEW held, NEW t, NEW more, NEW n, More(s, held, t, more, n),
           Finite(t, more), NEW A \in SUBSET DOMAIN held
    PROVE  /\ SumOf(t, A \cup {n}) = SumOf(s, A) + This(t, n)
           /\ SumOf(t, A) = SumOf(s, A)
           /\ SumOf(s, A) \in Int /\ This(t, n) \in Int
<1> DEFINE B == A \cup {n}
           f == [c \in A |-> This(s, c)]
           g == [c \in B |-> This(t, c)]
<1>1. IsFiniteSet(A)
  <2>1. A \in SUBSET DOMAIN more
    BY DEF More
  <2> QED BY <2>1, FS_Subset DEF Finite
<1>2. \A c \in B : This(t, c) \in Nat
  BY DEF More, Finite
<1>3. \A c \in A : This(t, c) = This(s, c) /\ This(s, c) \in Nat
  BY <1>2 DEF More
<1>4. f \in [A -> Int] /\ g \in [B -> Int] /\ n \notin A
  BY <1>2, <1>3 DEF More
<1>5. (\A c \in A : f[c] = g[c]) /\ g[n] = This(t, n)
  BY <1>3
<1>6. [c \in A |-> This(t, c)] = f
  BY <1>3
<1>7. SumOf(s, A) = SumFunctionOnSet(f, A) /\ SumOf(t, B) = SumFunctionOnSet(g, B)
      /\ SumOf(t, A) = SumFunctionOnSet(f, A)
  BY <1>6 DEF SumOf
<1>8. SumFunctionOnSet(g, B) = SumFunctionOnSet(f, A) + g[n]
      /\ SumFunctionOnSet(f, A) \in Int /\ g[n] \in Int
  <2> HIDE DEF f, g
  <2> QED BY <1>1, <1>4, <1>5, SumGrown
<1> HIDE DEF f, g
<1> QED BY ONLY <1>5, <1>7, <1>8 DEF B

\* The same for what is printed,
LEMMA PrintedGrown ==
    ASSUME NEW s, NEW held, NEW t, NEW more, NEW n, More(s, held, t, more, n),
           Finite(t, more), NEW A \in SUBSET DOMAIN held
    PROVE  /\ PrintedSum(t, A \cup {n}) = PrintedSum(s, A) + Printed(t, n)
           /\ PrintedSum(t, A) = PrintedSum(s, A)
           /\ PrintedSum(s, A) \in Int /\ Printed(t, n) \in Int
<1> DEFINE B == A \cup {n}
           f == [c \in A |-> Printed(s, c)]
           g == [c \in B |-> Printed(t, c)]
<1>1. IsFiniteSet(A)
  <2>1. A \in SUBSET DOMAIN more
    BY DEF More
  <2> QED BY <2>1, FS_Subset DEF Finite
<1>2. \A c \in B : t.mem[c].bin \in Nat
  BY DEF More, Finite
<1>3. \A c \in B : Printed(t, c) \in Int
  BY <1>2, Grains DEF Printed, BinSize
<1>4. \A c \in A : Printed(t, c) = Printed(s, c)
  BY DEF More, SameTags, Printed
<1>5. f \in [A -> Int] /\ g \in [B -> Int] /\ n \notin A
  BY <1>3, <1>4 DEF More
<1>6. (\A c \in A : f[c] = g[c]) /\ g[n] = Printed(t, n)
  BY <1>4
<1>7. [c \in A |-> Printed(t, c)] = f
  BY <1>4
<1>8. PrintedSum(s, A) = SumFunctionOnSet(f, A) /\ PrintedSum(t, B) = SumFunctionOnSet(g, B)
      /\ PrintedSum(t, A) = SumFunctionOnSet(f, A)
  BY <1>7 DEF PrintedSum
<1>9. SumFunctionOnSet(g, B) = SumFunctionOnSet(f, A) + g[n]
      /\ SumFunctionOnSet(f, A) \in Int /\ g[n] \in Int
  <2> HIDE DEF f, g
  <2> QED BY <1>1, <1>5, <1>6, SumGrown
<1> HIDE DEF f, g
<1> QED BY ONLY <1>6, <1>8, <1>9 DEF B

\* and for a count.
LEMMA CountGrown ==
    ASSUME NEW S, IsFiniteSet(S), NEW n, n \notin S
    PROVE  /\ Cardinality(S \cup {n}) = Cardinality(S) + 1
           /\ Cardinality(S) \in Nat
BY FS_AddElement, FS_CardinalityType

\* How the parts grow.
LEMMA PartsGrown ==
    ASSUME NEW s, NEW held, NEW t, NEW more, NEW n, More(s, held, t, more, n)
    PROVE  /\ \A l \in Levels : Of(t, more, l) =
                IF ~more[n].slot /\ Level(t, n) = l THEN Of(s, held, l) \cup {n}
                ELSE Of(s, held, l)
           /\ \A x \in Colors \X Levels \X Shown : Counted(t, more, x) =
                IF ~more[n].slot /\ <<t.mem[n].color, Level(t, n), t.mem[n].bin>> = x
                THEN Counted(s, held, x) \cup {n} ELSE Counted(s, held, x)
           /\ \A i \in SlotIds : OfSlotBin(t, more, i) =
                IF more[n].slot /\ t.mem[n].bin = i THEN OfSlotBin(s, held, i) \cup {n}
                ELSE OfSlotBin(s, held, i)
<1>1. \A c \in DOMAIN held : c # n /\ Level(t, c) = Level(s, c) /\ more[c] = held[c]
        /\ t.mem[c].bin = s.mem[c].bin /\ t.mem[c].color = s.mem[c].color
  BY DEF More, SameTags, Level, Has
<1>2. DOMAIN more = DOMAIN held \cup {n}
  BY DEF More
<1>3. ASSUME NEW l \in Levels
      PROVE  Of(t, more, l) = IF ~more[n].slot /\ Level(t, n) = l THEN Of(s, held, l) \cup {n}
                              ELSE Of(s, held, l)
  BY <1>1, <1>2 DEF Of
<1>4. ASSUME NEW x \in Colors \X Levels \X Shown
      PROVE  Counted(t, more, x) =
               IF ~more[n].slot /\ <<t.mem[n].color, Level(t, n), t.mem[n].bin>> = x
               THEN Counted(s, held, x) \cup {n} ELSE Counted(s, held, x)
  <2>1. x[2] \in Levels /\ x = <<x[1], x[2], x[3]>>
    OBVIOUS
  <2>2. <<t.mem[n].color, Level(t, n), t.mem[n].bin>> = x
          <=> t.mem[n].color = x[1] /\ Level(t, n) = x[2] /\ t.mem[n].bin = x[3]
    BY <2>1
  <2>3. Of(s, held, x[2]) \subseteq DOMAIN held
    BY DEF Of
  <2> QED BY <1>1, <1>3, <2>1, <2>2, <2>3 DEF Counted
<1>5. ASSUME NEW i \in SlotIds
      PROVE  OfSlotBin(t, more, i) =
               IF more[n].slot /\ t.mem[n].bin = i THEN OfSlotBin(s, held, i) \cup {n}
               ELSE OfSlotBin(s, held, i)
  BY <1>1, <1>2 DEF OfSlotBin
<1> QED BY <1>3, <1>4, <1>5

-----------------------------------------------------------------------------
(* The counters *)

\* One more at x; what the bin of the bytes of direct chunks holds may change, too.
Bumped(k, q, x) ==
    /\ k \in [Counters -> Int] /\ q \in [Counters -> Int]
    /\ x \in Counters /\ q[x] = k[x] + 1
    /\ \A y \in Counters : y # x /\ y[3] \in Shown => q[y] = k[y]

\* The size that is printed for a chunk of a bin.
LEMMA ShownBins ==
    /\ Shown \subseteq Bins /\ IsFiniteSet(Shown)
    /\ \A b \in Shown : BinSize(0, b) \in Int
<1>1. BIG_MAX_BIN_ID \in Int /\ BINMAP_SIZE \in Nat
  BY Bounds, Grains DEF BIG_MAX_BIN_ID
<1>2. IsFiniteSet(Shown)
  BY <1>1, FS_Interval DEF Shown
<1>3. Shown \subseteq Bins /\ Shown \subseteq Nat
  BY <1>1 DEF Shown, Bins, BIG_MAX_BIN_ID
<1>4. \A b \in Nat : BinSize(0, b) \in Int
  BY Grains DEF BinSize
<1> QED BY <1>2, <1>3, <1>4

\* What is printed for a colour.
LEMMA LogOfChanged ==
    ASSUME NEW k, NEW q, NEW x, Bumped(k, q, x), NEW color \in Colors
    PROVE  /\ LogOf(k, color) \in Int /\ LogOf(q, color) \in Int
           /\ LogOf(q, color) = LogOf(k, color)
                + IF x[1] = color /\ x[2] = 0 /\ x[3] \in Shown THEN BinSize(0, x[3]) ELSE 0
<1> DEFINE f == [b \in Shown |-> k[<<color, 0, b>>] * BinSize(0, b)]
           g == [b \in Shown |-> q[<<color, 0, b>>] * BinSize(0, b)]
<1>1. \A b \in Shown : <<color, 0, b>> \in Counters /\ <<color, 0, b>>[3] = b
                       /\ BinSize(0, b) \in Int
  BY ShownBins DEF Counters, Levels
<1>2. \A b \in Shown : k[<<color, 0, b>>] \in Int /\ q[<<color, 0, b>>] \in Int
  BY <1>1 DEF Bumped
<1>3. f \in [Shown -> Int] /\ g \in [Shown -> Int]
  <2>1. \A b \in Shown : k[<<color, 0, b>>] * BinSize(0, b) \in Int
                         /\ q[<<color, 0, b>>] * BinSize(0, b) \in Int
    BY <1>1, <1>2
  <2> QED BY <2>1
<1>4. LogOf(k, color) = SumFunctionOnSet(f, Shown) /\ LogOf(q, color) = SumFunctionOnSet(g, Shown)
  BY DEF LogOf
<1>5. x = <<x[1], x[2], x[3]>>
  BY DEF Bumped, Counters
<1>6. CASE x[1] = color /\ x[2] = 0 /\ x[3] \in Shown
  <2>1. \A b \in Shown : b # x[3] => f[b] = g[b]
    BY <1>1, <1>5 DEF Bumped
  <2>2. g[x[3]] - f[x[3]] = BinSize(0, x[3])
    <3> DEFINE m == k[<<color, 0, x[3]>>]
               n == BinSize(0, x[3])
    <3>1. q[<<color, 0, x[3]>>] = m + 1 /\ m \in Int /\ n \in Int
      BY <1>1, <1>2, <1>5, <1>6 DEF Bumped
    <3>2. f[x[3]] = m * n /\ g[x[3]] = (m + 1) * n
      BY <1>6, <3>1
    <3> HIDE DEF m, n
    <3>3. (m + 1) * n - m * n = n
      BY <3>1
    <3> QED BY <3>2, <3>3 DEF n
  <2> HIDE DEF f, g
  <2>3. /\ SumFunctionOnSet(g, Shown) = SumFunctionOnSet(f, Shown) + (g[x[3]] - f[x[3]])
        /\ SumFunctionOnSet(g, Shown) \in Int /\ SumFunctionOnSet(f, Shown) \in Int
    BY <1>3, <1>6, <2>1, ShownBins, SumChanged
  <2> QED BY <1>4, <1>6, <2>2, <2>3
<1>7. CASE ~(x[1] = color /\ x[2] = 0 /\ x[3] \in Shown)
  <2>1. \A b \in Shown : f[b] = g[b]
    <3> TAKE b \in Shown
    <3>1. <<color, 0, b>> # x
      BY <1>5, <1>7
    <3> QED BY <1>1, <3>1 DEF Bumped
  <2>2. f = g
    BY <2>1
  <2> HIDE DEF f, g
  <2>3. SumFunctionOnSet(f, Shown) \in Int
    BY <1>3, ShownBins, SumType
  <2> QED BY <1>4, <1>7, <2>2, <2>3
<1> QED BY <1>6, <1>7

\* What is printed for all of them.
LEMMA LogSumChanged ==
    ASSUME NEW k, NEW q, NEW x, Bumped(k, q, x)
    PROVE  /\ LogSum(q) = LogSum(k)
                + IF x[2] = 0 /\ x[3] \in Shown THEN BinSize(0, x[3]) ELSE 0
           /\ LogSum(q) \in Int /\ LogSum(k) \in Int
<1> DEFINE f == [color \in Colors |-> LogOf(k, color)]
           g == [color \in Colors |-> LogOf(q, color)]
           d == IF x[2] = 0 /\ x[3] \in Shown THEN BinSize(0, x[3]) ELSE 0
<1>1. x[1] \in Colors /\ IsFiniteSet(Colors)
  BY ZMallocAssumption DEF Bumped, Counters
<1>2. /\ f \in [Colors -> Int] /\ g \in [Colors -> Int]
      /\ \A color \in Colors : color # x[1] => f[color] = g[color]
      /\ g[x[1]] = f[x[1]] + d /\ f[x[1]] \in Int
  <2>1. \A color \in Colors : LogOf(k, color) \in Int /\ LogOf(q, color) \in Int
    BY LogOfChanged
  <2>2. \A color \in Colors : color # x[1] => LogOf(q, color) = LogOf(k, color)
    BY <2>1, LogOfChanged
  <2>3. LogOf(q, x[1]) = LogOf(k, x[1]) + d
    BY <1>1, LogOfChanged
  <2> HIDE DEF d
  <2> QED BY <1>1, <2>1, <2>2, <2>3
<1>3. LogSum(k) = SumFunctionOnSet(f, Colors) /\ LogSum(q) = SumFunctionOnSet(g, Colors)
  BY DEF LogSum
<1>4. d \in Int
  BY ShownBins
<1> HIDE DEF f, g, d
<1>5. /\ SumFunctionOnSet(g, Colors) = SumFunctionOnSet(f, Colors) + (g[x[1]] - f[x[1]])
      /\ SumFunctionOnSet(g, Colors) \in Int /\ SumFunctionOnSet(f, Colors) \in Int
  BY <1>1, <1>2, SumChanged
<1>6. LogSum(q) = LogSum(k) + d /\ LogSum(q) \in Int /\ LogSum(k) \in Int
  BY <1>2, <1>3, <1>4, <1>5
<1> QED BY ONLY <1>6 DEF d

-----------------------------------------------------------------------------
(* A chunk that is booked: the figures of t are those of s and those of n. *)

Booked(s, held, t, more, n) ==
    /\ More(s, held, t, more, n) /\ Finite(t, more) /\ more[n].slot \in BOOLEAN
    /\ s.bytes \in Int /\ t.bytes = s.bytes + This(t, n)
    /\ ~more[n].slot =>
         /\ Bumped(s.counter, t.counter, <<t.mem[n].color, Level(t, n), t.mem[n].bin>>)
         /\ \A i \in SlotIds : t.slot[i].bytes = s.slot[i].bytes
    /\ more[n].slot =>
         /\ t.counter = s.counter /\ \A i \in SlotIds : s.slot[i].bytes \in Int
         /\ t.mem[n].bin \in SlotIds
         /\ \A i \in SlotIds : t.slot[i].bytes = s.slot[i].bytes
                                 + IF t.mem[n].bin = i THEN This(t, n) ELSE 0

\* If one balances, the other does.
LEMMA BothBalanced ==
    ASSUME NEW s, NEW held, NEW t, NEW more, NEW n, Booked(s, held, t, more, n)
    PROVE  Balanced(s, held) <=> Balanced(t, more)
<1>0. /\ More(s, held, t, more, n) /\ Finite(t, more) /\ more[n].slot \in BOOLEAN
      /\ s.bytes \in Int /\ t.bytes = s.bytes + This(t, n)
  BY DEF Booked
<1>1. n \notin DOMAIN held /\ DOMAIN more = DOMAIN held \cup {n}
  BY <1>0 DEF More
<1>2. IsFiniteSet(DOMAIN held)
  BY <1>0, <1>1, FS_Subset DEF Finite
<1>3. /\ DOMAIN held \in SUBSET DOMAIN held
      /\ \A l \in Levels : Of(s, held, l) \in SUBSET DOMAIN held
      /\ \A x \in Colors \X Levels \X Shown : Counted(s, held, x) \in SUBSET DOMAIN held
      /\ \A i \in SlotIds : OfSlotBin(s, held, i) \in SUBSET DOMAIN held
  BY DEF Of, Counted, OfSlotBin
<1>4. s.bytes = SumOf(s, DOMAIN held) <=> t.bytes = SumOf(t, DOMAIN more)
  <2>1. /\ SumOf(t, DOMAIN more) = SumOf(s, DOMAIN held) + This(t, n)
        /\ SumOf(s, DOMAIN held) \in Int /\ This(t, n) \in Int
    BY <1>0, <1>1, <1>3, PartGrown
  <2> DEFINE a == SumOf(s, DOMAIN held)
             b == SumOf(t, DOMAIN more)
             d == This(t, n)
             k == s.bytes
             q == t.bytes
  <2>2. b = a + d /\ a \in Int /\ d \in Int /\ k \in Int /\ q = k + d
    BY <1>0, <2>1
  <2> HIDE DEF a, b, d, k, q
  <2>3. k = a <=> q = b
    BY ONLY <2>2
  <2> QED BY ONLY <2>3 DEF a, b, k, q
<1>5. ASSUME NEW x \in Colors \X Levels \X Shown
      PROVE  s.counter[x] = Cardinality(Counted(s, held, x))
               <=> t.counter[x] = Cardinality(Counted(t, more, x))
  <2> DEFINE A == Counted(s, held, x)
             B == Counted(t, more, x)
             y == <<t.mem[n].color, Level(t, n), t.mem[n].bin>>
  <2>1. IsFiniteSet(A) /\ n \notin A
    BY <1>1, <1>2, <1>3, FS_Subset
  <2>2. Cardinality(A \cup {n}) = Cardinality(A) + 1 /\ Cardinality(A) \in Nat
    <3> HIDE DEF A
    <3> QED BY <2>1, CountGrown
  <2>3. B = IF ~more[n].slot /\ y = x THEN A \cup {n} ELSE A
    BY <1>0, PartsGrown
  <2>4. x \in Counters /\ x[3] \in Shown
    BY ShownBins DEF Counters
  <2> HIDE DEF A, B, y
  <2>5. CASE more[n].slot
    <3>1. t.counter = s.counter
      BY <2>5 DEF Booked
    <3> QED BY <2>3, <2>5, <3>1 DEF A, B
  <2>6. CASE ~more[n].slot
    <3>1. Bumped(s.counter, t.counter, y)
      BY <2>6 DEF Booked, y
    <3>2. CASE x = y
      <4>1. t.counter[x] = s.counter[x] + 1 /\ s.counter[x] \in Int
        BY <2>4, <3>1, <3>2 DEF Bumped
      <4>2. B = A \cup {n}
        BY <2>3, <2>6, <3>2
      <4> QED BY ONLY <2>2, <4>1, <4>2 DEF A, B
    <3>3. CASE x # y
      <4>1. t.counter[x] = s.counter[x]
        BY <2>4, <3>1, <3>3 DEF Bumped
      <4>2. B = A
        BY <2>3, <3>3
      <4> QED BY ONLY <4>1, <4>2 DEF A, B
    <3> QED BY ONLY <3>2, <3>3
  <2> QED BY ONLY <2>5, <2>6
<1>6. ASSUME NEW i \in SlotIds
      PROVE  s.slot[i].bytes = SumOf(s, OfSlotBin(s, held, i))
               <=> t.slot[i].bytes = SumOf(t, OfSlotBin(t, more, i))
  <2> DEFINE A == OfSlotBin(s, held, i)
             B == OfSlotBin(t, more, i)
  <2>1. /\ SumOf(t, A \cup {n}) = SumOf(s, A) + This(t, n) /\ SumOf(t, A) = SumOf(s, A)
        /\ SumOf(s, A) \in Int /\ This(t, n) \in Int
    BY <1>0, <1>3, PartGrown
  <2>2. B = IF more[n].slot /\ t.mem[n].bin = i THEN A \cup {n} ELSE A
    BY <1>0, PartsGrown
  <2> HIDE DEF A, B
  <2>3. CASE more[n].slot /\ t.mem[n].bin = i
    <3>1. t.slot[i].bytes = s.slot[i].bytes + This(t, n) /\ s.slot[i].bytes \in Int
      BY <2>3 DEF Booked
    <3>2. B = A \cup {n}
      BY <2>2, <2>3
    <3> QED BY ONLY <2>1, <3>1, <3>2 DEF A, B
  <2>4. CASE ~(more[n].slot /\ t.mem[n].bin = i)
    <3>1. t.slot[i].bytes = s.slot[i].bytes
      BY <1>0, <2>4 DEF Booked
    <3>2. B = A
      BY <2>2, <2>4
    <3> QED BY ONLY <2>1, <3>1, <3>2 DEF A, B
  <2> QED BY ONLY <2>3, <2>4
<1>7. LogSum(s.counter) = PrintedSum(s, Of(s, held, 0))
        <=> LogSum(t.counter) = PrintedSum(t, Of(t, more, 0))
  <2> DEFINE A == Of(s, held, 0)
             B == Of(t, more, 0)
             y == <<t.mem[n].color, Level(t, n), t.mem[n].bin>>
  <2>0. 0 \in Levels
    BY DEF Levels
  <2>1. /\ PrintedSum(t, A \cup {n}) = PrintedSum(s, A) + Printed(t, n)
        /\ PrintedSum(t, A) = PrintedSum(s, A)
        /\ PrintedSum(s, A) \in Int /\ Printed(t, n) \in Int
    BY <1>0, <1>3, <2>0, PrintedGrown
  <2>2. B = IF ~more[n].slot /\ Level(t, n) = 0 THEN A \cup {n} ELSE A
    BY <1>0, <2>0, PartsGrown
  <2> HIDE DEF A, B, y
  <2>3. CASE more[n].slot
    <3>1. t.counter = s.counter /\ B = A
      BY <2>2, <2>3 DEF Booked
    <3> QED BY ONLY <2>1, <3>1 DEF A, B
  <2>4. CASE ~more[n].slot
    <3>1. Bumped(s.counter, t.counter, y)
      BY <2>4 DEF Booked, y
    <3>2. /\ LogSum(t.counter) = LogSum(s.counter)
                + IF y[2] = 0 /\ y[3] \in Shown THEN BinSize(0, y[3]) ELSE 0
          /\ LogSum(t.counter) \in Int /\ LogSum(s.counter) \in Int
      BY <3>1, LogSumChanged
    <3>3. y[2] = Level(t, n) /\ y[3] = t.mem[n].bin
      BY DEF y
    <3>4. CASE Level(t, n) = 0
      <4>1. LogSum(t.counter) = LogSum(s.counter) + Printed(t, n)
        BY <3>2, <3>3, <3>4 DEF Printed
      <4>2. B = A \cup {n}
        BY <2>2, <2>4, <3>4
      <4> QED BY ONLY <2>1, <3>2, <4>1, <4>2 DEF A, B
    <3>5. CASE Level(t, n) # 0
      <4>1. LogSum(t.counter) = LogSum(s.counter)
        BY <3>2, <3>3, <3>5
      <4>2. B = A
        BY <2>2, <3>5
      <4> QED BY ONLY <2>1, <4>1, <4>2 DEF A, B
    <3> QED BY <3>4, <3>5
  <2> QED BY <2>3, <2>4
<1> QED BY <1>4, <1>5, <1>6, <1>7 DEF Balanced

-----------------------------------------------------------------------------
(* Steps that touch no chunk in use *)

\* The fields are there.
Heads(s) ==
    /\ DOMAIN s = Fields
    /\ \A d \in DOMAIN s.mem : DOMAIN s.mem[d] = {"prev", "this", "flags", "bin", "color"}

\* The figures are the same; and so is what the headers in use say, in the
\* second case of those that are still there.
Figures(s, t) ==
    /\ t.bytes = s.bytes /\ t.counter = s.counter
    /\ \A i \in SlotIds : t.slot[i].bytes = s.slot[i].bytes
Quiet(s, t) ==
    /\ Heads(t) /\ Figures(s, t)
    /\ \A d \in DOMAIN s.mem : InUse(s, d) => d \in DOMAIN t.mem /\ SameTags(s, t, d)
Left(s, t) ==
    /\ Figures(s, t)
    /\ \A d \in DOMAIN s.mem : InUse(s, d) /\ d \in DOMAIN t.mem => SameTags(s, t, d)

\* One such step after the other.
LEMMA QuietOn ==
    ASSUME NEW s, NEW t, NEW u, Quiet(s, t), Quiet(t, u)
    PROVE  Quiet(s, u)
BY DEF Quiet, Figures, SameTags, InUse, Has

LEMMA LeftOn ==
    ASSUME NEW s, NEW t, NEW u, Quiet(s, t), Left(t, u)
    PROVE  Left(s, u)
BY DEF Quiet, Left, Figures, SameTags, InUse, Has

LEMMA QuietLeft ==
    ASSUME NEW s, NEW t, Quiet(s, t)
    PROVE  Left(s, t)
BY DEF Quiet, Left

\* A sound state has the fields.
LEMMA ShapeHeads ==
    ASSUME NEW s, Shape(s)
    PROVE  Heads(s)
BY DEF Shape, Memory, HeaderOK, Heads

\* A step that leaves the headers and the figures alone.
LEMMA FieldsQuiet ==
    ASSUME NEW s, Heads(s), NEW t, DOMAIN t = Fields,
           \A f \in {"mem", "bytes", "counter", "slot"} : t[f] = s[f]
    PROVE  Quiet(s, t)
<1>1. t.mem = s.mem /\ t.bytes = s.bytes /\ t.counter = s.counter /\ t.slot = s.slot
  OBVIOUS
<1> QED BY <1>1 DEF Heads, Quiet, Figures, SameTags

\* A step that changes headers that are not in use only.
LEMMA MemoryQuiet ==
    ASSUME NEW s, Heads(s), NEW t, DOMAIN t = Fields,
           \A f \in {"bytes", "counter", "slot"} : t[f] = s[f],
           \A d \in DOMAIN t.mem : DOMAIN t.mem[d] = {"prev", "this", "flags", "bin", "color"},
           \A d \in DOMAIN s.mem : InUse(s, d) => d \in DOMAIN t.mem /\ SameTags(s, t, d)
    PROVE  Quiet(s, t)
<1>1. t.bytes = s.bytes /\ t.counter = s.counter /\ t.slot = s.slot
  OBVIOUS
<1> QED BY <1>1 DEF Heads, Quiet, Figures

\* pick_chunk
LEMMA PickQuiet ==
    ASSUME NEW s, Heads(s), NEW c, ~InUse(s, c)
    PROVE  LET t == PickChunk(s, c) IN
           /\ Quiet(s, t) /\ DOMAIN t.mem = DOMAIN s.mem
           /\ \A d \in DOMAIN s.mem : t.mem[d].flags = s.mem[d].flags
<1> DEFINE t == PickChunk(s, c)
<1>1. DOMAIN s = Fields
  BY DEF Heads
<1>2. /\ DOMAIN t = Fields /\ \A f \in {"bytes", "counter", "slot"} : t[f] = s[f]
      /\ t.mem = [s.mem EXCEPT ![c].bin = 0]
  BY <1>1 DEF PickChunk, Fields
<1> HIDE DEF t
<1>3. /\ DOMAIN t.mem = DOMAIN s.mem
      /\ \A d \in DOMAIN s.mem : /\ DOMAIN t.mem[d] = DOMAIN s.mem[d]
                                 /\ t.mem[d].flags = s.mem[d].flags
                                 /\ d # c => t.mem[d] = s.mem[d]
  BY <1>2 DEF Heads
<1>4. Quiet(s, t)
  BY <1>2, <1>3, MemoryQuiet DEF Heads, SameTags
<1> QED BY <1>3, <1>4 DEF t

\* push_chunk
LEMMA PushQuiet ==
    ASSUME NEW s, Heads(s), NEW c, ~InUse(s, c), NEW bin
    PROVE  LET t == PushChunk(s, c, bin) IN
           /\ Quiet(s, t) /\ DOMAIN t.mem = DOMAIN s.mem
           /\ \A d \in DOMAIN s.mem, f \in {"BIG", "DIRECT", "SLOT"} : Has(t, d, f) <=> Has(s, d, f)
<1> DEFINE t == PushChunk(s, c, bin)
<1>1. DOMAIN s = Fields
  BY DEF Heads
<1>2. /\ DOMAIN t = Fields /\ \A f \in {"bytes", "counter", "slot"} : t[f] = s[f]
      /\ t.mem = PushedMem(s.mem, c, bin)
  BY <1>1, PushFields DEF PushedTo, Fields
<1> HIDE DEF t
<1>3. /\ DOMAIN t.mem = DOMAIN s.mem
      /\ \A d \in DOMAIN s.mem : /\ DOMAIN t.mem[d] = DOMAIN s.mem[d]
                                 /\ t.mem[d].flags \cup {"USED"} = s.mem[d].flags \cup {"USED"}
                                 /\ d # c => t.mem[d] = s.mem[d]
  BY <1>2 DEF Heads, PushedMem
<1>4. Quiet(s, t)
  BY <1>2, <1>3, MemoryQuiet DEF Heads, SameTags
<1>5. ASSUME NEW d \in DOMAIN s.mem, NEW f \in {"BIG", "DIRECT", "SLOT"}
      PROVE  Has(t, d, f) <=> Has(s, d, f)
  BY <1>3 DEF Has
<1> QED BY <1>3, <1>4, <1>5 DEF t

\* merge_chunk
LEMMA MergeQuiet ==
    ASSUME NEW s, Heads(s), NEW c, NEW d, ~InUse(s, c), ~InUse(s, d)
    PROVE  Quiet(s, Merge(s, c, d))
<1> DEFINE t == Merge(s, c, d)
           g == NextOf(s, d)
           this == This(s, c) + This(s, d)
           grown == [s.mem EXCEPT ![c].this = this, ![c].flags = @ \cup s.mem[d].flags,
                                  ![g].prev = this]
<1>1. DOMAIN s = Fields
  BY DEF Heads
<1>2. t = [s EXCEPT !.mem = Without(grown, {d})]
  BY DEF Merge
<1> HIDE DEF t, g, this
<1>3. DOMAIN t = Fields /\ t.mem = Without(grown, {d})
      /\ \A f \in {"bytes", "counter", "slot"} : t[f] = s[f]
  BY <1>1, <1>2 DEF Fields
<1>4. /\ DOMAIN grown = DOMAIN s.mem
      /\ \A x \in DOMAIN s.mem : /\ DOMAIN grown[x] = DOMAIN s.mem[x]
                                 /\ x # c => /\ grown[x].flags = s.mem[x].flags
                                             /\ grown[x].bin = s.mem[x].bin
                                             /\ grown[x].color = s.mem[x].color
  BY DEF Heads
<1> HIDE DEF grown
<1>5. DOMAIN t.mem = DOMAIN s.mem \ {d} /\ \A x \in DOMAIN t.mem : t.mem[x] = grown[x]
  BY <1>3, <1>4 DEF Without
<1>6. \A x \in DOMAIN s.mem : InUse(s, x) => x \in DOMAIN t.mem /\ SameTags(s, t, x)
  BY <1>4, <1>5 DEF SameTags
<1>7. \A x \in DOMAIN t.mem : DOMAIN t.mem[x] = {"prev", "this", "flags", "bin", "color"}
  BY <1>4, <1>5 DEF Heads
<1>8. Quiet(s, t)
  BY <1>3, <1>6, <1>7, MemoryQuiet
<1> QED BY <1>8 DEF t

\* free_block
LEMMA FreeLeft ==
    ASSUME NEW s, Heads(s), NEW b
    PROVE  Left(s, FreeBlock(s, b))
<1> DEFINE t == FreeBlock(s, b)
<1>1. DOMAIN s = Fields
  BY DEF Heads
<1>2. t.bytes = s.bytes /\ t.counter = s.counter /\ t.slot = s.slot /\ t.mem = Forget(s.mem, b)
  BY <1>1 DEF FreeBlock, Fields
<1> HIDE DEF t
<1>3. \A d \in DOMAIN t.mem : t.mem[d] = s.mem[d]
  BY <1>2 DEF Forget
<1>4. Left(s, t)
  BY <1>2, <1>3 DEF Left, Figures, SameTags
<1> QED BY <1>4 DEF t

\* alloc_block
LEMMA AddQuiet ==
    ASSUME NEW s, Shape(s), NEW bytes, NEW flags, NEW id, NEW n, n = BlockBytes(bytes, flags),
           BlockFits(s, n, flags, id)
    PROVE  LET r == AllocBlock(s, bytes, flags) IN
           \/ r.c = NULL /\ r.s = s
           \/ /\ Quiet(s, r.s) /\ r.c \in DOMAIN r.s.mem /\ r.s.mem[r.c].flags = flags
              /\ This(r.s, r.c) = n - BlockOverhead
<1> DEFINE r == AllocBlock(s, bytes, flags)
<1>1. \/ r.c = NULL /\ r.s = s
      \/ \E b \in BlockIds, from \in Seq(BlockIds) :
           /\ r.c = FirstChunk(b) /\ b \notin ToSet(s.used)
           /\ IsInjective(from) /\ ToSet(from) = ToSet(s.reserve) \ {b}
           /\ AddedTo(s, r.s, b, n, flags, from)
  BY BlockTaken
<1> DEFINE t == r.s
<1> HIDE DEF r, t
<1>2. ASSUME NEW b \in BlockIds, NEW from, r.c = FirstChunk(b), b \notin ToSet(s.used),
             AddedTo(s, t, b, n, flags, from)
      PROVE  /\ Quiet(s, t) /\ r.c \in DOMAIN t.mem /\ t.mem[r.c].flags = flags
             /\ This(t, r.c) = n - BlockOverhead
  <2>1. /\ DOMAIN t = Fields /\ \A f \in {"bytes", "counter", "slot"} : t[f] = s[f]
        /\ r.c \in DOMAIN t.mem
        /\ t.mem[r.c] = Header(CHUNK_FREE_SIZE, n - BlockOverhead, flags)
    BY <1>2 DEF AddedTo, Fields
  <2>2. \A d \in DOMAIN s.mem : d \in DOMAIN t.mem /\ t.mem[d] = s.mem[d]
    <3> TAKE d \in DOMAIN s.mem
    <3>1. d[1] # b
      BY <1>2, Headers
    <3> QED BY <1>2, <3>1 DEF AddedTo
  <2>3. ASSUME NEW d \in DOMAIN t.mem
        PROVE  DOMAIN t.mem[d] = {"prev", "this", "flags", "bin", "color"}
    <3>1. \A p, q, f : DOMAIN Header(p, q, f) = {"prev", "this", "flags", "bin", "color"}
      BY DEF Header
    <3>2. CASE d \in DOMAIN s.mem
      BY <2>2, <3>2, ShapeHeads DEF Heads
    <3>3. CASE d \notin DOMAIN s.mem
      <4>1. d \in {BlockHead(b), FirstChunk(b), <<b, n - CHUNK_FREE_SIZE>>}
        BY <1>2, <3>3 DEF AddedTo
      <4>2. \E p, q, f : t.mem[d] = Header(p, q, f)
        BY <1>2, <4>1 DEF AddedTo
      <4> QED BY <3>1, <4>2
    <3> QED BY <3>2, <3>3
  <2>4. Quiet(s, t)
    BY <2>1, <2>2, <2>3, ShapeHeads, MemoryQuiet DEF SameTags
  <2>5. t.mem[r.c].flags = flags /\ This(t, r.c) = n - BlockOverhead
    BY <2>1 DEF Header, This
  <2> QED BY <2>1, <2>4, <2>5
<1> QED BY <1>1, <1>2 DEF t, r

-----------------------------------------------------------------------------
(* alloc_memory: what is noted of the chunk that is handed out *)

\* The answer r to a request in s: a chunk of level l with the bin and the colour of
\* the request, which the sums and the counter of both know.
Noted(s, r, l, bin, color, direct) ==
    /\ r.c \in DOMAIN r.s.mem /\ Level(r.s, r.c) = l
    /\ r.s.mem[r.c].bin = bin /\ r.s.mem[r.c].color = color
    /\ (Has(r.s, r.c, "DIRECT") <=> direct) /\ ~Has(r.s, r.c, "SLOT")
    /\ r.s.bytes = s.bytes + This(r.s, r.c)
    /\ Bumped(s.counter, r.s.counter, <<color, l, bin>>)
    /\ \A i \in SlotIds : r.s.slot[i].bytes = s.slot[i].bytes
    /\ \A d \in DOMAIN s.mem : d # r.c /\ InUse(s, d) =>
         d \in DOMAIN r.s.mem /\ SameTags(s, r.s, d)

\* A step that touches no chunk in use may come first.
LEMMA NotedOn ==
    ASSUME NEW s, NEW t, Quiet(s, t), NEW r, NEW l, NEW bin, NEW color, NEW direct,
           Noted(t, r, l, bin, color, direct)
    PROVE  Noted(s, r, l, bin, color, direct)
<1>1. t.bytes = s.bytes /\ t.counter = s.counter
      /\ \A i \in SlotIds : t.slot[i].bytes = s.slot[i].bytes
  BY DEF Quiet, Figures
<1>2. ASSUME NEW d \in DOMAIN s.mem, d # r.c, InUse(s, d)
      PROVE  d \in DOMAIN r.s.mem /\ SameTags(s, r.s, d)
  <2>1. d \in DOMAIN t.mem /\ SameTags(s, t, d)
    BY <1>2 DEF Quiet
  <2>2. InUse(t, d)
    BY <1>2, <2>1 DEF SameTags, InUse, Has
  <2>3. d \in DOMAIN r.s.mem /\ SameTags(t, r.s, d)
    BY <1>2, <2>1, <2>2 DEF Noted
  <2> QED BY <2>1, <2>3 DEF SameTags
<1> QED BY <1>1, <1>2 DEF Noted

\* The state can count.
Counting(s) == Heads(s) /\ s.counter \in [Counters -> Int]

LEMMA QuietCounting ==
    ASSUME NEW s, NEW t, Counting(s), Quiet(s, t)
    PROVE  Counting(t)
BY DEF Counting, Quiet, Figures

\* SMALL_RETURN, BIG_RETURN
LEMMA HandNoted ==
    ASSUME NEW s, Counting(s), NEW c \in DOMAIN s.mem, NEW l \in Levels, Level(s, c) = l,
           NEW direct, Has(s, c, "DIRECT") <=> direct, ~Has(s, c, "SLOT"),
           NEW bin \in Bins, NEW color \in Colors
    PROVE  Noted(s, HandOut(s, c, bin, color), l, bin, color, direct)
<1> DEFINE r == HandOut(s, c, bin, color)
           x == <<color, l, bin>>
           flags == s.mem[c].flags \cup {"USED"}
           mem == [s.mem EXCEPT ![c].flags = flags, ![c].color = color, ![c].bin = bin]
<1>1. DOMAIN s = Fields /\ DOMAIN s.mem[c] = {"prev", "this", "flags", "bin", "color"}
      /\ x \in Counters /\ s.counter \in [Counters -> Int]
  BY DEF Heads, Counting, Counters
<1>2. r.c = c /\ r.s = [s EXCEPT !.mem[c].flags = flags, !.mem[c].color = color,
                                 !.mem[c].bin = bin, !.counter[x] = @ + 1,
                                 !.bytes = @ + This(s, c)]
  BY DEF HandOut
<1> HIDE DEF r, x, flags
<1>3. /\ r.s.mem = mem /\ r.s.counter = [s.counter EXCEPT ![x] = @ + 1]
      /\ r.s.bytes = s.bytes + This(s, c) /\ r.s.slot = s.slot
  BY <1>1, <1>2 DEF Fields
<1>4. /\ DOMAIN mem = DOMAIN s.mem
      /\ mem[c].flags = flags /\ mem[c].color = color /\ mem[c].bin = bin
      /\ mem[c].this = s.mem[c].this
      /\ \A d \in DOMAIN s.mem : d # c => mem[d] = s.mem[d]
  BY <1>1
<1> HIDE DEF mem
<1>5. Bumped(s.counter, r.s.counter, x)
  BY <1>1, <1>3 DEF Bumped
<1>6. Level(r.s, c) = l /\ (Has(r.s, c, "DIRECT") <=> direct) /\ ~Has(r.s, c, "SLOT")
      /\ This(r.s, c) = This(s, c)
  BY <1>3, <1>4 DEF Level, Has, This, flags
<1>7. Noted(s, r, l, bin, color, direct)
  BY <1>2, <1>3, <1>4, <1>5, <1>6 DEF Noted, SameTags, x
<1> QED BY <1>7 DEF r

\* exploit_new_chunk: only the new chunk can be one that was in use.
LEMMA CutTags ==
    ASSUME NEW s, Heads(s), NEW c \in DOMAIN s.mem, NEW size
    PROVE  LET t == ExploitNewChunk(s, c, size)
               n == NewChunk(s, c, size)
           IN  /\ Heads(t) /\ t.bytes = s.bytes /\ t.counter = s.counter /\ t.slot = s.slot
               /\ n \in DOMAIN t.mem /\ t.mem[n].flags = s.mem[c].flags
               /\ \A d \in DOMAIN s.mem : d # n => d \in DOMAIN t.mem /\ SameTags(s, t, d)
<1> DEFINE t == ExploitNewChunk(s, c, size)
           n == NewChunk(s, c, size)
           e == NextOf(s, c)
           left == This(s, c) - size
           cut == [s.mem EXCEPT ![c].this = left, ![e].prev = size]
           h == Header(left, size, s.mem[c].flags)
<1>1. DOMAIN s = Fields
      /\ \A d \in DOMAIN s.mem : DOMAIN s.mem[d] = {"prev", "this", "flags", "bin", "color"}
  BY DEF Heads
<1>2. t = [s EXCEPT !.mem = Put(cut, n, h)]
  BY DEF ExploitNewChunk
<1> HIDE DEF t, n, e, left
<1>3. /\ DOMAIN t = Fields /\ t.mem = Put(cut, n, h)
      /\ t.bytes = s.bytes /\ t.counter = s.counter /\ t.slot = s.slot
  BY <1>1, <1>2 DEF Fields
<1>4. /\ DOMAIN cut = DOMAIN s.mem
      /\ \A d \in DOMAIN s.mem : /\ DOMAIN cut[d] = DOMAIN s.mem[d]
                                 /\ cut[d].flags = s.mem[d].flags
                                 /\ cut[d].bin = s.mem[d].bin /\ cut[d].color = s.mem[d].color
  BY <1>1
<1>5. h.flags = s.mem[c].flags /\ DOMAIN h = {"prev", "this", "flags", "bin", "color"}
  BY DEF Header
<1> HIDE DEF cut, h
<1>6. /\ DOMAIN t.mem = DOMAIN s.mem \cup {n} /\ t.mem[n] = h
      /\ \A d \in DOMAIN s.mem : d # n => t.mem[d] = cut[d]
  BY <1>3, <1>4 DEF Put
<1>7. \A d \in DOMAIN t.mem : DOMAIN t.mem[d] = {"prev", "this", "flags", "bin", "color"}
  BY <1>1, <1>4, <1>5, <1>6
<1>8. \A d \in DOMAIN s.mem : d # n => d \in DOMAIN t.mem /\ SameTags(s, t, d)
  BY <1>4, <1>6 DEF SameTags
<1>9. Heads(t)
  BY <1>3, <1>7 DEF Heads
<1> QED BY <1>3, <1>5, <1>6, <1>8, <1>9 DEF t, n

\* What was in use in s and kept its header up to t has it in u.
LEMMA TagsOn ==
    ASSUME NEW s, NEW t, NEW u, NEW n, NEW d \in DOMAIN s.mem, d # n, InUse(s, d),
           d # n => d \in DOMAIN t.mem /\ SameTags(s, t, d),
           \A x \in DOMAIN t.mem : x # n /\ InUse(t, x) => x \in DOMAIN u.mem /\ SameTags(t, u, x)
    PROVE  d \in DOMAIN u.mem /\ SameTags(s, u, d)
<1>1. d \in DOMAIN t.mem /\ SameTags(s, t, d)
  OBVIOUS
<1>2. InUse(t, d)
  BY <1>1 DEF SameTags, InUse, Has
<1>3. d \in DOMAIN u.mem /\ SameTags(t, u, d)
  BY <1>1, <1>2
<1> QED BY <1>1, <1>3 DEF SameTags

\* exploit_new_chunk, then the new chunk is handed out.
LEMMA CarveNoted ==
    ASSUME NEW s, Counting(s), NEW c \in DOMAIN s.mem, NEW size, NEW l \in Levels,
           Level(s, c) = l, ~Has(s, c, "DIRECT"), ~Has(s, c, "SLOT"),
           NEW bin \in Bins, NEW color \in Colors
    PROVE  Noted(s, CarveOut(s, c, size, bin, color), l, bin, color, FALSE)
<1> DEFINE t == ExploitNewChunk(s, c, size)
           n == NewChunk(s, c, size)
           r == CarveOut(s, c, size, bin, color)
<1>1. /\ Heads(t) /\ t.bytes = s.bytes /\ t.counter = s.counter /\ t.slot = s.slot
      /\ n \in DOMAIN t.mem /\ t.mem[n].flags = s.mem[c].flags
      /\ \A d \in DOMAIN s.mem : d # n => d \in DOMAIN t.mem /\ SameTags(s, t, d)
  BY CutTags DEF Counting
<1>2. r = HandOut(t, n, bin, color) /\ r.c = n
  BY DEF CarveOut, HandOut
<1> HIDE DEF t, n, r
<1>3. Counting(t) /\ Level(t, n) = l /\ (Has(t, n, "DIRECT") <=> FALSE) /\ ~Has(t, n, "SLOT")
  BY <1>1 DEF Counting, Level, Has
<1>4. Noted(t, r, l, bin, color, FALSE)
  BY <1>1, <1>2, <1>3, HandNoted
<1>5. ASSUME NEW d \in DOMAIN s.mem, d # r.c, InUse(s, d)
      PROVE  d \in DOMAIN r.s.mem /\ SameTags(s, r.s, d)
  <2> DEFINE u == r.s
  <2>1. \A x \in DOMAIN t.mem : x # n /\ InUse(t, x) => x \in DOMAIN u.mem /\ SameTags(t, u, x)
    BY <1>2, <1>4 DEF Noted
  <2> HIDE DEF u
  <2>2. d \in DOMAIN u.mem /\ SameTags(s, u, d)
    BY <1>1, <1>2, <1>5, <2>1, TagsOn
  <2> QED BY <2>2 DEF u
<1>6. Noted(s, r, l, bin, color, FALSE)
  BY <1>1, <1>4, <1>5 DEF Noted
<1> QED BY <1>6 DEF r

\* The first chunk of a bin leaves it without a change to a chunk in use.
LEMMA HeadPicked ==
    ASSUME NEW s, NEW own, Heap(s, {}, {}, own), NEW l \in Levels, NEW b \in Bins,
           b \in s.bitmap[l]
    PROVE  LET c == Head(s.bin[l][b])
               t == PickChunk(s, c)
           IN  /\ Quiet(s, t) /\ c \in DOMAIN t.mem /\ Level(t, c) = l
               /\ ~Has(t, c, "DIRECT") /\ ~Has(t, c, "SLOT")
<1> DEFINE c == Head(s.bin[l][b])
           t == PickChunk(s, c)
           none == {}
<1>1. s.bin[l][b] # <<>> /\ s.bin[l][b] \in Seq(Address) /\ IsInjective(s.bin[l][b])
  BY DEF Heap, Lists, Binned, Object
<1>2. c \in ToSet(s.bin[l][b])
  BY <1>1, Tailed
<1>3. Heap(s, none, none, own) /\ Heads(s)
  BY ShapeHeads DEF Heap
<1> HIDE DEF none, c
<1>4. c \in DOMAIN s.mem /\ ~InUse(s, c) /\ Level(s, c) = l
      /\ ~Has(s, c, "DIRECT") /\ ~Has(s, c, "SLOT")
  BY <1>2, <1>3, BinMember
<1>5. /\ Quiet(s, t) /\ DOMAIN t.mem = DOMAIN s.mem
      /\ \A d \in DOMAIN s.mem : t.mem[d].flags = s.mem[d].flags
  BY <1>3, <1>4, PickQuiet
<1> HIDE DEF t
<1>6. /\ Quiet(s, t) /\ c \in DOMAIN t.mem /\ Level(t, c) = l
      /\ ~Has(t, c, "DIRECT") /\ ~Has(t, c, "SLOT")
  BY <1>4, <1>5 DEF Level, Has
<1> QED BY <1>6 DEF t, c

\* Looking for a chunk touches none in use.
LEMMA FetchQuiet ==
    ASSUME NEW s, NEW own, Heap(s, {}, {}, own), NEW l \in Levels, NEW bin \in Nat, NEW size
    PROVE  LET f == Fetch(s, l, bin, size) IN (f.c = NULL /\ f.s = s) \/ Quiet(s, f.s)
<1> DEFINE above == {b \in s.bitmap[l] : b >= bin}
           f == Fetch(s, l, bin, size)
<1>1. Shape(s) /\ s.bitmap \in [Levels -> SUBSET Bins]
  BY DEF Heap, Lists, Object
<1>2. above \subseteq Nat /\ above \subseteq s.bitmap[l] /\ above \subseteq Bins
  BY <1>1 DEF Bins
<1>3. CASE above # {}
  <2> DEFINE b == Min(above)
             c == Head(s.bin[l][b])
  <2>1. b \in Bins /\ b \in s.bitmap[l]
    BY <1>2, <1>3, MinOf
  <2>2. f.s = PickChunk(s, c)
    BY <1>3 DEF Fetch
  <2> HIDE DEF b, f
  <2>3. Quiet(s, PickChunk(s, c))
    BY <2>1, HeadPicked
  <2>4. Quiet(s, f.s)
    BY <2>2, <2>3
  <2> QED BY <2>4 DEF f
<1>4. CASE above = {}
  <2> DEFINE flags == IF l = 1 THEN {"BIG"} ELSE {}
             n == BlockBytes(size, flags)
             r == AllocBlock(s, size, flags)
             zero == 0
  <2>1. f = r
    BY <1>4 DEF Fetch
  <2>2. "USED" \notin flags /\ "DIRECT" \notin flags /\ "SLOT" \notin flags
        /\ flags \cup {"USED"} \in Kinds
    BY DEF Kinds
  <2>3. BlockFits(s, n, flags, zero)
    <3>1. DEFAULT_BLOCK_SIZE >= BIG_LEAST_SIZE + BlockOverhead
      BY Bounds
    <3> HIDE DEF flags
    <3>2. n = DEFAULT_BLOCK_SIZE
      BY <2>2 DEF BlockBytes
    <3> QED BY <2>2, <3>1, <3>2, Grains, DefaultGrains DEF BlockFits
  <2> DEFINE k == n
  <2>4. k = BlockBytes(size, flags) /\ BlockFits(s, k, flags, zero)
    BY <2>3
  <2> HIDE DEF flags, n, zero, k
  <2>5. \/ r.c = NULL /\ r.s = s
        \/ /\ Quiet(s, r.s) /\ r.c \in DOMAIN r.s.mem /\ r.s.mem[r.c].flags = flags
           /\ This(r.s, r.c) = k - BlockOverhead
    BY <1>1, <2>4, AddQuiet
  <2> HIDE DEF r, f
  <2>6. (f.c = NULL /\ f.s = s) \/ Quiet(s, f.s)
    BY <2>1, <2>5
  <2> QED BY <2>6 DEF f
<1> QED BY <1>3, <1>4

\* A chunk of a bin is handed out,
LEMMA ListNoted ==
    ASSUME NEW s, NEW own, Heap(s, {}, {}, own), Counting(s), NEW l \in Levels,
           NEW b \in Bins, b \in s.bitmap[l], NEW bin \in Bins, NEW color \in Colors
    PROVE  LET c == Head(s.bin[l][b]) IN
           Noted(s, HandOut(PickChunk(s, c), c, bin, color), l, bin, color, FALSE)
<1> DEFINE c == Head(s.bin[l][b])
           t == PickChunk(s, c)
<1>1. /\ Quiet(s, t) /\ c \in DOMAIN t.mem /\ Level(t, c) = l
      /\ ~Has(t, c, "DIRECT") /\ ~Has(t, c, "SLOT")
  BY HeadPicked
<1> HIDE DEF c, t
<1>2. Counting(t)
  BY <1>1, QuietCounting
<1>3. Noted(t, HandOut(t, c, bin, color), l, bin, color, FALSE)
  BY <1>1, <1>2, HandNoted
<1>4. Noted(s, HandOut(t, c, bin, color), l, bin, color, FALSE)
  BY <1>1, <1>3, NotedOn
<1> QED BY <1>4 DEF t, c

\* dv_ as a whole,
LEMMA DvNoted ==
    ASSUME NEW s, NEW own, Heap(s, {}, {}, own), Counting(s), NEW l \in Levels,
           s.dv[l] # NULL, NEW bin \in Bins, NEW color \in Colors
    PROVE  Noted(s, HandOut([s EXCEPT !.dv[l] = NULL], s.dv[l], bin, color), l, bin, color, FALSE)
<1> DEFINE c == s.dv[l]
           t == [s EXCEPT !.dv[l] = NULL]
           none == {}
<1>1. Heap(s, none, none, own) /\ DOMAIN s = Fields /\ Heads(s)
  BY DEF Counting, Heads
<1>2. DOMAIN t = Fields /\ t.mem = s.mem /\ \A f \in {"mem", "bytes", "counter", "slot"} : t[f] = s[f]
  BY <1>1 DEF Fields
<1> HIDE DEF none, t
<1>3. c \in DOMAIN s.mem /\ ~Has(s, c, "DIRECT") /\ ~Has(s, c, "SLOT") /\ Level(s, c) = l
  BY <1>1, DvMember
<1> HIDE DEF c
<1>4. c \in DOMAIN t.mem /\ ~Has(t, c, "DIRECT") /\ ~Has(t, c, "SLOT") /\ Level(t, c) = l
  BY <1>2, <1>3 DEF Has, Level
<1>5. Quiet(s, t)
  BY <1>1, <1>2, FieldsQuiet
<1>6. Counting(t)
  BY <1>5, QuietCounting
<1>7. Noted(t, HandOut(t, c, bin, color), l, bin, color, FALSE)
  BY <1>4, <1>6, HandNoted
<1>8. Noted(s, HandOut(t, c, bin, color), l, bin, color, FALSE)
  BY <1>5, <1>7, NotedOn
<1> QED BY <1>8 DEF c, t

\* the rear part of dv_,
LEMMA SplitNoted ==
    ASSUME NEW s, NEW own, Heap(s, {}, {}, own), Counting(s), NEW l \in Levels,
           s.dv[l] # NULL, NEW size, NEW bin \in Bins, NEW color \in Colors
    PROVE  Noted(s, CarveOut(s, s.dv[l], size, bin, color), l, bin, color, FALSE)
<1> DEFINE c == s.dv[l]
           none == {}
<1>1. Heap(s, none, none, own)
  OBVIOUS
<1> HIDE DEF none
<1>2. c \in DOMAIN s.mem /\ ~Has(s, c, "DIRECT") /\ ~Has(s, c, "SLOT") /\ Level(s, c) = l
  BY <1>1, DvMember
<1> HIDE DEF c
<1>3. Noted(s, CarveOut(s, c, size, bin, color), l, bin, color, FALSE)
  BY <1>2, CarveNoted
<1> QED BY <1>3 DEF c

\* or the rear part of a chunk whose rest becomes dv_, when the old dv_ went to a bin.
LEMMA NewSplitNoted ==
    ASSUME NEW s, NEW own, NEW c, Heap(s, {c}, {}, own), Counting(s), NEW l \in Levels,
           Level(s, c) = l, ~Has(s, c, "DIRECT"), NEW size, NEW bin \in Bins, NEW color \in Colors
    PROVE  LET d == s.dv[l]
               kept == IF d = NULL THEN s ELSE IF l = 1 THEN PushBig(s, d) ELSE PushSmall(s, d)
           IN  Noted(s, CarveOut([kept EXCEPT !.dv[l] = c], c, size, bin, color), l, bin, color,
                     FALSE)
<1> DEFINE d == s.dv[l]
           kept == IF d = NULL THEN s ELSE IF l = 1 THEN PushBig(s, d) ELSE PushSmall(s, d)
           t == [kept EXCEPT !.dv[l] = c]
           one == {c}
           none == {}
           r == CarveOut(t, c, size, bin, color)
<1>1. Heap(s, one, none, own) /\ c \in one /\ Shape(s) /\ Heads(s)
  BY DEF Heap, Counting
<1> HIDE DEF one, none
<1>2. c \in DOMAIN s.mem
  BY <1>1, LooseMember
<1>3. ~Has(s, c, "SLOT")
  BY <1>1, <1>2, Kind
<1>4. d # NULL => ~InUse(s, d)
  BY <1>1, DvMember
<1>5. /\ Quiet(s, kept) /\ DOMAIN kept.mem = DOMAIN s.mem
      /\ \A x \in DOMAIN s.mem, f \in {"BIG", "DIRECT", "SLOT"} : Has(kept, x, f) <=> Has(s, x, f)
  <2>1. CASE d = NULL
    <3>1. kept = s
      BY <2>1
    <3>2. DOMAIN s = Fields /\ \A f \in {"mem", "bytes", "counter", "slot"} : s[f] = s[f]
      BY <1>1 DEF Heads
    <3>3. Quiet(s, s)
      BY <1>1, <3>2, FieldsQuiet
    <3> QED BY <3>1, <3>3
  <2>2. CASE d # NULL
    <3> DEFINE b == IF l = 1 THEN BigBin(This(s, d)) ELSE SmallBin(This(s, d))
    <3>1. kept = PushChunk(s, d, b)
      BY <2>2 DEF PushBig, PushSmall
    <3> HIDE DEF b, kept, d
    <3> DEFINE u == PushChunk(s, d, b)
    <3>2. /\ Quiet(s, u) /\ DOMAIN u.mem = DOMAIN s.mem
          /\ \A x \in DOMAIN s.mem, f \in {"BIG", "DIRECT", "SLOT"} : Has(u, x, f) <=> Has(s, x, f)
      BY <1>1, <1>4, <2>2, PushQuiet
    <3> QED BY <3>1, <3>2
  <2> QED BY <2>1, <2>2
<1> HIDE DEF kept, d, r
<1>6. Heads(kept) /\ DOMAIN kept = Fields
  BY <1>5 DEF Quiet, Heads
<1>7. /\ DOMAIN t = Fields /\ t.mem = kept.mem
      /\ \A f \in {"mem", "bytes", "counter", "slot"} : t[f] = kept[f]
  BY <1>6 DEF Fields
<1> HIDE DEF t
<1>8. Quiet(kept, t)
  BY <1>6, <1>7, FieldsQuiet
<1>9. Quiet(s, t)
  BY <1>5, <1>8, QuietOn
<1>10. Counting(t)
  BY <1>9, QuietCounting
<1>11. c \in DOMAIN t.mem /\ Level(t, c) = l /\ ~Has(t, c, "DIRECT") /\ ~Has(t, c, "SLOT")
  <2>1. \A f \in {"BIG", "DIRECT", "SLOT"} : Has(t, c, f) <=> Has(s, c, f)
    BY <1>2, <1>5, <1>7 DEF Has
  <2> QED BY <1>2, <1>3, <1>5, <1>7, <2>1 DEF Level
<1>12. Noted(t, r, l, bin, color, FALSE)
  BY <1>10, <1>11, CarveNoted DEF r
<1>13. Noted(s, r, l, bin, color, FALSE)
  BY <1>9, <1>12, NotedOn
<1> QED BY <1>13 DEF r, t, kept, d

\* alloc_memory notes a small request,
LEMMA SmallNoted ==
    ASSUME NEW s, NEW own \in [BlockIds -> Nat], Heap(s, {}, {}, own), Counting(s),
           NEW req \in Nat, req < SMALL_MAX_REQUEST - FINE, NEW color \in Colors
    PROVE  LET r == SmallAlloc(s, req, color) IN
           (r.c = NULL /\ r.s = s) \/ Noted(s, r, 0, SmallId(req), color, FALSE)
<1> DEFINE id == SmallId(req)
           size == id * FINE + CHUNK_PADDING_SIZE
           near == s.bitmap[0] \cap {id, id + 1}
           c == Head(s.bin[0][Min(near)])
           d == s.dv[0]
           f == Fetch(s, 0, id, size)
           kept == IF d = NULL THEN f.s ELSE PushSmall(f.s, d)
           r == SmallAlloc(s, req, color)
<1>0. 0 \in Levels /\ s.bitmap \in [Levels -> SUBSET Bins]
  BY DEF Levels, Heap, Lists, Object
<1>1. id \in Nat /\ id \in Bins
  BY SmallRequest, Grains, Bounds DEF Bins
<1>a. near # {} => r = HandOut(PickChunk(s, c), c, id, color)
  BY DEF SmallAlloc
<1>b. near = {} /\ CanSplit(s, d, size, SMALL_LEAST_SIZE) => r = CarveOut(s, d, size, id, color)
  BY DEF SmallAlloc
<1>c. near = {} /\ ~CanSplit(s, d, size, SMALL_LEAST_SIZE) /\ Fits(s, d, size) =>
        r = HandOut([s EXCEPT !.dv[0] = NULL], d, id, color)
  BY DEF SmallAlloc
<1>d. near = {} /\ ~CanSplit(s, d, size, SMALL_LEAST_SIZE) /\ ~Fits(s, d, size) =>
        r = IF f.c = NULL THEN f ELSE CarveOut([kept EXCEPT !.dv[0] = f.c], f.c, size, id, color)
  BY DEF SmallAlloc
<1> HIDE DEF id, size, r
<1>3. CASE near # {}
  <2> DEFINE b == Min(near)
  <2>1. near \subseteq Nat /\ near \subseteq Bins
    BY <1>0 DEF Bins
  <2>2. b \in near
    BY <1>3, <2>1, MinOf
  <2>3. b \in Bins /\ b \in s.bitmap[0]
    BY <2>1, <2>2
  <2> HIDE DEF b, near
  <2>4. Noted(s, HandOut(PickChunk(s, c), c, id, color), 0, id, color, FALSE)
    BY <1>0, <1>1, <2>3, ListNoted DEF b
  <2> QED BY <1>3, <1>a, <2>4 DEF near, r, id
<1>4. CASE near = {} /\ CanSplit(s, d, size, SMALL_LEAST_SIZE)
  <2>1. d # NULL
    BY <1>4 DEF CanSplit
  <2> HIDE DEF near
  <2>2. Noted(s, CarveOut(s, d, size, id, color), 0, id, color, FALSE)
    BY <1>0, <1>1, <2>1, SplitNoted
  <2> QED BY <1>4, <1>b, <2>2 DEF near, r, id
<1>5. CASE near = {} /\ ~CanSplit(s, d, size, SMALL_LEAST_SIZE) /\ Fits(s, d, size)
  <2>1. d # NULL
    BY <1>5 DEF Fits
  <2> HIDE DEF near
  <2>2. Noted(s, HandOut([s EXCEPT !.dv[0] = NULL], d, id, color), 0, id, color, FALSE)
    BY <1>0, <1>1, <2>1, DvNoted
  <2> QED BY <1>5, <1>c, <2>2 DEF near, r, id
<1>6. CASE near = {} /\ ~CanSplit(s, d, size, SMALL_LEAST_SIZE) /\ ~Fits(s, d, size)
  <2>1. (f.c = NULL /\ f.s = s) \/ FetchedFor(s, f, 0, id)
    BY <1>0, <1>1, Fetched
  <2>q. (f.c = NULL /\ f.s = s) \/ Quiet(s, f.s)
    BY <1>0, <1>1, FetchQuiet
  <2>2. CASE f.c = NULL /\ f.s = s
    <3>1. r = f
      BY <1>6, <1>d, <2>2
    <3> HIDE DEF f
    <3> QED BY <2>2, <3>1 DEF r
  <2>3. CASE FetchedFor(s, f, 0, id)
    <3> DEFINE t == f.s
               e == f.c
               l == 0
    <3>0. r = CarveOut([kept EXCEPT !.dv[l] = e], e, size, id, color) /\ e # NULL
      BY <1>6, <1>d, <2>3 DEF FetchedFor
    <3>1. ~Has(t, e, "DIRECT") /\ Level(t, e) = l /\ t.dv = s.dv /\ l \in Levels /\ l # 1
      BY <1>0, <2>3 DEF FetchedFor
    <3>2. PICK to \in [BlockIds -> Nat] : Heap(t, {e}, {}, to)
      BY <2>3 DEF FetchedFor
    <3>3. Quiet(s, t)
      BY <2>q, <3>0
    <3>4. kept = IF t.dv[l] = NULL THEN t
                 ELSE IF l = 1 THEN PushBig(t, t.dv[l]) ELSE PushSmall(t, t.dv[l])
      BY <3>1
    <3>l. l = 0
      OBVIOUS
    <3> HIDE DEF t, e, f, kept, l
    <3>5. Counting(t)
      BY <3>3, QuietCounting
    <3>6. LET g == t.dv[l]
              k == IF g = NULL THEN t ELSE IF l = 1 THEN PushBig(t, g) ELSE PushSmall(t, g)
          IN  Noted(t, CarveOut([k EXCEPT !.dv[l] = e], e, size, id, color), l, id, color, FALSE)
      BY <1>1, <3>1, <3>2, <3>5, NewSplitNoted
    <3>7. Noted(t, r, l, id, color, FALSE)
      BY <3>0, <3>4, <3>6
    <3>8. Noted(s, r, l, id, color, FALSE)
      BY <3>3, <3>7, NotedOn
    <3> QED BY <3>8, <3>l DEF r, id
  <2> QED BY <2>1, <2>2, <2>3
<1> QED BY <1>3, <1>4, <1>5, <1>6

\* a big one,
LEMMA BigNoted ==
    ASSUME NEW s, NEW own \in [BlockIds -> Nat], Heap(s, {}, {}, own), Counting(s),
           NEW req \in Nat, SMALL_MAX_REQUEST - FINE <= req, req < BIG_MAX_REQUEST,
           NEW color \in Colors
    PROVE  LET r == BigAlloc(s, req, color) IN
           (r.c = NULL /\ r.s = s) \/ Noted(s, r, 1, BigId(req), color, FALSE)
<1> DEFINE id == BigId(req)
           size == BigSize(req)
           c == Head(s.bin[1][id])
           d == s.dv[1]
           f == Fetch(s, 1, id, size)
           kept == IF d = NULL THEN f.s ELSE PushBig(f.s, d)
           r == BigAlloc(s, req, color)
<1>0. 1 \in Levels
  BY DEF Levels
<1>1. id \in Nat /\ id \in Bins
  BY BigRequest DEF Bins
<1>a. id \in s.bitmap[1] => r = HandOut(PickChunk(s, c), c, id, color)
  BY DEF BigAlloc
<1>b. id \notin s.bitmap[1] /\ CanSplit(s, d, size, BIG_LEAST_SIZE) =>
        r = CarveOut(s, d, size, id, color)
  BY DEF BigAlloc
<1>c. id \notin s.bitmap[1] /\ ~CanSplit(s, d, size, BIG_LEAST_SIZE) /\ Fits(s, d, size) =>
        r = HandOut([s EXCEPT !.dv[1] = NULL], d, id, color)
  BY DEF BigAlloc
<1>d. id \notin s.bitmap[1] /\ ~CanSplit(s, d, size, BIG_LEAST_SIZE) /\ ~Fits(s, d, size) =>
        r = CASE f.c = NULL -> f
              [] f.c # NULL /\ CanSplit(f.s, f.c, size, BIG_LEAST_SIZE) ->
                   CarveOut([kept EXCEPT !.dv[1] = f.c], f.c, size, id, color)
              [] OTHER -> HandOut(f.s, f.c, id, color)
  BY DEF BigAlloc
<1> HIDE DEF id, size, r
<1>3. CASE id \in s.bitmap[1]
  <2>1. Noted(s, HandOut(PickChunk(s, c), c, id, color), 1, id, color, FALSE)
    BY <1>0, <1>1, <1>3, ListNoted
  <2> QED BY <1>3, <1>a, <2>1 DEF r, id
<1>4. CASE id \notin s.bitmap[1] /\ CanSplit(s, d, size, BIG_LEAST_SIZE)
  <2>1. d # NULL
    BY <1>4 DEF CanSplit
  <2>2. Noted(s, CarveOut(s, d, size, id, color), 1, id, color, FALSE)
    BY <1>0, <1>1, <2>1, SplitNoted
  <2> QED BY <1>4, <1>b, <2>2 DEF r, id
<1>5. CASE id \notin s.bitmap[1] /\ ~CanSplit(s, d, size, BIG_LEAST_SIZE) /\ Fits(s, d, size)
  <2>1. d # NULL
    BY <1>5 DEF Fits
  <2>2. Noted(s, HandOut([s EXCEPT !.dv[1] = NULL], d, id, color), 1, id, color, FALSE)
    BY <1>0, <1>1, <2>1, DvNoted
  <2> QED BY <1>5, <1>c, <2>2 DEF r, id
<1>6. CASE id \notin s.bitmap[1] /\ ~CanSplit(s, d, size, BIG_LEAST_SIZE) /\ ~Fits(s, d, size)
  <2>1. (f.c = NULL /\ f.s = s) \/ FetchedFor(s, f, 1, id)
    BY <1>0, <1>1, Fetched
  <2>q. (f.c = NULL /\ f.s = s) \/ Quiet(s, f.s)
    BY <1>0, <1>1, FetchQuiet
  <2>2. CASE f.c = NULL /\ f.s = s
    <3>1. r = f
      BY <1>6, <1>d, <2>2
    <3> HIDE DEF f
    <3> QED BY <2>2, <3>1 DEF r
  <2>3. CASE FetchedFor(s, f, 1, id)
    <3> DEFINE t == f.s
               e == f.c
               l == 1
    <3>0. e # NULL /\ e \in DOMAIN t.mem
          /\ r = IF CanSplit(t, e, size, BIG_LEAST_SIZE)
                 THEN CarveOut([kept EXCEPT !.dv[l] = e], e, size, id, color)
                 ELSE HandOut(t, e, id, color)
      BY <1>6, <1>d, <2>3 DEF FetchedFor
    <3>1. ~Has(t, e, "DIRECT") /\ Level(t, e) = l /\ t.dv = s.dv /\ l \in Levels
      BY <1>0, <2>3 DEF FetchedFor
    <3>2. PICK to \in [BlockIds -> Nat] : Heap(t, {e}, {}, to)
      BY <2>3 DEF FetchedFor
    <3>3. Quiet(s, t)
      BY <2>q, <3>0
    <3>4. kept = IF t.dv[l] = NULL THEN t
                 ELSE IF l = 1 THEN PushBig(t, t.dv[l]) ELSE PushSmall(t, t.dv[l])
      BY <3>1
    <3>l. l = 1
      OBVIOUS
    <3> HIDE DEF t, e, f, kept, l
    <3>5. Counting(t)
      BY <3>3, QuietCounting
    <3>6. LET g == t.dv[l]
              k == IF g = NULL THEN t ELSE IF l = 1 THEN PushBig(t, g) ELSE PushSmall(t, g)
          IN  Noted(t, CarveOut([k EXCEPT !.dv[l] = e], e, size, id, color), l, id, color, FALSE)
      BY <1>1, <3>1, <3>2, <3>5, NewSplitNoted
    <3>7. ~Has(t, e, "SLOT")
      <4>1. Shape(t)
        BY <3>2 DEF Heap
      <4> QED BY <3>0, <3>1, <4>1, Kind
    <3>8. Noted(t, HandOut(t, e, id, color), l, id, color, FALSE)
      BY <1>1, <3>0, <3>1, <3>5, <3>7, HandNoted
    <3>9. Noted(t, r, l, id, color, FALSE)
      BY <3>0, <3>4, <3>6, <3>8
    <3>10. Noted(s, r, l, id, color, FALSE)
      BY <3>3, <3>9, NotedOn
    <3> QED BY <3>10, <3>l DEF r, id
  <2> QED BY <2>1, <2>2, <2>3
<1> QED BY <1>3, <1>4, <1>5, <1>6

\* and one that gets a block of its own.
LEMMA DirectNoted ==
    ASSUME NEW s, NEW own \in [BlockIds -> Nat], Heap(s, {}, {}, own), Counting(s),
           NEW req \in Nat, BIG_MAX_REQUEST <= req, req <= MaxBytes, NEW color \in Colors
    PROVE  LET r == DirectAlloc(s, req, color) IN
           (r.c = NULL /\ r.s = s) \/ Noted(s, r, 1, DirectBin(req), color, TRUE)
<1> DEFINE bytes == req + CHUNK_PADDING_SIZE + SMALL_LEAST_SIZE
           flags == {"DIRECT", "BIG"}
           n == BlockBytes(bytes, flags)
           f == AllocBlock(s, bytes, flags)
           id == DirectBin(req)
           h == HandOut(f.s, f.c, id, color)
           r == DirectAlloc(s, req, color)
           zero == 0
           x == <<color, 1, BIG_LOG_BYTES_BIN_ID>>
<1>1. /\ "DIRECT" \in flags /\ "BIG" \in flags /\ "SLOT" \notin flags /\ "USED" \notin flags
      /\ flags \cup {"USED"} \in Kinds
  BY DEF Kinds
<1>2. /\ bytes \in Nat /\ bytes = req + 3 * FINE /\ bytes <= MaxBytes + 5 * FINE
  <2>1. MaxBytes = 2^30 /\ 2^30 \in Nat
    BY Bounds DEF MaxBytes
  <2>2. bytes = req + FINE + 2 * FINE
    BY Grains
  <2> HIDE DEF bytes
  <2>3. bytes \in Nat /\ bytes = req + 3 * FINE
    BY <2>2, Grains
  <2> QED BY <2>1, <2>3, Grains
<1>3. id \in Bins /\ 1 \in Levels
  <2>1. BIG_MAX_BIN_ID = BINMAP_SIZE - 2 /\ BINMAP_SIZE \in Nat
    BY Bounds DEF BIG_MAX_BIN_ID
  <2>2. id \in 0 .. BIG_MAX_BIN_ID
    BY DirectBinRange
  <2> HIDE DEF id
  <2> QED BY <2>1, <2>2 DEF Bins, Levels
<1>a. f.c = NULL => r = f
  BY DEF DirectAlloc
<1>b. f.c # NULL => r = IF id = BIG_MAX_BIN_ID
                        THEN [h EXCEPT !.s.counter[x] = @ + This(f.s, f.c)] ELSE h
  BY DEF DirectAlloc
<1> HIDE DEF flags, bytes, id
<1>4. n \in Nat /\ n >= bytes + 7 * FINE /\ n % FINE = 0
  BY <1>1, <1>2, BlockSize
<1>5. BlockFits(s, n, flags, zero)
  <2>1. n >= BIG_LEAST_SIZE + BlockOverhead /\ n >= 8 * FINE
    BY <1>2, <1>4, Bounds
  <2> QED BY <1>1, <1>4, <2>1 DEF BlockFits
<1> DEFINE m == n
<1>6. m = BlockBytes(bytes, flags) /\ BlockFits(s, m, flags, zero) /\ Shape(s)
  BY <1>5 DEF Heap
<1> HIDE DEF n, m, zero
<1>7. \/ f.c = NULL /\ f.s = s
      \/ /\ Quiet(s, f.s) /\ f.c \in DOMAIN f.s.mem /\ f.s.mem[f.c].flags = flags
         /\ This(f.s, f.c) = m - BlockOverhead
  BY <1>6, AddQuiet
<1>8. CASE f.c = NULL
  <2>1. f.s = s
    <3>1. f.c = NULL => f.s = s
      BY DEF AllocBlock, FirstChunk, NULL
    <3> QED BY <1>8, <3>1
  <2>2. r = f
    BY <1>8, <1>a
  <2> HIDE DEF f, r
  <2>3. r.c = NULL /\ r.s = s
    BY <1>8, <2>1, <2>2
  <2> QED BY <2>3 DEF r
<1>9. CASE f.c # NULL
  <2>1. Quiet(s, f.s) /\ f.c \in DOMAIN f.s.mem /\ f.s.mem[f.c].flags = flags
    BY <1>7, <1>9
  <2> DEFINE t == f.s
             e == f.c
  <2>2. Counting(t)
    BY <2>1, QuietCounting
  <2>3. Level(t, e) = 1 /\ (Has(t, e, "DIRECT") <=> TRUE) /\ ~Has(t, e, "SLOT")
    BY <1>1, <2>1 DEF Level, Has
  <2>4. e \in DOMAIN t.mem
    BY <2>1
  <2> HIDE DEF f
  <2> DEFINE k == HandOut(t, e, id, color)
  <2>5. Noted(t, k, 1, id, color, TRUE)
    BY <1>3, <2>2, <2>3, <2>4, HandNoted
  <2>6. Noted(s, k, 1, id, color, TRUE)
    BY <2>1, <2>5, NotedOn
  <2>7. k = h /\ DOMAIN k = {"s", "c"} /\ DOMAIN k.s = Fields
    <3>1. DOMAIN t = Fields
      BY <2>2 DEF Counting, Heads
    <3> QED BY <3>1 DEF HandOut, Fields
  <2> HIDE DEF k, h, t, e, x, r
  <2>8. Noted(s, r, 1, id, color, TRUE)
    <3>1. CASE id # BIG_MAX_BIN_ID
      BY <1>9, <1>b, <2>6, <2>7, <3>1
    <3>2. CASE id = BIG_MAX_BIN_ID
      <4> DEFINE v == This(t, e)
                 q == k.s.counter
      <4>1. r = [k EXCEPT !.s.counter[x] = @ + v]
        BY <1>9, <1>b, <2>7, <3>2 DEF t, e
      <4>2. /\ r.c = k.c /\ r.s.mem = k.s.mem /\ r.s.bytes = k.s.bytes /\ r.s.slot = k.s.slot
            /\ r.s.counter = [q EXCEPT ![x] = @ + v]
        BY <2>7, <4>1 DEF Fields
      <4>3. v \in Int
        <5>1. v = m - BlockOverhead
          BY <1>7, <1>9 DEF v, t, e
        <5> QED BY <1>4, <5>1, Grains DEF m
      <4>4. Bumped(s.counter, q, <<color, 1, id>>)
        BY <2>6 DEF Noted
      <4>5. x[3] \notin Shown /\ x # <<color, 1, id>>
        <5>1. BIG_LOG_BYTES_BIN_ID = BIG_MAX_BIN_ID + 1 /\ BIG_MAX_BIN_ID \in Int
          BY Bounds DEF BIG_LOG_BYTES_BIN_ID, BIG_MAX_BIN_ID
        <5> QED BY <3>2, <5>1 DEF x, Shown
      <4> HIDE DEF v
      <4>6. Bumped(s.counter, r.s.counter, <<color, 1, id>>)
        <5> DEFINE y == <<color, 1, id>>
                   p == r.s.counter
        <5>1. q \in [Counters -> Int] /\ p = [q EXCEPT ![x] = @ + v]
          BY <4>2, <4>4 DEF Bumped
        <5> HIDE DEF q, p, y
        <5>2. p \in [Counters -> Int]
          <6>1. \A w \in Counters : q[w] \in Int
            BY <5>1
          <6>2. \A w \in Counters : p[w] = IF w = x THEN q[w] + v ELSE q[w]
            BY <5>1
          <6>3. \A w \in Counters : p[w] \in Int
            BY <4>3, <6>1, <6>2
          <6>4. p = [w \in Counters |-> p[w]]
            BY <5>1
          <6> QED BY <6>3, <6>4
        <5>3. \A w \in Counters : w # x => p[w] = q[w]
          BY <5>1
        <5>4. Bumped(s.counter, q, y) /\ x # y
          BY <4>4, <4>5 DEF y
        <5>5. Bumped(s.counter, p, y)
          BY <4>5, <5>2, <5>3, <5>4 DEF Bumped
        <5> QED BY <5>5 DEF p, y
      <4>7. \A g : Has(r.s, r.c, g) <=> Has(k.s, k.c, g)
        BY <4>2 DEF Has
      <4> QED BY <2>6, <4>2, <4>6, <4>7 DEF Noted, Level, This, SameTags
    <3> QED BY <3>1, <3>2
  <2> QED BY <2>8 DEF r, id
<1> QED BY <1>8, <1>9

-----------------------------------------------------------------------------
(* The invariant of the figures: they balance, and the header of what is   *)
(* lent says what was asked for.                                           *)

Described(s, c, ask) ==
    /\ ask.slot \in BOOLEAN /\ (Has(s, c, "SLOT") <=> ask.slot)
    /\ ~ask.slot =>
         /\ s.mem[c].color \in Colors /\ s.mem[c].bin \in Bins
         /\ Has(s, c, "DIRECT") <=> ask.req >= BIG_MAX_REQUEST
         /\ Level(s, c) = 0 => BinSize(0, s.mem[c].bin) <= This(s, c)

Numbers(s) ==
    /\ s.bytes \in Int /\ s.counter \in [Counters -> Int]
    /\ \A i \in SlotIds : s.slot[i].bytes \in Int

Books(s, held) ==
    /\ IsFiniteSet(DOMAIN held) /\ Numbers(s) /\ Balanced(s, held)
    /\ \A c \in DOMAIN held : Described(s, c, held[c])

\* What is lent of a sound heap can be added up.
LEMMA LentFinite ==
    ASSUME NEW s, Sound(s), NEW held, LentSound(s, held), IsFiniteSet(DOMAIN held)
    PROVE  Finite(s, held)
<1>1. Shape(s)
  BY DEF Sound, Heap
<1>2. ASSUME NEW c \in DOMAIN held
      PROVE  This(s, c) \in Nat /\ s.mem[c].bin \in Nat
  <2>1. c \in DOMAIN s.mem
    BY DEF LentSound, UsedBy, Inner
  <2>2. Bins \subseteq Nat /\ SlotIds \subseteq Nat
    BY DEF Bins, SlotIds
  <2> QED BY <1>1, <2>1, <2>2 DEF Shape, Memory, HeaderOK, This
<1> QED BY <1>2 DEF Finite

\* What stays lent stays described.
LEMMA StillDescribed ==
    ASSUME NEW s, NEW t, NEW c, NEW ask, Described(s, c, ask), SameTags(s, t, c),
           This(t, c) = This(s, c)
    PROVE  Described(t, c, ask)
BY DEF Described, SameTags, Has, Level

\* alloc_memory keeps the books.
LEMMA MemoryBooked ==
    ASSUME NEW s, Sound(s), LentSound(s, live), Books(s, live), NEW r, NEW req \in Nat,
           Lends(s, r, req), r.c # NULL, Sound(r.s),
           NEW l \in Levels, NEW bin \in Bins, NEW color \in Colors, NEW direct,
           Noted(s, r, l, bin, color, direct), direct <=> req >= BIG_MAX_REQUEST,
           l = 0 => BinSize(0, bin) <= This(r.s, r.c)
    PROVE  Books(r.s, Lent(r, req, FALSE))
<1> DEFINE t == r.s
           n == r.c
           more == Lent(r, req, FALSE)
<1>1. /\ DOMAIN more = DOMAIN live \cup {n} /\ more[n] = [req |-> req, slot |-> FALSE]
      /\ \A c \in DOMAIN live : c # n => more[c] = live[c]
  BY DEF Lent, Put
<1>2. /\ DOMAIN live = UsedBy(s) /\ n \notin DOMAIN live
      /\ \A c \in DOMAIN live : This(t, c) = This(s, c)
  BY DEF LentSound, Lends
<1>3. LentSound(t, more)
  BY Loaned
<1> HIDE DEF t, n, more
<1>4. IsFiniteSet(DOMAIN more) /\ Numbers(s) /\ IsFiniteSet(DOMAIN live)
  BY <1>1, FS_AddElement DEF Books
<1>5. Finite(t, more)
  BY <1>3, <1>4, LentFinite DEF t
<1>6. /\ n \in DOMAIN t.mem /\ Level(t, n) = l
      /\ t.mem[n].bin = bin /\ t.mem[n].color = color
      /\ (Has(t, n, "DIRECT") <=> direct) /\ ~Has(t, n, "SLOT")
      /\ t.bytes = s.bytes + This(t, n)
      /\ Bumped(s.counter, t.counter, <<color, l, bin>>)
      /\ \A i \in SlotIds : t.slot[i].bytes = s.slot[i].bytes
      /\ \A d \in DOMAIN s.mem : d # n /\ InUse(s, d) => d \in DOMAIN t.mem /\ SameTags(s, t, d)
  BY DEF Noted, t, n
<1>7. ASSUME NEW c \in DOMAIN live
      PROVE  c # n /\ SameTags(s, t, c) /\ This(t, c) = This(s, c) /\ more[c] = live[c]
  <2>1. c \in DOMAIN s.mem /\ InUse(s, c)
    BY <1>2 DEF UsedBy, Inner
  <2> QED BY <1>1, <1>2, <1>6, <2>1
<1>8. More(s, live, t, more, n)
  BY <1>1, <1>2, <1>7 DEF More
<1>9. ~more[n].slot /\ more[n].slot \in BOOLEAN /\ more[n].req = req
  BY <1>1
<1>10. Booked(s, live, t, more, n)
  BY <1>4, <1>5, <1>6, <1>8, <1>9 DEF Booked, Numbers
<1>11. Balanced(t, more)
  BY <1>10, BothBalanced DEF Books
<1>12. Numbers(t)
  <2>1. This(t, n) \in Int
    BY <1>1, <1>5 DEF Finite
  <2> QED BY <1>4, <1>6, <2>1 DEF Numbers, Bumped
<1>13. ASSUME NEW c \in DOMAIN more
       PROVE  Described(t, c, more[c])
  <2>1. CASE c = n
    <3>1. l = 0 => BinSize(0, bin) <= This(t, n)
      BY DEF t, n
    <3> QED BY <1>6, <1>9, <2>1, <3>1 DEF Described
  <2>2. CASE c \in DOMAIN live
    <3>1. Described(s, c, live[c])
      BY <2>2 DEF Books
    <3> QED BY <1>7, <2>2, <3>1, StillDescribed
  <2> QED BY <1>1, <2>1, <2>2
<1>14. Books(t, more)
  BY <1>4, <1>11, <1>12, <1>13 DEF Books
<1> QED BY <1>14 DEF t, more

\* Nothing is in use and every figure is zero.
LEMMA EmptyBooks ==
    ASSUME NEW s, \A f \in {"bytes", "counter", "slot"} : s[f] = InitObject[f],
           NEW held, DOMAIN held = {}
    PROVE  Books(s, held)
<1>1. /\ s.bytes = 0 /\ s.counter = [x \in Counters |-> 0]
      /\ \A i \in SlotIds : s.slot[i].bytes = 0
  BY DEF InitObject, Counters
<1>2. DOMAIN held = {} /\ IsFiniteSet(DOMAIN held)
  BY FS_EmptySet
<1>3. Numbers(s)
  BY <1>1 DEF Numbers
<1>4. /\ \A l : Of(s, held, l) = {}
      /\ \A i \in SlotIds : OfSlotBin(s, held, i) = {}
      /\ \A x \in Colors \X Levels \X Shown : Counted(s, held, x) = {}
  BY <1>2 DEF Of, OfSlotBin, Counted
<1> DEFINE none == {}
           f == [c \in none |-> This(s, c)]
           g == [c \in none |-> Printed(s, c)]
<1>5. f \in [none -> Int] /\ g \in [none -> Int] /\ IsFiniteSet(none)
      /\ (\A c \in none : f[c] = 0) /\ \A c \in none : g[c] = 0
  BY FS_EmptySet
<1>6. SumOf(s, none) = SumFunctionOnSet(f, none) /\ PrintedSum(s, none) = SumFunctionOnSet(g, none)
  BY DEF SumOf, PrintedSum
<1>n. none = {}
  OBVIOUS
<1>7. SumOf(s, none) = 0 /\ PrintedSum(s, none) = 0
  <2> HIDE DEF f, g, none
  <2> QED BY <1>5, <1>6, SumZero
<1>8. Cardinality(none) = 0
  BY FS_EmptySet
<1> HIDE DEF none, f, g
<1>9. LogSum(s.counter) = 0
  <2>1. ASSUME NEW color \in Colors PROVE LogOf(s.counter, color) = 0
    <3> DEFINE h == [b \in Shown |-> s.counter[<<color, 0, b>>] * BinSize(0, b)]
    <3>1. \A b \in Shown : <<color, 0, b>> \in Counters /\ BinSize(0, b) \in Int
      BY ShownBins DEF Counters, Levels
    <3>2. \A b \in Shown : s.counter[<<color, 0, b>>] * BinSize(0, b) = 0
      <4>1. \A b \in Shown : s.counter[<<color, 0, b>>] = 0
        BY <1>1, <3>1
      <4> QED BY <3>1, <4>1
    <3>3. h \in [Shown -> Int] /\ \A b \in Shown : h[b] = 0
      BY <3>2
    <3>4. LogOf(s.counter, color) = SumFunctionOnSet(h, Shown)
      BY DEF LogOf
    <3> HIDE DEF h
    <3> QED BY <3>3, <3>4, ShownBins, SumZero
  <2> DEFINE h == [color \in Colors |-> LogOf(s.counter, color)]
  <2>2. h \in [Colors -> Int] /\ \A color \in Colors : h[color] = 0
    BY <2>1
  <2>3. LogSum(s.counter) = SumFunctionOnSet(h, Colors)
    BY DEF LogSum
  <2> HIDE DEF h
  <2> QED BY <2>2, <2>3, ZMallocAssumption, SumZero
<1>10. ASSUME NEW x \in Colors \X Levels \X Shown
       PROVE  s.counter[x] = Cardinality(Counted(s, held, x))
  <2>1. x \in Counters
    BY ShownBins DEF Counters
  <2>2. Cardinality(Counted(s, held, x)) = 0
    BY <1>4, <1>8, <1>n
  <2> QED BY <1>1, <2>1, <2>2
<1>11. \A i \in SlotIds : s.slot[i].bytes = SumOf(s, OfSlotBin(s, held, i))
  BY <1>1, <1>4, <1>7, <1>n
<1>12. s.bytes = SumOf(s, DOMAIN held)
  BY <1>1, <1>2, <1>7, <1>n
<1>13. LogSum(s.counter) = PrintedSum(s, Of(s, held, 0))
  BY <1>4, <1>7, <1>9, <1>n
<1>14. Balanced(s, held)
  BY <1>10, <1>11, <1>12, <1>13 DEF Balanced
<1> QED BY <1>2, <1>3, <1>14 DEF Books

\* What the calls keep: the invariant of the heap, and the books.
Acct == IInv /\ Books(z, live)

LEMMA InitAcct == Init => Acct
<1> SUFFICES ASSUME Init PROVE Acct
  OBVIOUS
<1>1. \A f \in {"bytes", "counter", "slot"} : z[f] = InitObject[f]
  BY DEF Init, InitObject
<1>2. DOMAIN live = {}
  BY DEF Init
<1>3. Books(z, live)
  BY <1>1, <1>2, EmptyBooks
<1> QED BY <1>3, InitSound DEF Acct

\* An object that is initialised by its first call has nothing lent.
LEMMA ReadyBooks ==
    ASSUME Acct
    PROVE  Books(Ready(z), live)
<1>1. CASE z.inited
  BY <1>1 DEF Ready, Acct
<1>2. CASE ~z.inited
  <2>1. Ready(z) = InitObject
    BY <1>2 DEF Ready
  <2>2. DOMAIN live = {}
    BY <1>2 DEF Acct, IInv, LentSound
  <2> DEFINE s == InitObject
  <2>3. \A f \in {"bytes", "counter", "slot"} : s[f] = InitObject[f]
    OBVIOUS
  <2> HIDE DEF s
  <2>4. Books(s, live)
    BY <2>2, <2>3, EmptyBooks
  <2> QED BY <2>1, <2>4 DEF s
<1> QED BY <1>1, <1>2

\* What alloc_memory notes of its request.
Told(s, r, req, color) ==
    \E l \in Levels, bin \in Bins, direct \in BOOLEAN :
      /\ Noted(s, r, l, bin, color, direct) /\ (direct <=> req >= BIG_MAX_REQUEST)
      /\ l = 0 => BinSize(0, bin) <= This(r.s, r.c)

LEMMA ToldBig ==
    ASSUME NEW s, NEW r, NEW req, NEW color, NEW bin \in Bins, NEW direct \in BOOLEAN,
           Noted(s, r, 1, bin, color, direct), direct <=> req >= BIG_MAX_REQUEST, 1 \in Levels
    PROVE  Told(s, r, req, color)
<1> DEFINE l == 1
<1>1. l \in Levels /\ ~(l = 0) /\ Noted(s, r, l, bin, color, direct)
  OBVIOUS
<1> HIDE DEF l
<1> QED BY <1>1, ZenonT(30) DEF Told

\* alloc_memory
LEMMA AllocMemoryBooks ==
    ASSUME Acct, IInv', NEW req \in Requests, NEW color \in Colors, AllocMemory(req, color)
    PROVE  Books(z', live')
<1> DEFINE s == Ready(z)
           r == Alloc(z, req, color)
<1>1. req \in Nat /\ req <= MaxBytes
  <2>1. MaxBytes \in Nat
    BY Bounds DEF MaxBytes
  <2> QED BY <2>1, ZMallocAssumption
<1>2. Sound(s) /\ LentSound(s, live) /\ Books(s, live)
  BY ReadySound, ReadyBooks DEF Acct
<1>3. PICK own \in [BlockIds -> Nat] : Heap(s, {}, {}, own)
  BY <1>2 DEF Sound
<1>4. \/ req < SMALL_MAX_REQUEST - FINE /\ r = SmallAlloc(s, req, color)
      \/ SMALL_MAX_REQUEST - FINE <= req /\ req < BIG_MAX_REQUEST /\ r = BigAlloc(s, req, color)
      \/ BIG_MAX_REQUEST <= req /\ r = DirectAlloc(s, req, color)
  BY <1>1, Bounds DEF Alloc
<1> HIDE DEF s, r
<1>5. Counting(s)
  <2>1. Heads(s)
    BY <1>3, ShapeHeads DEF Heap
  <2> QED BY <1>2, <2>1 DEF Counting, Books, Numbers
<1>6. z' = r.s /\ live' = Lent(r, req, FALSE)
  BY DEF AllocMemory, r
<1>b. SMALL_MAX_REQUEST \in Nat /\ BIG_MAX_REQUEST \in Nat /\ SMALL_MAX_REQUEST < BIG_MAX_REQUEST
      /\ FINE \in Nat
  BY Bounds
<1>7. Sound(r.s) /\ Lends(s, r, req)
  <2>1. CASE req < SMALL_MAX_REQUEST - FINE /\ r = SmallAlloc(s, req, color)
    <3>1. Served(s, r, SmallId(req) * FINE)
      BY <1>1, <1>3, <2>1, SmallServed
    <3>2. SmallId(req) * FINE \in Nat /\ req <= SmallId(req) * FINE
      BY <1>1, <2>1, SmallRequest
    <3>3. Served(s, r, req)
      BY <1>1, <3>1, <3>2, ServedLess
    <3> QED BY <3>3 DEF Served, Sound
  <2>2. CASE ~(req < SMALL_MAX_REQUEST - FINE /\ r = SmallAlloc(s, req, color))
    <3>1. Served(s, r, req)
      BY <1>1, <1>3, <1>4, <2>2, BigServed, DirectServed
    <3> QED BY <3>1 DEF Served, Sound
  <2> QED BY <2>1, <2>2
<1>8. \/ r.c = NULL /\ r.s = s
      \/ r.c # NULL /\ Told(s, r, req, color)
  <2>0. \A l, bin, direct : Noted(s, r, l, bin, color, direct) => r.c # NULL
    <3>1. Shape(r.s)
      BY <1>7 DEF Sound, Heap
    <3> QED BY <3>1, Headers DEF Noted
  <2>1. CASE req < SMALL_MAX_REQUEST - FINE /\ r = SmallAlloc(s, req, color)
    <3>1. (r.c = NULL /\ r.s = s) \/ Noted(s, r, 0, SmallId(req), color, FALSE)
      BY <1>1, <1>3, <1>5, <2>1, SmallNoted
    <3>2. SmallId(req) \in Bins /\ SmallId(req) * FINE \in Nat /\ 0 \in Levels
      BY <1>1, <2>1, SmallRequest, Bounds DEF Bins, Levels
    <3>3. ~(req >= BIG_MAX_REQUEST)
      BY <1>1, <1>b, <2>1
    <3>4. CASE Noted(s, r, 0, SmallId(req), color, FALSE)
      <4>1. Served(s, r, SmallId(req) * FINE)
        BY <1>1, <1>3, <2>1, SmallServed
      <4>2. This(r.s, r.c) \in Nat /\ This(r.s, r.c) >= SmallId(req) * FINE + CHUNK_PADDING_SIZE
        BY <2>0, <3>4, <4>1 DEF Served, Lends
      <4>3. BinSize(0, SmallId(req)) <= This(r.s, r.c)
        BY <3>2, <4>2, Grains DEF BinSize
      <4> QED BY <2>0, <3>2, <3>3, <3>4, <4>3 DEF Told
    <3> QED BY <3>1, <3>4
  <2>2. CASE SMALL_MAX_REQUEST - FINE <= req /\ req < BIG_MAX_REQUEST /\ r = BigAlloc(s, req, color)
    <3>1. (r.c = NULL /\ r.s = s) \/ Noted(s, r, 1, BigId(req), color, FALSE)
      BY <1>1, <1>3, <1>5, <2>2, BigNoted
    <3>2. BigId(req) \in Bins /\ 1 \in Levels
      BY <1>1, <2>2, BigRequest DEF Levels
    <3>3. ~(req >= BIG_MAX_REQUEST)
      BY <1>1, <1>b, <2>2
    <3>4. ASSUME Noted(s, r, 1, BigId(req), color, FALSE)
          PROVE  r.c # NULL /\ Told(s, r, req, color)
      BY <2>0, <3>2, <3>3, <3>4, ToldBig
    <3> QED BY <3>1, <3>4
  <2>3. CASE BIG_MAX_REQUEST <= req /\ r = DirectAlloc(s, req, color)
    <3>1. (r.c = NULL /\ r.s = s) \/ Noted(s, r, 1, DirectBin(req), color, TRUE)
      BY <1>1, <1>3, <1>5, <2>3, DirectNoted
    <3>2. DirectBin(req) \in Bins /\ 1 \in Levels
      <4>1. BIG_MAX_BIN_ID = BINMAP_SIZE - 2 /\ BINMAP_SIZE \in Nat
        BY Bounds DEF BIG_MAX_BIN_ID
      <4>2. DirectBin(req) \in 0 .. BIG_MAX_BIN_ID
        BY <1>1, <2>3, DirectBinRange
      <4> QED BY <4>1, <4>2 DEF Bins, Levels
    <3>3. ASSUME Noted(s, r, 1, DirectBin(req), color, TRUE)
          PROVE  r.c # NULL /\ Told(s, r, req, color)
      BY <2>0, <2>3, <3>2, <3>3, ToldBig
    <3> QED BY <3>1, <3>3
  <2> QED BY <1>4, <2>1, <2>2, <2>3
<1>9. CASE r.c = NULL /\ r.s = s
  <2>1. live' = live /\ z' = s
    BY <1>6, <1>9 DEF Lent
  <2> QED BY <1>2, <2>1
<1>10. CASE r.c # NULL
  <2>1. PICK l \in Levels, bin \in Bins, direct \in BOOLEAN :
              /\ Noted(s, r, l, bin, color, direct) /\ (direct <=> req >= BIG_MAX_REQUEST)
              /\ l = 0 => BinSize(0, bin) <= This(r.s, r.c)
    BY <1>8, <1>10 DEF Told
  <2>2. Books(r.s, Lent(r, req, FALSE))
    BY <1>1, <1>2, <1>7, <1>10, <2>1, MemoryBooked
  <2> QED BY <1>6, <2>2
<1> QED BY <1>8, <1>9, <1>10

-----------------------------------------------------------------------------
(* alloc_slot: what is noted of the chunk that is handed out *)

SlotNoted(s, r, id) ==
    /\ r.c \in DOMAIN r.s.mem /\ Has(r.s, r.c, "SLOT") /\ r.s.mem[r.c].bin = id
    /\ r.s.bytes = s.bytes + This(r.s, r.c) /\ r.s.counter = s.counter
    /\ \A i \in SlotIds : r.s.slot[i].bytes = s.slot[i].bytes
                                                + IF i = id THEN This(r.s, r.c) ELSE 0
    /\ \A d \in DOMAIN s.mem : d # r.c /\ InUse(s, d) =>
         d \in DOMAIN r.s.mem /\ SameTags(s, r.s, d)
\* The caller gets NULL and no figure changes, or the chunk.
SlotTold(s, r, id) == (r.c = NULL /\ Quiet(s, r.s)) \/ SlotNoted(s, r, id)

\* A step that touches no chunk in use may come first.
LEMMA SlotToldOn ==
    ASSUME NEW s, NEW t, Quiet(s, t), NEW r, NEW id \in SlotIds, SlotTold(t, r, id)
    PROVE  SlotTold(s, r, id)
<1>1. CASE r.c = NULL /\ Quiet(t, r.s)
  BY <1>1, QuietOn DEF SlotTold
<1>2. CASE SlotNoted(t, r, id)
  <2>1. t.bytes = s.bytes /\ t.counter = s.counter
        /\ \A i \in SlotIds : t.slot[i].bytes = s.slot[i].bytes
    BY DEF Quiet, Figures
  <2>2. ASSUME NEW d \in DOMAIN s.mem, d # r.c, InUse(s, d)
        PROVE  d \in DOMAIN r.s.mem /\ SameTags(s, r.s, d)
    <3> DEFINE u == r.s
               n == r.c
    <3>1. \A x \in DOMAIN t.mem : x # n /\ InUse(t, x) => x \in DOMAIN u.mem /\ SameTags(t, u, x)
      BY <1>2 DEF SlotNoted
    <3>2. d \in DOMAIN t.mem /\ SameTags(s, t, d) /\ d # n
      BY <2>2 DEF Quiet
    <3> HIDE DEF u, n
    <3>3. d \in DOMAIN u.mem /\ SameTags(s, u, d)
      BY <2>2, <3>1, <3>2, TagsOn
    <3> QED BY <3>3 DEF u
  <2>3. SlotNoted(s, r, id)
    BY <1>2, <2>1, <2>2 DEF SlotNoted
  <2> QED BY <2>3 DEF SlotTold
<1> QED BY <1>1, <1>2 DEF SlotTold

\* The chunk is handed out.
LEMMA OutSlotNoted ==
    ASSUME NEW s, Heads(s), SlotSizes(s), NEW c \in DOMAIN s.mem, Has(s, c, "SLOT"),
           NEW id \in SlotIds, \A i \in SlotIds : s.slot[i].bytes \in Int, This(s, c) \in Int
    PROVE  SlotNoted(s, SlotOut(s, c, id), id)
<1> DEFINE r == SlotOut(s, c, id)
           flags == s.mem[c].flags \cup {"USED"}
           mem == [s.mem EXCEPT ![c].flags = flags, ![c].bin = id]
           n == This(s, c)
           slot == [s.slot EXCEPT ![id].bytes = @ + n]
<1>1. DOMAIN s = Fields /\ DOMAIN s.mem[c] = {"prev", "this", "flags", "bin", "color"}
  BY DEF Heads
<1>2. r.c = c /\ r.s = [s EXCEPT !.mem[c].flags = flags, !.mem[c].bin = id,
                                 !.bytes = @ + n, !.slot[id].bytes = @ + n]
  BY DEF SlotOut
<1> HIDE DEF r, flags, n
<1>3. /\ r.s.mem = mem /\ r.s.counter = s.counter /\ r.s.bytes = s.bytes + n
      /\ r.s.slot = slot
  BY <1>1, <1>2 DEF Fields
<1>4. /\ DOMAIN mem = DOMAIN s.mem /\ mem[c].flags = flags /\ mem[c].bin = id
      /\ mem[c].this = s.mem[c].this
      /\ \A d \in DOMAIN s.mem : d # c => mem[d] = s.mem[d]
  BY <1>1
<1>5. \A i \in SlotIds : slot[i].bytes = s.slot[i].bytes + IF i = id THEN n ELSE 0
  <2>1. DOMAIN s.slot = SlotIds
        /\ \A i \in SlotIds : DOMAIN s.slot[i] = {"user", "block", "max", "bytes"}
    BY DEF SlotSizes
  <2>2. slot[id] = [s.slot[id] EXCEPT !.bytes = s.slot[id].bytes + n]
        /\ \A i \in SlotIds : i # id => slot[i] = s.slot[i]
    BY <2>1
  <2>3. slot[id].bytes = s.slot[id].bytes + n
    BY <2>1, <2>2
  <2> HIDE DEF slot
  <2>4. ASSUME NEW i \in SlotIds
        PROVE  slot[i].bytes = s.slot[i].bytes + IF i = id THEN n ELSE 0
    <3> DEFINE k == s.slot[i].bytes
    <3>1. k \in Int /\ n \in Int
      BY DEF n
    <3>2. CASE i = id
      BY <2>3, <3>2
    <3>3. CASE i # id
      <4>1. slot[i].bytes = k
        BY <2>2, <3>3
      <4> HIDE DEF k
      <4>2. slot[i].bytes = k + IF i = id THEN n ELSE 0
        BY <3>1, <3>3, <4>1
      <4> QED BY <4>2 DEF k
    <3> QED BY <3>2, <3>3
  <2> QED BY <2>4
<1> HIDE DEF mem, slot
<1>6. Has(r.s, c, "SLOT") /\ This(r.s, c) = n
  BY <1>3, <1>4 DEF Has, This, flags, n
<1>7. SlotNoted(s, r, id)
  BY <1>2, <1>3, <1>4, <1>5, <1>6 DEF SlotNoted, SameTags
<1> QED BY <1>7 DEF r

\* The first chunk of the list is cut or taken whole, or does not fit.
LEMMA TakeNoted ==
    ASSUME NEW s, Heads(s), SlotSizes(s), NEW id \in SlotIds, NEW c \in DOMAIN s.mem,
           c = Head(s.slot_bin[id]), Has(s, c, "SLOT"), This(s, c) \in Int,
           \A i \in SlotIds : s.slot[i].bytes \in Int
    PROVE  SlotTold(s, SlotTake(s, id), id)
<1> DEFINE size == s.slot[id].user + CHUNK_PADDING_SIZE
           r == SlotTake(s, id)
<1>0. DOMAIN s = Fields /\ size \in Int
  <2>1. s.slot[id].user \in Nat
    BY DEF SlotSizes
  <2> QED BY <2>1, Grains DEF Heads
<1>1. CASE This(s, c) >= 2 * size
  <2> DEFINE t == ExploitNewChunk(s, c, size)
             n == NewChunk(s, c, size)
  <2>1. r = SlotOut(t, n, id) /\ r.c = n
    <3>1. r = SlotOut(t, n, id)
      <4> DEFINE d == Head(s.slot_bin[id])
                 k == s.slot[id].user + CHUNK_PADDING_SIZE
      <4>1. c = d /\ k = size /\ This(s, d) >= 2 * k /\ k \in Int /\ This(s, d) \in Int
        BY <1>0, <1>1
      <4>2. SlotTake(s, id) = IF This(s, d) >= 2 * k
                              THEN SlotOut(ExploitNewChunk(s, d, k), NewChunk(s, d, k), id)
                              ELSE IF This(s, d) >= k THEN SlotOut([s EXCEPT !.slot_bin[id] = Tail(@)], d, id)
                              ELSE SlotError(s)
        BY <4>1 DEF SlotTake
      <4> QED BY <4>1, <4>2
    <3> HIDE DEF r, t, n
    <3>2. SlotOut(t, n, id).c = n
      BY DEF SlotOut
    <3> QED BY <3>1, <3>2
  <2>2. This(t, n) = size
    BY DEF ExploitNewChunk, Header, This, Put
  <2> HIDE DEF size
  <2>3. /\ Heads(t) /\ t.bytes = s.bytes /\ t.counter = s.counter /\ t.slot = s.slot
        /\ n \in DOMAIN t.mem /\ t.mem[n].flags = s.mem[c].flags
        /\ \A d \in DOMAIN s.mem : d # n => d \in DOMAIN t.mem /\ SameTags(s, t, d)
    BY CutTags
  <2> HIDE DEF t, n, r
  <2>4. SlotSizes(t) /\ Has(t, n, "SLOT") /\ (\A i \in SlotIds : t.slot[i].bytes \in Int)
        /\ This(t, n) \in Int
    BY <1>0, <2>2, <2>3 DEF SlotSizes, Has
  <2>5. SlotNoted(t, r, id)
    BY <2>1, <2>3, <2>4, OutSlotNoted
  <2>6. ASSUME NEW d \in DOMAIN s.mem, d # r.c, InUse(s, d)
        PROVE  d \in DOMAIN r.s.mem /\ SameTags(s, r.s, d)
    <3> DEFINE u == r.s
    <3>1. \A x \in DOMAIN t.mem : x # n /\ InUse(t, x) => x \in DOMAIN u.mem /\ SameTags(t, u, x)
      BY <2>1, <2>5 DEF SlotNoted
    <3> HIDE DEF u
    <3>2. d \in DOMAIN u.mem /\ SameTags(s, u, d)
      BY <2>1, <2>3, <2>6, <3>1, TagsOn
    <3> QED BY <3>2 DEF u
  <2>7. SlotNoted(s, r, id)
    BY <2>3, <2>5, <2>6 DEF SlotNoted
  <2> QED BY <2>7 DEF SlotTold, r
<1>2. CASE This(s, c) >= size /\ ~(This(s, c) >= 2 * size)
  <2> DEFINE t == [s EXCEPT !.slot_bin[id] = Tail(@)]
  <2>1. r = SlotOut(t, c, id)
    BY <1>0, <1>2 DEF SlotTake
  <2>2. DOMAIN t = Fields /\ \A f \in {"mem", "bytes", "counter", "slot"} : t[f] = s[f]
    BY <1>0 DEF Fields
  <2>3. t.mem = s.mem /\ t.slot = s.slot
    BY <2>2
  <2> HIDE DEF t, r
  <2>4. Quiet(s, t)
    BY <2>2, FieldsQuiet
  <2>5. Heads(t) /\ SlotSizes(t) /\ c \in DOMAIN t.mem /\ Has(t, c, "SLOT") /\ This(t, c) \in Int
        /\ \A i \in SlotIds : t.slot[i].bytes \in Int
    BY <2>3, <2>4 DEF Quiet, SlotSizes, Has, This
  <2>6. SlotTold(t, r, id)
    BY <2>1, <2>5, OutSlotNoted DEF SlotTold
  <2>7. SlotTold(s, r, id)
    BY <2>4, <2>6, SlotToldOn
  <2> QED BY <2>7 DEF r
<1>3. CASE ~(This(s, c) >= size)  /\ ~(This(s, c) >= 2 * size)
  <2>1. r = SlotError(s)
    BY <1>3 DEF SlotTake
  <2> DEFINE t == [s EXCEPT !.errors = @ + 1]
  <2>2. r.s = t /\ r.c = NULL
    BY <2>1 DEF SlotError
  <2>3. DOMAIN t = Fields /\ \A f \in {"mem", "bytes", "counter", "slot"} : t[f] = s[f]
    BY <1>0 DEF Fields
  <2> HIDE DEF t, r
  <2>4. Quiet(s, t)
    BY <2>3, FieldsQuiet
  <2> QED BY <2>2, <2>4 DEF SlotTold, r
<1> QED BY <1>1, <1>2, <1>3

\* Counting an error touches nothing.
LEMMA ErrorTold ==
    ASSUME NEW s, Heads(s), NEW id
    PROVE  SlotTold(s, SlotError(s), id)
<1> DEFINE t == [s EXCEPT !.errors = @ + 1]
           r == SlotError(s)
<1>1. r.s = t /\ r.c = NULL
  BY DEF SlotError
<1>2. DOMAIN t = Fields /\ \A f \in {"mem", "bytes", "counter", "slot"} : t[f] = s[f]
  BY DEF Fields, Heads
<1> HIDE DEF t, r
<1>3. Quiet(s, t)
  BY <1>2, FieldsQuiet
<1>4. SlotTold(s, r, id)
  BY <1>1, <1>3 DEF SlotTold
<1> QED BY <1>4 DEF r

\* A slot whose sizes are set takes from its list, or from a new block.
LEMMA GotTold ==
    ASSUME NEW s, NEW own \in [BlockIds -> Nat], Heap(s, {}, {}, own), NEW id \in SlotIds,
           s.slot[id].user > 0, \A i \in SlotIds : s.slot[i].bytes \in Int
    PROVE  LET f == AllocBlock(s, s.slot[id].block, {"BIG", "DIRECT", "SLOT"})
               r == IF s.slot_bin[id] # <<>> THEN SlotTake(s, id)
                    ELSE IF f.c = NULL THEN SlotError(f.s)
                    ELSE SlotTake([f.s EXCEPT !.slot_bin[id] = <<f.c>>], id)
           IN  SlotTold(s, r, id)
<1> DEFINE flags == {"BIG", "DIRECT", "SLOT"}
           bytes == s.slot[id].block
           f == AllocBlock(s, bytes, flags)
           x == [f.s EXCEPT !.slot_bin[id] = <<f.c>>]
           r == IF s.slot_bin[id] # <<>> THEN SlotTake(s, id)
                ELSE IF f.c = NULL THEN SlotError(f.s) ELSE SlotTake(x, id)
           none == {}
<1>1. Heap(s, none, none, own) /\ Shape(s) /\ SlotSizes(s) /\ Heads(s)
      /\ s.slot_bin \in [SlotIds -> Seq(Address)]
  BY ShapeHeads DEF Heap, Lists, Object
<1>2. CASE s.slot_bin[id] # <<>>
  <2> DEFINE q == s.slot_bin[id]
             c == Head(q)
  <2>1. q \in Seq(Address) /\ q # <<>> /\ IsInjective(q)
    BY <1>1, <1>2 DEF Heap, Lists, SlotListed
  <2>2. c \in ToSet(q)
    <3> HIDE DEF q
    <3> QED BY <2>1, Tailed
  <2> HIDE DEF c, none, r
  <2>3. c \in DOMAIN s.mem /\ Has(s, c, "SLOT")
    BY <1>1, <2>2, SlotMember
  <2>4. This(s, c) \in Int
    BY <1>1, <2>3, Headers
  <2>5. SlotTold(s, SlotTake(s, id), id)
    BY <1>1, <2>3, <2>4, TakeNoted DEF c
  <2> QED BY <1>2, <2>5 DEF r
<1>3. CASE s.slot_bin[id] = <<>>
  <2> DEFINE n == BlockBytes(bytes, flags)
  <2>1. BlockFits(s, n, flags, id)
    BY <1>1, SlotFits
  <2>2. id \in Nat
    BY Bounds, ZMallocAssumption DEF SlotIds
  <2>3. n = BlockBytes(bytes, flags) /\ f = AllocBlock(s, bytes, flags) /\ "SLOT" \in flags
    OBVIOUS
  <2> HIDE DEF n, flags, bytes, f, none
  <2>4. Added(s, f, n, flags, id)
    <3>1. Added(s, AllocBlock(s, bytes, flags), n, flags, id)
      BY <1>1, <2>1, <2>2, <2>3, BlockAdded DEF none
    <3> QED BY <2>3, <3>1
  <2>5. \/ f.c = NULL /\ f.s = s
        \/ /\ Quiet(s, f.s) /\ f.c \in DOMAIN f.s.mem /\ f.s.mem[f.c].flags = flags
           /\ This(f.s, f.c) = n - BlockOverhead
    <3> DEFINE g == AllocBlock(s, bytes, flags)
    <3>1. \/ g.c = NULL /\ g.s = s
          \/ /\ Quiet(s, g.s) /\ g.c \in DOMAIN g.s.mem /\ g.s.mem[g.c].flags = flags
             /\ This(g.s, g.c) = n - BlockOverhead
      BY <1>1, <2>1, <2>3, AddQuiet
    <3>2. g = f
      BY <2>3
    <3> HIDE DEF g
    <3> QED BY <3>1, <3>2
  <2>6. CASE f.c = NULL /\ f.s = s
    <3>1. r = SlotError(s)
      BY <1>3, <2>6
    <3> HIDE DEF r
    <3>2. SlotTold(s, r, id)
      BY <1>1, <3>1, ErrorTold
    <3> QED BY <3>2 DEF r, x, f, bytes, flags
  <2>7. CASE f.c # NULL
    <3> DEFINE u == f.s
               c == f.c
    <3>1. /\ Quiet(s, u) /\ c \in DOMAIN u.mem /\ u.mem[c].flags = flags
          /\ Heads(u)
      BY <2>5, <2>7 DEF Quiet
    <3>2. Shape(u) /\ u.slot = s.slot /\ u.slot_bin = s.slot_bin
      BY <2>4, <2>7 DEF Added, SameLists, Heap
    <3>3. This(u, c) \in Int
      <4> HIDE DEF u, c
      <4> QED BY <3>1, <3>2, Headers
    <3>x. x = [u EXCEPT !.slot_bin[id] = <<c>>] /\ r = SlotTake(x, id)
      BY <1>3, <2>7
    <3> HIDE DEF u, c, x, r
    <3>4. /\ DOMAIN x = Fields /\ x.slot_bin = [u.slot_bin EXCEPT ![id] = <<c>>]
          /\ \A g \in {"mem", "bytes", "counter", "slot"} : x[g] = u[g]
      BY <3>1, <3>x DEF Fields, Heads
    <3>5. Quiet(u, x)
      BY <3>1, <3>4, FieldsQuiet
    <3>6. x.mem = u.mem /\ x.slot = s.slot /\ x.slot_bin[id] = <<c>>
      BY <1>1, <3>2, <3>4
    <3>7. /\ Heads(x) /\ SlotSizes(x) /\ c \in DOMAIN x.mem /\ c = Head(x.slot_bin[id])
          /\ Has(x, c, "SLOT") /\ This(x, c) \in Int
          /\ \A i \in SlotIds : x.slot[i].bytes \in Int
      BY <1>1, <2>3, <3>1, <3>3, <3>5, <3>6 DEF Quiet, SlotSizes, Has, This
    <3>8. SlotTold(x, SlotTake(x, id), id)
      BY <3>7, TakeNoted
    <3>9. Quiet(s, x)
      BY <3>1, <3>5, QuietOn
    <3>10. SlotTold(s, r, id)
      BY <3>8, <3>9, <3>x, SlotToldOn
    <3> QED BY <3>10 DEF r, x, u, c, f, bytes, flags
  <2> QED BY <2>4, <2>6, <2>7 DEF Added
<1> QED BY <1>2, <1>3

\* The sum over nothing.
LEMMA SumNone ==
    ASSUME NEW s, NEW S, S = {}
    PROVE  SumOf(s, S) = 0
<1> DEFINE f == [c \in S |-> This(s, c)]
<1>1. f \in [S -> Int] /\ IsFiniteSet(S) /\ \A c \in S : f[c] = 0
  BY FS_EmptySet
<1>2. SumOf(s, S) = SumFunctionOnSet(f, S)
  BY DEF SumOf
<1> HIDE DEF f
<1> QED BY <1>1, <1>2, SumZero

\* A slot that never served a request has no bytes in use.
LEMMA SlotUnused ==
    ASSUME NEW s, NEW own, Heap(s, {}, {}, own), NEW held, LentSound(s, held), Books(s, held),
           NEW id \in SlotIds, s.slot[id].user = 0
    PROVE  s.slot[id].bytes = 0
<1>1. OfSlotBin(s, held, id) = {}
  <2> SUFFICES ASSUME NEW c \in OfSlotBin(s, held, id) PROVE FALSE
    OBVIOUS
  <2>1. c \in DOMAIN held /\ held[c].slot /\ s.mem[c].bin = id
    BY DEF OfSlotBin
  <2>2. c \in Inner(s) /\ InUse(s, c)
    BY <2>1 DEF LentSound, UsedBy
  <2>3. Has(s, c, "SLOT")
    BY <2>1 DEF Books, Described
  <2>4. OfSlot(s, c, own[c[1]])
    BY <2>2, <2>3 DEF Heap, Room
  <2>5. s.mem[c].bin = own[c[1]] /\ s.slot[own[c[1]]].user > 0
    BY <2>2, <2>4 DEF OfSlot
  <2> QED BY <2>1, <2>5
<1>2. SumOf(s, OfSlotBin(s, held, id)) = 0
  BY <1>1, SumNone
<1> QED BY <1>2 DEF Books, Balanced

\* The first request of a slot sets its sizes.
LEMMA SetQuiet ==
    ASSUME NEW s, Heads(s), SlotSizes(s), NEW id \in SlotIds, s.slot[id].bytes = 0,
           NEW bytes, NEW block
    PROVE  Quiet(s, SetSlot(s, id, bytes, block))
<1> DEFINE t == SetSlot(s, id, bytes, block)
           new == [user |-> AlignValue(bytes, FINE), block |-> AlignValue(block, FINE),
                   max |-> CeilPowerOf2(AlignValue(block, FINE) + BlockOverhead + CHUNK_PADDING_SIZE)
                             - BlockOverhead,
                   bytes |-> 0]
<1>1. DOMAIN s = Fields /\ DOMAIN s.slot = SlotIds
  BY DEF Heads, SlotSizes
<1>2. t = [s EXCEPT !.slot[id] = new] /\ new.bytes = 0
  BY DEF SetSlot
<1> HIDE DEF t, new
<1>3. /\ DOMAIN t = Fields /\ t.slot = [s.slot EXCEPT ![id] = new]
      /\ t.mem = s.mem /\ t.bytes = s.bytes /\ t.counter = s.counter
  BY <1>1, <1>2 DEF Fields
<1>4. \A i \in SlotIds : t.slot[i].bytes = s.slot[i].bytes
  BY <1>1, <1>2, <1>3
<1>5. Quiet(s, t)
  BY <1>3, <1>4 DEF Heads, Quiet, Figures, SameTags
<1> QED BY <1>5 DEF t

\* alloc_slot notes the chunk it hands out.
LEMMA SlotAllocTold ==
    ASSUME NEW s, NEW own \in [BlockIds -> Nat], Heap(s, {}, {}, own), NEW held,
           LentSound(s, held), Books(s, held), NEW id \in SlotIds,
           NEW bytes \in Nat, bytes <= MaxBytes, NEW block \in Nat, block <= MaxBytes
    PROVE  SlotTold(s, SlotAlloc(s, id, bytes, block), id)
<1> DEFINE fresh == bytes > s.slot[id].user
           t == IF fresh THEN SetSlot(s, id, bytes, block) ELSE s
           f == AllocBlock(t, t.slot[id].block, {"BIG", "DIRECT", "SLOT"})
           g == IF t.slot_bin[id] # <<>> THEN SlotTake(t, id)
                ELSE IF f.c = NULL THEN SlotError(f.s)
                ELSE SlotTake([f.s EXCEPT !.slot_bin[id] = <<f.c>>], id)
           r == SlotAlloc(s, id, bytes, block)
           most == AlignValue(bytes, FINE) + CHUNK_PADDING_SIZE + BlockOverhead
<1>0. Heads(s) /\ SlotSizes(s) /\ \A i \in SlotIds : s.slot[i].bytes \in Int
  BY ShapeHeads DEF Heap, Books, Numbers
<1>1. CASE \/ bytes = 0
           \/ bytes # 0 /\ fresh /\ s.slot[id].user # 0
           \/ bytes # 0 /\ fresh /\ s.slot[id].user = 0 /\ most > block
  <2>1. r = SlotError(s)
    BY <1>1 DEF SlotAlloc
  <2> HIDE DEF r
  <2> QED BY <1>0, <2>1, ErrorTold DEF r
<1>2. CASE /\ bytes # 0 /\ ~(fresh /\ s.slot[id].user # 0)
           /\ ~(fresh /\ s.slot[id].user = 0 /\ most > block)
  <2>1. r = g
    BY <1>2 DEF SlotAlloc
  <2>2. s.slot[id].user \in Nat
    BY <1>0 DEF SlotSizes
  <2>3. Heap(t, {}, {}, own) /\ Quiet(s, t) /\ t.slot[id].user > 0
    <3>1. CASE fresh
      <4>1. s.slot[id].user = 0 /\ most <= block
        <5>1. most \in Int
          <6>1. FINE \in Nat /\ FINE > 0
            BY Grains
          <6>2. AlignValue(bytes, FINE) \in Nat
            BY <6>1, AlignUp
          <6> QED BY <6>1, <6>2, Grains
        <5> QED BY <1>2, <3>1, <5>1
      <4>2. bytes > 0
        BY <1>2
      <4> DEFINE v == SetSlot(s, id, bytes, block)
      <4>3. Heap(v, {}, {}, own) /\ v.slot[id].user >= bytes
        BY <4>1, <4>2, SlotSet
      <4>4. s.slot[id].bytes = 0
        BY <4>1, SlotUnused
      <4>5. Quiet(s, v)
        BY <1>0, <4>4, SetQuiet
      <4>6. v.slot[id].user \in Nat
        <5> HIDE DEF v
        <5> QED BY <4>3 DEF Heap, SlotSizes
      <4> HIDE DEF v
      <4>7. t = v
        BY <3>1 DEF v
      <4>8. v.slot[id].user > 0
        BY ONLY <4>2, <4>3, <4>6, bytes \in Nat
      <4> HIDE DEF t
      <4> QED BY <4>3, <4>5, <4>7, <4>8
    <3>2. CASE ~fresh
      <4>1. t = s
        BY <3>2
      <4>2. s.slot[id].user > 0
        BY <1>2, <2>2, <3>2
      <4>3. Quiet(s, s)
        <5>1. DOMAIN s = Fields /\ \A y \in {"mem", "bytes", "counter", "slot"} : s[y] = s[y]
          BY <1>0 DEF Heads
        <5> QED BY <1>0, <5>1, FieldsQuiet
      <4> HIDE DEF t
      <4> QED BY <4>1, <4>2, <4>3
    <3> QED BY <3>1, <3>2
  <2> HIDE DEF t, r
  <2>4. \A i \in SlotIds : t.slot[i].bytes \in Int
    BY <1>0, <2>3 DEF Quiet, Figures
  <2>5. SlotTold(t, g, id)
    BY <2>3, <2>4, GotTold
  <2> HIDE DEF g
  <2>6. SlotTold(s, g, id)
    BY <2>3, <2>5, SlotToldOn
  <2> QED BY <2>1, <2>6 DEF r
<1> QED BY <1>1, <1>2

\* The books say the same of states in which what is lent is the same.
LEMMA BooksKept ==
    ASSUME NEW s, NEW t, NEW held, Books(s, held), Figures(s, t),
           \A c \in DOMAIN held : SameTags(s, t, c) /\ This(t, c) = This(s, c)
    PROVE  Books(t, held)
<1>1. /\ t.bytes = s.bytes /\ t.counter = s.counter
      /\ \A i \in SlotIds : t.slot[i].bytes = s.slot[i].bytes
  BY DEF Figures
<1>2. \A c \in DOMAIN held : /\ Level(t, c) = Level(s, c) /\ Printed(t, c) = Printed(s, c)
                             /\ t.mem[c].bin = s.mem[c].bin /\ t.mem[c].color = s.mem[c].color
                             /\ This(t, c) = This(s, c)
  BY DEF SameTags, Level, Has, Printed
<1>3. /\ \A l : Of(t, held, l) = Of(s, held, l)
      /\ \A l : Of(s, held, l) \subseteq DOMAIN held
  BY <1>2 DEF Of
<1>4. \A x \in Colors \X Levels \X Shown : Counted(t, held, x) = Counted(s, held, x)
  <2>1. \A c \in DOMAIN held : t.mem[c].bin = s.mem[c].bin /\ t.mem[c].color = s.mem[c].color
    BY <1>2
  <2> TAKE x \in Colors \X Levels \X Shown
  <2>2. Of(t, held, x[2]) = Of(s, held, x[2]) /\ Of(s, held, x[2]) \subseteq DOMAIN held
    BY <1>3
  <2> QED BY <2>1, <2>2 DEF Counted
<1>5. \A i \in SlotIds : /\ OfSlotBin(t, held, i) = OfSlotBin(s, held, i)
                         /\ OfSlotBin(s, held, i) \subseteq DOMAIN held
  BY <1>2 DEF OfSlotBin
<1>6. ASSUME NEW S \in SUBSET DOMAIN held
      PROVE  SumOf(t, S) = SumOf(s, S) /\ PrintedSum(t, S) = PrintedSum(s, S)
  <2>1. [c \in S |-> This(t, c)] = [c \in S |-> This(s, c)]
        /\ [c \in S |-> Printed(t, c)] = [c \in S |-> Printed(s, c)]
    BY <1>2
  <2> QED BY <2>1 DEF SumOf, PrintedSum
<1>7. Balanced(t, held)
  <2>1. t.bytes = SumOf(t, DOMAIN held)
    BY <1>1, <1>6 DEF Books, Balanced
  <2>2. \A x \in Colors \X Levels \X Shown : t.counter[x] = Cardinality(Counted(t, held, x))
    BY <1>1, <1>4 DEF Books, Balanced
  <2>3. \A i \in SlotIds : t.slot[i].bytes = SumOf(t, OfSlotBin(t, held, i))
    BY <1>1, <1>5, <1>6 DEF Books, Balanced
  <2>4. LogSum(t.counter) = PrintedSum(t, Of(t, held, 0))
    <3>1. PrintedSum(t, Of(t, held, 0)) = PrintedSum(s, Of(s, held, 0))
      BY <1>3, <1>6
    <3> QED BY <1>1, <3>1 DEF Books, Balanced
  <2> QED BY <2>1, <2>2, <2>3, <2>4 DEF Balanced
<1>8. Numbers(t)
  BY <1>1 DEF Books, Numbers
<1>9. \A c \in DOMAIN held : Described(t, c, held[c])
  BY StillDescribed DEF Books
<1> QED BY <1>7, <1>8, <1>9 DEF Books

\* A step that touches no chunk in use keeps them.
LEMMA LeftBooks ==
    ASSUME NEW s, NEW t, NEW held, LentSound(s, held), Books(s, held), Left(s, t),
           UsedBy(t) = UsedBy(s), \A c \in UsedBy(s) : This(t, c) = This(s, c)
    PROVE  Books(t, held)
<1>1. DOMAIN held = UsedBy(s)
  BY DEF LentSound
<1>2. ASSUME NEW c \in DOMAIN held
      PROVE  SameTags(s, t, c) /\ This(t, c) = This(s, c)
  <2>1. c \in DOMAIN s.mem /\ InUse(s, c) /\ c \in DOMAIN t.mem
    BY <1>1 DEF UsedBy, Inner
  <2> QED BY <1>1, <2>1 DEF Left
<1>3. Figures(s, t)
  BY DEF Left
<1> QED BY <1>2, <1>3, BooksKept

\* A chunk of a slot that is lent.
LEMMA SlotBooked ==
    ASSUME NEW s, Sound(s), LentSound(s, live), Books(s, live), NEW r, NEW req \in Nat,
           Lends(s, r, req), r.c # NULL, Sound(r.s), NEW id \in SlotIds, SlotNoted(s, r, id)
    PROVE  Books(r.s, Lent(r, req, TRUE))
<1> DEFINE t == r.s
           n == r.c
           more == Lent(r, req, TRUE)
<1>1. /\ DOMAIN more = DOMAIN live \cup {n} /\ more[n] = [req |-> req, slot |-> TRUE]
      /\ \A c \in DOMAIN live : c # n => more[c] = live[c]
  BY DEF Lent, Put
<1>2. /\ DOMAIN live = UsedBy(s) /\ n \notin DOMAIN live
      /\ \A c \in DOMAIN live : This(t, c) = This(s, c)
  BY DEF LentSound, Lends
<1>3. LentSound(t, more)
  BY Loaned
<1> HIDE DEF t, n, more
<1>4. IsFiniteSet(DOMAIN more) /\ Numbers(s) /\ IsFiniteSet(DOMAIN live)
  BY <1>1, FS_AddElement DEF Books
<1>5. Finite(t, more)
  BY <1>3, <1>4, LentFinite DEF t
<1>6. /\ n \in DOMAIN t.mem /\ Has(t, n, "SLOT") /\ t.mem[n].bin = id
      /\ t.bytes = s.bytes + This(t, n) /\ t.counter = s.counter
      /\ \A i \in SlotIds : t.slot[i].bytes = s.slot[i].bytes + IF i = id THEN This(t, n) ELSE 0
      /\ \A d \in DOMAIN s.mem : d # n /\ InUse(s, d) => d \in DOMAIN t.mem /\ SameTags(s, t, d)
  BY DEF SlotNoted, t, n
<1>7. ASSUME NEW c \in DOMAIN live
      PROVE  c # n /\ SameTags(s, t, c) /\ This(t, c) = This(s, c) /\ more[c] = live[c]
  <2>1. c \in DOMAIN s.mem /\ InUse(s, c)
    BY <1>2 DEF UsedBy, Inner
  <2> QED BY <1>1, <1>2, <1>6, <2>1
<1>8. More(s, live, t, more, n)
  BY <1>1, <1>2, <1>7 DEF More
<1>9. more[n].slot = TRUE /\ more[n].slot \in BOOLEAN
  BY <1>1
<1>10. This(t, n) \in Int /\ s.bytes \in Int /\ \A i \in SlotIds : s.slot[i].bytes \in Int
  BY <1>1, <1>4, <1>5 DEF Finite, Numbers
<1>11. Booked(s, live, t, more, n)
  <2>1. \A i \in SlotIds : t.slot[i].bytes = s.slot[i].bytes
                             + IF t.mem[n].bin = i THEN This(t, n) ELSE 0
    BY <1>6
  <2> QED BY <1>5, <1>6, <1>8, <1>9, <1>10, <2>1 DEF Booked
<1>12. Balanced(t, more)
  BY <1>11, BothBalanced DEF Books
<1>13. Numbers(t)
  <2>1. t.bytes \in Int /\ \A i \in SlotIds : t.slot[i].bytes \in Int
    BY <1>6, <1>10
  <2> QED BY <1>4, <1>6, <2>1 DEF Numbers
<1>14. ASSUME NEW c \in DOMAIN more
       PROVE  Described(t, c, more[c])
  <2>1. CASE c = n
    BY <1>6, <1>9, <2>1 DEF Described
  <2>2. CASE c \in DOMAIN live
    <3>1. Described(s, c, live[c])
      BY <2>2 DEF Books
    <3> QED BY <1>7, <2>2, <3>1, StillDescribed
  <2> QED BY <1>1, <2>1, <2>2
<1>15. Books(t, more)
  BY <1>4, <1>12, <1>13, <1>14 DEF Books
<1> QED BY <1>15 DEF t, more

\* alloc_slot
LEMMA AllocSlotBooks ==
    ASSUME Acct, IInv', NEW id \in Slots, NEW q \in SlotRequests, AllocSlot(id, q[1], q[2])
    PROVE  Books(z', live')
<1> DEFINE s == Ready(z)
           r == IF id \in SlotIds THEN SlotAlloc(s, id, q[1], q[2]) ELSE SlotError(s)
<1>1. q[1] \in Nat /\ q[1] <= MaxBytes /\ q[2] \in Nat /\ q[2] <= MaxBytes
  <2>1. MaxBytes \in Nat
    BY Bounds DEF MaxBytes
  <2> QED BY <2>1, ZMallocAssumption
<1>2. Sound(s) /\ LentSound(s, live) /\ Books(s, live)
  BY ReadySound, ReadyBooks DEF Acct
<1>3. PICK own \in [BlockIds -> Nat] : Heap(s, {}, {}, own)
  BY <1>2 DEF Sound
<1>4. z' = r.s /\ live' = Lent(r, q[1], TRUE)
  BY DEF AllocSlot
<1> HIDE DEF s
<1>5. SlotServed(s, r, q[1])
  BY <1>1, <1>3, SlotServes, SlotRefused
<1>6. \/ r.c = NULL /\ Quiet(s, r.s)
      \/ id \in SlotIds /\ SlotNoted(s, r, id)
  <2>1. CASE id \in SlotIds
    <3>1. SlotTold(s, SlotAlloc(s, id, q[1], q[2]), id)
      BY <1>1, <1>2, <1>3, <2>1, SlotAllocTold
    <3> QED BY <2>1, <3>1 DEF SlotTold
  <2>2. CASE id \notin SlotIds
    <3> DEFINE e == SlotError(s)
    <3>1. Heads(s)
      BY <1>3, ShapeHeads DEF Heap
    <3>2. r = e
      BY <2>2
    <3> DEFINE t == e.s
    <3>3. /\ e.c = NULL /\ DOMAIN t = Fields
          /\ \A f \in {"mem", "bytes", "counter", "slot"} : t[f] = s[f]
      BY <3>1 DEF SlotError, Heads, Fields
    <3> HIDE DEF e, r
    <3>4. Quiet(s, t)
      <4> HIDE DEF t
      <4> QED BY <3>1, <3>3, FieldsQuiet
    <3> QED BY <3>2, <3>3, <3>4
  <2> QED BY <2>1, <2>2
<1> HIDE DEF r
<1>7. CASE r.c = NULL /\ Quiet(s, r.s)
  <2> DEFINE t == r.s
  <2>1. UsedBy(t) = UsedBy(s) /\ \A c \in UsedBy(s) : This(t, c) = This(s, c)
    BY <1>5, <1>7 DEF SlotServed, Lends
  <2>2. Left(s, t)
    BY <1>7, QuietLeft
  <2>3. z' = t /\ live' = live
    BY <1>4, <1>7 DEF Lent
  <2> HIDE DEF t
  <2>4. Books(t, live)
    BY <1>2, <2>1, <2>2, LeftBooks
  <2> QED BY <2>3, <2>4
<1>8. CASE id \in SlotIds /\ SlotNoted(s, r, id)
  <2>1. Lends(s, r, q[1]) /\ Sound(r.s)
    BY <1>5 DEF SlotServed, Sound
  <2>2. r.c # NULL
    <3>1. Shape(r.s)
      BY <2>1 DEF Sound, Heap
    <3> QED BY <1>8, <3>1, Headers DEF SlotNoted
  <2>3. Books(r.s, Lent(r, q[1], TRUE))
    BY <1>1, <1>2, <1>8, <2>1, <2>2, SlotBooked
  <2> QED BY <1>4, <2>3
<1> QED BY <1>6, <1>7, <1>8

-----------------------------------------------------------------------------
(* Freeing touches no chunk that stays in use. *)

\* merge_and_release, first half
LEMMA FrontQuiet ==
    ASSUME NEW s, NEW own, NEW c, NEW l \in Levels,
           Heap(s, {c}, {c, FrontOf(s, c)}, own), ~Has(s, c, "DIRECT"), Level(s, c) = l
    PROVE  Quiet(s, MergeFront(s, c, l).s)
<1> DEFINE f == MergeFront(s, c, l)
           p == FrontOf(s, c)
           one == {c}
           m == IF p = s.dv[l] THEN s ELSE PickChunk(s, p)
<1>1. Heads(s) /\ Quiet(s, s)
  <2>1. Heads(s)
    BY ShapeHeads DEF Heap
  <2> QED BY <2>1 DEF Quiet, Figures, SameTags
<1>2. c \in DOMAIN s.mem /\ ~InUse(s, c)
  <2>1. c \in one /\ Heap(s, one, {c, FrontOf(s, c)}, own)
    OBVIOUS
  <2> HIDE DEF one
  <2> QED BY <2>1, LooseMember
<1>3. CASE InUse(s, p)
  <2>1. f.s = s
    BY <1>3 DEF MergeFront
  <2> QED BY <1>1, <2>1
<1>4. CASE ~InUse(s, p)
  <2>1. f.s = Merge(m, p, c)
    BY <1>4 DEF MergeFront
  <2> HIDE DEF f, p
  <2>2. Quiet(s, m) /\ ~InUse(m, p) /\ ~InUse(m, c)
    <3>1. CASE p = s.dv[l]
      BY <1>1, <1>2, <1>4, <3>1
    <3>2. CASE p # s.dv[l]
      <4>1. m = PickChunk(s, p)
        BY <3>2
      <4> HIDE DEF m
      <4>2. /\ Quiet(s, m) /\ DOMAIN m.mem = DOMAIN s.mem
            /\ \A d \in DOMAIN s.mem : m.mem[d].flags = s.mem[d].flags
        BY <1>1, <1>4, <4>1, PickQuiet
      <4>3. p \in DOMAIN s.mem
        <5>1. Shape(s) /\ c \in Inner(s)
          <6>1. c \in one /\ Heap(s, one, {c, FrontOf(s, c)}, own)
            OBVIOUS
          <6> HIDE DEF one
          <6> QED BY <6>1, LooseMember DEF Heap
        <5> QED BY <5>1, SameKind DEF p
      <4> QED BY <1>2, <1>4, <4>2, <4>3 DEF InUse, Has
    <3> QED BY <3>1, <3>2
  <2> HIDE DEF m
  <2>3. Quiet(m, Merge(m, p, c))
    BY <2>2, MergeQuiet DEF Quiet
  <2>4. Quiet(s, f.s)
    BY <2>1, <2>2, <2>3, QuietOn
  <2> QED BY <2>4 DEF f
<1> QED BY <1>3, <1>4

\* and second half.
LEMMA NextQuiet ==
    ASSUME NEW s, NEW own, NEW c, NEW l \in Levels,
           Heap(s, Mine(s, c, l), {c}, own), Holds(s, c, l)
    PROVE  Quiet(s, MergeNext(s, c, l))
<1> DEFINE t == MergeNext(s, c, l)
           n == NextOf(s, c)
           held == [s EXCEPT !.dv[l] = c]
           m == IF n = s.dv[l] THEN held ELSE PickChunk(s, n)
<1>1. Heads(s) /\ Quiet(s, s)
  <2>1. Heads(s)
    BY ShapeHeads DEF Heap
  <2> QED BY <2>1 DEF Quiet, Figures, SameTags
<1>2. c \in DOMAIN s.mem /\ n \in DOMAIN s.mem /\ ~InUse(s, c)
  BY HeldChunk DEF Holds
<1>3. CASE InUse(s, n)
  <2>1. t = s
    BY <1>3 DEF MergeNext
  <2> QED BY <1>1, <2>1
<1>4. CASE ~InUse(s, n)
  <2>1. t = Merge(m, c, n)
    BY <1>4 DEF MergeNext
  <2> HIDE DEF t, n
  <2>2. Quiet(s, m) /\ ~InUse(m, n) /\ ~InUse(m, c)
    <3>1. CASE n = s.dv[l]
      <4>1. DOMAIN held = Fields /\ \A g \in {"mem", "bytes", "counter", "slot"} : held[g] = s[g]
        BY <1>1 DEF Heads, Fields
      <4>2. m = held
        BY <3>1
      <4> HIDE DEF held, m
      <4>3. Quiet(s, m)
        BY <1>1, <4>1, <4>2, FieldsQuiet
      <4>4. m.mem = s.mem
        BY <4>1, <4>2
      <4> QED BY <1>2, <1>4, <4>3, <4>4 DEF InUse, Has
    <3>2. CASE n # s.dv[l]
      <4>1. m = PickChunk(s, n)
        BY <3>2
      <4> HIDE DEF m
      <4>2. /\ Quiet(s, m) /\ DOMAIN m.mem = DOMAIN s.mem
            /\ \A d \in DOMAIN s.mem : m.mem[d].flags = s.mem[d].flags
        BY <1>1, <1>4, <4>1, PickQuiet
      <4> QED BY <1>2, <1>4, <4>2 DEF InUse, Has
    <3> QED BY <3>1, <3>2
  <2> HIDE DEF m
  <2>3. Quiet(m, Merge(m, c, n))
    BY <2>2, MergeQuiet DEF Quiet
  <2>4. Quiet(s, t)
    BY <2>1, <2>2, <2>3, QuietOn
  <2> QED BY <2>4 DEF t
<1> QED BY <1>3, <1>4

\* merge_and_release
LEMMA ReleaseLeft ==
    ASSUME NEW s, NEW own, NEW c, NEW l \in Levels,
           Heap(s, {c}, {c, FrontOf(s, c)}, own), ~Has(s, c, "DIRECT"), Level(s, c) = l
    PROVE  Left(s, MergeAndRelease(s, c, l))
<1> DEFINE f == MergeFront(s, c, l)
           v == f.s
           d == f.c
           m == MergeNext(v, d, l)
           t == MergeAndRelease(s, c, l)
<1>1. Heap(v, Mine(v, d, l), {d}, own) /\ Holds(v, d, l) /\ Quiet(s, v)
  BY FrontMerged, FrontQuiet
<1>2. \/ t = m \/ t = FreeBlock(m, d[1]) \/ \E bin : t = PushChunk(m, d, bin)
  BY DEF MergeAndRelease, PushBig, PushSmall
<1> HIDE DEF f, v, d, t
<1>3. Quiet(v, m) /\ ~InUse(m, d)
  BY <1>1, NextMerged, NextQuiet DEF Holds
<1> HIDE DEF m
<1>4. Quiet(s, m)
  BY <1>1, <1>3, QuietOn
<1>5. Heads(m)
  BY <1>3 DEF Quiet
<1>6. Left(m, m) /\ \A b : Left(m, FreeBlock(m, b))
  <2>1. Left(m, m)
    BY DEF Left, Figures, SameTags
  <2> QED BY <1>5, <2>1, FreeLeft
<1>7. \A bin : Left(m, PushChunk(m, d, bin))
  <2> TAKE bin
  <2>1. Quiet(m, PushChunk(m, d, bin))
    BY <1>3, <1>5, PushQuiet
  <2> QED BY <2>1, QuietLeft
<1>8. Left(m, t)
  BY <1>2, <1>6, <1>7
<1>9. Left(s, t)
  BY <1>4, <1>8, LeftOn
<1> QED BY <1>9 DEF t

\* free_slot: the free chunk of the slot leaves its list and is swallowed,
LEMMA SlotMergeQuiet ==
    ASSUME NEW s, Heads(s), NEW id, NEW p, NEW c, NEW d, ~InUse(s, c), ~InUse(s, d)
    PROVE  Quiet(s, Merge(SlotPick(s, id, p), c, d))
<1> DEFINE m == SlotPick(s, id, p)
<1>1. DOMAIN m = Fields /\ \A g \in {"mem", "bytes", "counter", "slot"} : m[g] = s[g]
  BY DEF SlotPick, Heads, Fields
<1> HIDE DEF m
<1>2. Quiet(s, m)
  BY <1>1, FieldsQuiet
<1>3. m.mem = s.mem
  BY <1>1
<1>4. ~InUse(m, c) /\ ~InUse(m, d)
  BY <1>3 DEF InUse, Has
<1>5. Quiet(m, Merge(m, c, d))
  BY <1>2, <1>4, MergeQuiet DEF Quiet
<1>6. Quiet(s, Merge(m, c, d))
  BY <1>2, <1>5, QuietOn
<1> QED BY <1>6 DEF m

\* and what becomes of it goes to the list or with its block.
LEMMA SlotLeft ==
    ASSUME NEW s, NEW own, NEW c, NEW id \in SlotIds,
           Heap(s, {c}, {c, FrontOf(s, c)}, own), Has(s, c, "SLOT"), own[c[1]] = id
    PROVE  Left(s, SlotDone(SlotMerge(s, c, id), id))
<1> DEFINE p == FrontOf(s, c)
           v == IF InUse(s, p) THEN s ELSE Merge(SlotPick(s, id, p), p, c)
           d == IF InUse(s, p) THEN c ELSE p
           n == NextOf(v, d)
           w == IF InUse(v, n) THEN v ELSE Merge(SlotPick(v, id, n), d, n)
           m == SlotMerge(s, c, id)
           t == SlotDone(m, id)
           one == {c}
           two == {c, FrontOf(s, c)}
<1>1. m.s = w /\ m.c = d
  BY DEF SlotMerge
<1>2. Heap(v, {d}, {d}, own) /\ Has(v, d, "SLOT") /\ d[1] = c[1]
  BY SlotFrontMerged
<1>3. Heads(s) /\ ~InUse(s, c)
  <2>1. c \in one /\ Heap(s, one, two, own)
    OBVIOUS
  <2> HIDE DEF one, two
  <2> QED BY <2>1, LooseMember, ShapeHeads DEF Heap
<1>4. Quiet(s, v)
  <2>1. Quiet(s, s)
    BY <1>3 DEF Quiet, Figures, SameTags
  <2>2. CASE ~InUse(s, p)
    <3>1. Quiet(s, Merge(SlotPick(s, id, p), p, c))
      <4> HIDE DEF p
      <4> QED BY <1>3, <2>2, SlotMergeQuiet
    <3> QED BY <2>2, <3>1
  <2> QED BY <2>1, <2>2
<1> HIDE DEF v, d
<1>5. Heads(v) /\ ~InUse(v, d)
  <2> DEFINE mine == {d}
  <2>1. d \in mine /\ Heap(v, mine, mine, own)
    BY <1>2
  <2> HIDE DEF mine
  <2> QED BY <1>4, <2>1, LooseMember DEF Quiet
<1>6. Quiet(v, w)
  <2>1. Quiet(v, v)
    BY <1>5 DEF Quiet, Figures, SameTags
  <2>2. CASE ~InUse(v, n)
    <3>1. Quiet(v, Merge(SlotPick(v, id, n), d, n))
      <4> HIDE DEF n
      <4> QED BY <1>5, <2>2, SlotMergeQuiet
    <3> QED BY <2>2, <3>1
  <2> QED BY <2>1, <2>2
<1> HIDE DEF w, m
<1>7. Quiet(s, w) /\ Heads(w)
  BY <1>4, <1>6, QuietOn DEF Quiet
<1>8. Left(w, t)
  <2> DEFINE back == [w EXCEPT !.slot_bin[id] = <<d>> \o @]
  <2>1. t = FreeBlock(w, d[1]) \/ t = back
    BY <1>1 DEF SlotDone
  <2>2. DOMAIN back = Fields /\ \A g \in {"mem", "bytes", "counter", "slot"} : back[g] = w[g]
    BY <1>7 DEF Heads, Fields
  <2> HIDE DEF back, t
  <2>3. Left(w, back)
    BY <1>7, <2>2, FieldsQuiet, QuietLeft
  <2>4. Left(w, FreeBlock(w, d[1]))
    BY <1>7, FreeLeft
  <2> QED BY <2>1, <2>3, <2>4
<1> HIDE DEF t
<1>9. Left(s, t)
  BY <1>7, <1>8, LeftOn
<1> QED BY <1>9 DEF t, m

\* clear_cache: dv_ is released.
LEMMA DropLeft ==
    ASSUME NEW s, NEW own, Heap(s, {}, {}, own), NEW l \in Levels
    PROVE  Left(s, DropDv(s, l))
<1> DEFINE c == s.dv[l]
           u == [s EXCEPT !.dv[l] = NULL]
           none == {}
           two == {c, FrontOf(u, c)}
<1>1. CASE c = NULL
  BY <1>1 DEF DropDv, Left, Figures, SameTags
<1>2. CASE c # NULL
  <2>1. DOMAIN s = Fields /\ s.dv \in [Levels -> Address \cup {NULL}] /\ Heads(s)
    BY ShapeHeads DEF Heap, Lists, Object, Shape, Memory
  <2>2. /\ SameMem(s, u) /\ u.bin = s.bin /\ u.bitmap = s.bitmap /\ u.slot_bin = s.slot_bin
        /\ u.dv = [s.dv EXCEPT ![l] = NULL] /\ DOMAIN u = Fields
        /\ \A g \in {"mem", "bytes", "counter", "slot"} : u[g] = s[g]
    BY <2>1 DEF SameMem, SameSlots, Fields
  <2>3. Heap(s, none, none, own) /\ none \cup {c} = {c} /\ \A x \in none : x \in two
    OBVIOUS
  <2>4. c \in Inner(s) /\ Level(s, c) = l /\ ~Has(s, c, "DIRECT")
    BY <1>2, DvMember
  <2>5. DropDv(s, l) = MergeAndRelease(u, c, l)
    BY <1>2 DEF DropDv
  <2> HIDE DEF u, c, none, two
  <2>6. Heap(u, none \cup {c}, none, own)
    BY <1>2, <2>2, <2>3, DvDropped DEF c
  <2>7. Heap(u, {c}, two, own)
    BY <2>3, <2>6, OpenLess
  <2>8. Level(u, c) = l /\ ~Has(u, c, "DIRECT")
    BY <2>2, <2>4 DEF SameMem, Level, Has
  <2>9. Left(u, MergeAndRelease(u, c, l))
    BY <2>7, <2>8, ReleaseLeft DEF two
  <2>10. Quiet(s, u)
    BY <2>1, <2>2, FieldsQuiet
  <2> QED BY <2>5, <2>9, <2>10, LeftOn
<1> QED BY <1>1, <1>2

-----------------------------------------------------------------------------
(* What is freed is booked out: the same books, read backwards. *)

LEMMA FreedBooks ==
    ASSUME Sound(z), LentSound(z, live), Books(z, live), NEW c \in UsedBy(z), NEW t,
           Sound(t), UsedBy(t) = UsedBy(z) \ {c},
           \A d \in UsedBy(t) : This(t, d) = This(z, d) /\ SameTags(z, t, d),
           Numbers(t), z.bytes = t.bytes + This(z, c),
           ~live[c].slot =>
             /\ Bumped(t.counter, z.counter, <<z.mem[c].color, Level(z, c), z.mem[c].bin>>)
             /\ \A i \in SlotIds : z.slot[i].bytes = t.slot[i].bytes,
           live[c].slot =>
             /\ z.counter = t.counter /\ z.mem[c].bin \in SlotIds
             /\ \A i \in SlotIds : z.slot[i].bytes = t.slot[i].bytes
                                     + IF z.mem[c].bin = i THEN This(z, c) ELSE 0
    PROVE  Books(t, Returned(c))
<1> DEFINE held == Returned(c)
<1>1. DOMAIN live = UsedBy(z) /\ IsFiniteSet(DOMAIN live)
  BY DEF LentSound, Books
<1>2. /\ DOMAIN held = UsedBy(t) /\ c \notin DOMAIN held /\ DOMAIN live = DOMAIN held \cup {c}
      /\ \A d \in DOMAIN held : held[d] = live[d]
  BY <1>1 DEF Returned, Without
<1> HIDE DEF held
<1>3. IsFiniteSet(DOMAIN held)
  BY <1>1, <1>2, FS_Subset
<1>4. Finite(z, live)
  BY <1>1, LentFinite
<1>5. More(t, held, z, live, c)
  BY <1>2 DEF More, SameTags
<1>6. live[c].slot \in BOOLEAN
  BY <1>1 DEF Books, Described
<1>7. \A i \in SlotIds : t.slot[i].bytes \in Int
  BY DEF Numbers
<1>8. Booked(t, held, z, live, c)
  BY <1>4, <1>5, <1>6, <1>7 DEF Booked, Numbers
<1>9. Balanced(t, held)
  BY <1>8, BothBalanced DEF Books
<1>10. ASSUME NEW d \in DOMAIN held
       PROVE  Described(t, d, held[d])
  <2>1. Described(z, d, live[d])
    BY <1>2 DEF Books
  <2> QED BY <1>2, <2>1, StillDescribed
<1> QED BY <1>3, <1>9, <1>10 DEF Books, held

\* The counter of a chunk goes down by one; the bytes of the largest direct
\* chunks are kept in a bin that is never printed.
LEMMA Uncounted ==
    ASSUME NEW s, NEW c, s.counter \in [Counters -> Int], s.mem[c].color \in Colors,
           s.mem[c].bin \in Bins, s.mem[c].this \in Int
    PROVE  Bumped(Uncount(s, c), s.counter, <<s.mem[c].color, Level(s, c), s.mem[c].bin>>)
<1> DEFINE h == s.mem[c]
           x == <<h.color, Level(s, c), h.bin>>
           log == <<h.color, 1, BIG_LOG_BYTES_BIN_ID>>
           once == [s.counter EXCEPT ![x] = @ - 1]
           both == [once EXCEPT ![log] = @ - h.this]
           k == Uncount(s, c)
<1>1. BIG_MAX_BIN_ID \in Int /\ BIG_LOG_BYTES_BIN_ID = BIG_MAX_BIN_ID + 1
      /\ BIG_LOG_BYTES_BIN_ID \in Bins
  BY Bounds, Grains DEF BIG_MAX_BIN_ID, BIG_LOG_BYTES_BIN_ID, Bins
<1>2. x \in Counters /\ log \in Counters /\ log[3] \notin Shown
      /\ (h.bin = BIG_MAX_BIN_ID => log # x)
  BY <1>1 DEF Counters, Levels, Level, Shown
<1>3. \/ k = once
      \/ h.bin = BIG_MAX_BIN_ID /\ k = both
  BY DEF Uncount
<1> HIDE DEF x, log, k
<1>4. once \in [Counters -> Int] /\ s.counter[x] = once[x] + 1
      /\ \A y \in Counters : y # x => s.counter[y] = once[y]
  BY <1>2
<1> HIDE DEF once
<1>5. both \in [Counters -> Int] /\ \A y \in Counters : y # log => both[y] = once[y]
  BY <1>2, <1>4
<1> HIDE DEF both, h
<1>6. Bumped(k, s.counter, x)
  <2>1. CASE k = once
    BY <1>2, <1>4, <2>1 DEF Bumped
  <2>2. CASE h.bin = BIG_MAX_BIN_ID /\ k = both
    BY <1>2, <1>4, <1>5, <2>2 DEF Bumped
  <2> QED BY <1>3, <2>1, <2>2
<1> QED BY <1>6 DEF x, k, h

\* A chunk in use that was marked free: what else is in use says what it said.
LEMMA OutTags ==
    ASSUME NEW s, NEW c, NEW u, OnlyOut(s, c, u), DOMAIN s = Fields, NEW t, Left(u, t),
           UsedBy(u) = UsedBy(s) \ {c}, UsedBy(t) = UsedBy(s) \ {c}
    PROVE  \A d \in UsedBy(t) : SameTags(s, t, d)
<1>1. DOMAIN u.mem = DOMAIN s.mem /\ \A x \in DOMAIN s.mem : x # c => u.mem[x] = s.mem[x]
  BY DEF OnlyOut, Unused, Fields
<1> TAKE d \in UsedBy(t)
<1>2. d # c /\ d \in DOMAIN u.mem /\ InUse(u, d) /\ d \in DOMAIN t.mem
  BY DEF UsedBy, Inner
<1>3. SameTags(u, t, d)
  BY <1>2 DEF Left
<1> QED BY <1>1, <1>2, <1>3 DEF SameTags

\* free_memory takes the chunk out of the books.
LEMMA FreeMemoryBooks ==
    ASSUME Acct, NEW c \in Chunks(z), FreeMemory(c), ~FreeTwice(c)
    PROVE  Books(z', live')
<1> DEFINE bytes == Unused(z, c).bytes - This(z, c)
           counter == Uncount(z, c)
           u == MemoryBack(z, c, bytes, counter)
           t == IF Has(z, c, "DIRECT") THEN FreeBlock(u, c[1])
                ELSE MergeAndRelease(u, c, Level(u, c))
<1>0. Sound(z) /\ LentSound(z, live) /\ Books(z, live)
  BY DEF Acct, IInv
<1>1. PICK own \in [BlockIds -> Nat] : Heap(z, {}, {}, own)
  BY <1>0 DEF Sound
<1>2. InUse(z, c) /\ ~Has(z, c, "SLOT") /\ live' = Returned(c)
  BY DEF FreeMemory, CanFree
<1>3. c \in UsedBy(z) /\ c \in DOMAIN z.mem /\ DOMAIN z = Fields
  BY <1>1, <1>2, ChunksAre DEF Heap, UsedBy, Inner, Shape, Memory
<1>4. z' = t
  <2>1. u = [Unused(z, c) EXCEPT !.bytes = @ - This(z, c), !.counter = Uncount(z, c)]
    BY DEF MemoryBack
  <2> HIDE DEF u
  <2> QED BY <2>1 DEF FreeMemory
<1>5. bytes = z.bytes - This(z, c)
  BY <1>3 DEF Unused, Fields
<1> HIDE DEF bytes, counter
<1>6. /\ Heap(t, {}, {}, own) /\ UsedBy(t) = UsedBy(z) \ {c}
      /\ \A d \in UsedBy(t) : This(t, d) = This(z, d)
  BY <1>1, <1>2, <1>3, MemoryFreed
<1>t. t = IF Has(z, c, "DIRECT") THEN FreeBlock(u, c[1]) ELSE MergeAndRelease(u, c, Level(u, c))
  OBVIOUS
<1> HIDE DEF t
<1>7. /\ DOMAIN u = Fields /\ u.mem = Unused(z, c).mem /\ SameSlots(z, u)
      /\ \A f \in Fields \ {"mem", "bytes", "counter", "slot"} : u[f] = z[f]
      /\ u.bytes = bytes /\ u.counter = counter /\ u.slot = z.slot
  BY <1>3 DEF MemoryBack, Unused, Fields, SameSlots
<1> HIDE DEF u
<1>o. OnlyOut(z, c, u)
  BY <1>7 DEF OnlyOut
<1>8. WithOut(z, c, u, own)
  <2>1. Settled(z, own)
    BY <1>1 DEF Settled
  <2> QED BY ONLY <1>o, <2>1, <1>3, TakenOut
<1>9. Left(u, t)
  <2>1. CASE Has(z, c, "DIRECT")
    <3>1. Heads(u)
      BY <1>8, ShapeHeads DEF WithOut, Heap
    <3> QED BY <1>t, <2>1, <3>1, FreeLeft
  <2>2. CASE ~Has(z, c, "DIRECT")
    <3>1. ~Has(u, c, "DIRECT") /\ Level(u, c) \in Levels
          /\ Heap(u, {c}, {c, FrontOf(u, c)}, own)
      BY <1>8, <2>2 DEF WithOut, Level, Levels
    <3>2. Left(u, MergeAndRelease(u, c, Level(u, c)))
      BY <3>1, ReleaseLeft
    <3> QED BY <1>t, <2>2, <3>2
  <2> QED BY <2>1, <2>2
<1>10. UsedBy(u) = UsedBy(z) \ {c}
  BY <1>8 DEF WithOut
<1>11. \A d \in UsedBy(t) : SameTags(z, t, d)
  BY <1>3, <1>6, <1>9, <1>10, <1>o, OutTags
<1>12. /\ t.bytes = bytes /\ t.counter = counter
       /\ \A i \in SlotIds : t.slot[i].bytes = z.slot[i].bytes
  BY <1>7, <1>9 DEF Left, Figures
<1>13. c \in DOMAIN live /\ Described(z, c, live[c])
  BY <1>0, <1>3 DEF LentSound, Books
<1>14. ~live[c].slot /\ z.mem[c].color \in Colors /\ z.mem[c].bin \in Bins
  BY <1>2, <1>13 DEF Described
<1>15. This(z, c) \in Int /\ z.bytes \in Int /\ z.counter \in [Counters -> Int]
       /\ \A i \in SlotIds : z.slot[i].bytes \in Int
  BY <1>0, <1>1, <1>3, Headers DEF Heap, Books, Numbers
<1>16. Bumped(counter, z.counter, <<z.mem[c].color, Level(z, c), z.mem[c].bin>>)
  <2>1. z.mem[c].this \in Int
    BY <1>15 DEF This
  <2> QED BY <1>14, <1>15, <2>1, Uncounted DEF counter
<1>17. Numbers(t) /\ z.bytes = t.bytes + This(z, c)
  <2>1. counter \in [Counters -> Int]
    BY <1>16 DEF Bumped
  <2> QED BY <1>5, <1>12, <1>15, <2>1 DEF Numbers
<1>18. Sound(t)
  BY <1>6 DEF Sound
<1>19. Books(t, Returned(c))
  BY <1>0, <1>3, <1>6, <1>11, <1>12, <1>14, <1>16, <1>17, <1>18, FreedBooks
<1> QED BY <1>2, <1>4, <1>19

\* free_slot, too.
LEMMA FreeSlotBooks ==
    ASSUME Acct, NEW c \in Chunks(z), FreeSlot(c), ~FreeTwice(c)
    PROVE  Books(z', live')
<1> DEFINE id == z.mem[c].bin
           bytes == Unused(z, c).bytes - This(z, c)
           part == Unused(z, c).slot[id].bytes - This(z, c)
           u == SlotBack(z, c, id, bytes, part)
           t == FreedSlot(z, c, bytes, part)
<1>0. Sound(z) /\ LentSound(z, live) /\ Books(z, live)
  BY DEF Acct, IInv
<1>1. PICK own \in [BlockIds -> Nat] : Heap(z, {}, {}, own)
  BY <1>0 DEF Sound
<1>2. InUse(z, c) /\ Has(z, c, "SLOT") /\ live' = Returned(c)
  BY DEF FreeSlot
<1>3. c \in UsedBy(z) /\ c \in DOMAIN z.mem /\ DOMAIN z = Fields /\ SlotSizes(z)
      /\ Room(z, own) /\ c \in Inner(z)
  BY <1>1, <1>2, ChunksAre DEF Heap, UsedBy, Inner, Shape, Memory
<1>4. z' = t
  BY DEF FreeSlot, SlotBack, SlotDone, FreedSlot
<1>5. bytes = z.bytes - This(z, c) /\ part = z.slot[id].bytes - This(z, c)
  BY <1>3 DEF Unused, Fields
<1> HIDE DEF bytes, part
<1>6. /\ Heap(t, {}, {}, own) /\ UsedBy(t) = UsedBy(z) \ {c}
      /\ \A d \in UsedBy(t) : This(t, d) = This(z, d)
  BY ONLY <1>1, <1>2, <1>3, SlotFreed
<1>t. t = SlotDone(SlotMerge(u, c, id), id)
  BY DEF FreedSlot
<1> HIDE DEF t
<1>7. own[c[1]] = id /\ id \in SlotIds
  BY <1>2, <1>3, SlotBin DEF Room, OfSlot
<1> HIDE DEF id
<1>8. /\ DOMAIN u = Fields /\ u.mem = Unused(z, c).mem
      /\ \A f \in Fields \ {"mem", "bytes", "counter", "slot"} : u[f] = z[f]
      /\ u.bytes = bytes /\ u.counter = z.counter /\ u.slot = [z.slot EXCEPT ![id].bytes = part]
  BY <1>3 DEF SlotBack, Unused, Fields
<1> HIDE DEF u
<1>9. SameSlots(z, u) /\ \A i \in SlotIds : u.slot[i].bytes = IF i = id THEN part ELSE z.slot[i].bytes
  BY <1>3, <1>7, <1>8 DEF SameSlots, SlotSizes
<1>o. OnlyOut(z, c, u)
  BY <1>8, <1>9 DEF OnlyOut
<1>10. WithOut(z, c, u, own)
  <2>1. Settled(z, own)
    BY <1>1 DEF Settled
  <2> QED BY ONLY <1>o, <2>1, <1>3, TakenOut
<1>11. Heap(u, {c}, {c, FrontOf(u, c)}, own) /\ Has(u, c, "SLOT") /\ UsedBy(u) = UsedBy(z) \ {c}
  BY <1>2, <1>10 DEF WithOut
<1>12. Left(u, t)
  BY <1>7, <1>11, <1>t, SlotLeft
<1>13. \A d \in UsedBy(t) : SameTags(z, t, d)
  BY <1>3, <1>6, <1>11, <1>12, <1>o, OutTags
<1>14. /\ t.bytes = bytes /\ t.counter = z.counter
       /\ \A i \in SlotIds : t.slot[i].bytes = IF i = id THEN part ELSE z.slot[i].bytes
  BY <1>8, <1>9, <1>12 DEF Left, Figures
<1>15. c \in DOMAIN live /\ Described(z, c, live[c])
  BY <1>0, <1>3 DEF LentSound, Books
<1>16. live[c].slot
  BY <1>2, <1>15 DEF Described
<1>17. This(z, c) \in Int /\ z.bytes \in Int /\ z.counter \in [Counters -> Int]
       /\ \A i \in SlotIds : z.slot[i].bytes \in Int
  BY <1>0, <1>1, <1>3, Headers DEF Heap, Books, Numbers
<1>18. Numbers(t) /\ z.bytes = t.bytes + This(z, c)
  <2>1. part \in Int
    BY <1>5, <1>7, <1>17
  <2> QED BY <1>5, <1>14, <1>17, <2>1 DEF Numbers
<1>19. /\ z.counter = t.counter /\ z.mem[c].bin \in SlotIds
       /\ \A i \in SlotIds : z.slot[i].bytes = t.slot[i].bytes
                               + IF z.mem[c].bin = i THEN This(z, c) ELSE 0
  <2>1. id = z.mem[c].bin
    BY DEF id
  <2>2. ASSUME NEW i \in SlotIds
        PROVE  z.slot[i].bytes = t.slot[i].bytes + IF id = i THEN This(z, c) ELSE 0
    <3>1. CASE i = id
      BY <1>5, <1>7, <1>14, <1>17, <3>1
    <3>2. CASE i # id
      BY <1>14, <1>17, <3>2
    <3> QED BY <3>1, <3>2
  <2> QED BY <1>7, <1>14, <2>1, <2>2
<1>20. Sound(t)
  BY <1>6 DEF Sound
<1>21. Books(t, Returned(c))
  BY <1>0, <1>3, <1>6, <1>13, <1>16, <1>18, <1>19, <1>20, FreedBooks
<1> QED BY <1>2, <1>4, <1>21

-----------------------------------------------------------------------------
(* Every action keeps the books. *)

\* Counting an error touches no figure.
LEMMA ErrorsBooks ==
    ASSUME Acct, NEW n, z' = [z EXCEPT !.errors = n], live' = live
    PROVE  Books(z', live')
<1> DEFINE t == [z EXCEPT !.errors = n]
<1>1. Sound(z) /\ Books(z, live)
  BY DEF Acct, IInv
<1>2. DOMAIN z = Fields
  BY <1>1 DEF Sound, Heap, Shape, Memory
<1>3. t.bytes = z.bytes /\ t.counter = z.counter /\ t.slot = z.slot /\ t.mem = z.mem
  BY <1>2 DEF Fields
<1>t. z' = t
  OBVIOUS
<1> HIDE DEF t
<1>4. Figures(z, t) /\ \A c \in DOMAIN live : SameTags(z, t, c) /\ This(t, c) = This(z, c)
  BY <1>3 DEF Figures, SameTags, This
<1> QED BY <1>1, <1>4, <1>t, BooksKept

\* A chunk that is freed twice
LEMMA FreeTwiceBooks ==
    ASSUME Acct, NEW c, FreeTwice(c)
    PROVE  Books(z', live')
<1> DEFINE n == z.errors + 1
<1>1. z' = [z EXCEPT !.errors = n] /\ live' = live
  BY DEF FreeTwice
<1> HIDE DEF n
<1> QED BY <1>1, ErrorsBooks

\* clear_cache
LEMMA ClearCacheBooks ==
    ASSUME Acct, ClearCache
    PROVE  Books(z', live')
<1> DEFINE e == DropDv(z, 0)
           d == DropDv(e, 1)
           t == [d EXCEPT !.reserve = <<>>, !.size = Without(@, ToSet(d.reserve))]
<1>0. Sound(z) /\ LentSound(z, live) /\ Books(z, live)
  BY DEF Acct, IInv
<1>1. PICK own \in [BlockIds -> Nat] : Heap(z, {}, {}, own)
  BY <1>0 DEF Sound
<1>2. z' = t /\ live' = live
  BY DEF ClearCache
<1>3. Heap(e, {}, {}, own) /\ Kept(z, e) /\ Left(z, e)
  BY <1>1, DvReleased, DropLeft DEF Levels
<1> HIDE DEF e
<1>4. Books(e, live) /\ LentSound(e, live)
  BY <1>0, <1>3, LeftBooks, HeldOn DEF Kept
<1>5. Heap(d, {}, {}, own) /\ Kept(e, d) /\ Left(e, d)
  BY <1>3, DvReleased, DropLeft DEF Levels
<1> HIDE DEF d
<1>6. Books(d, live)
  BY <1>4, <1>5, LeftBooks DEF Kept
<1>7. DOMAIN d = Fields
  BY <1>5 DEF Heap, Shape, Memory
<1>8. t.bytes = d.bytes /\ t.counter = d.counter /\ t.slot = d.slot /\ t.mem = d.mem
  BY <1>7 DEF Fields
<1> HIDE DEF t
<1>9. Figures(d, t) /\ \A c \in DOMAIN live : SameTags(d, t, c) /\ This(t, c) = This(d, c)
  BY <1>8 DEF Figures, SameTags, This
<1>10. Books(t, live)
  BY <1>6, <1>9, BooksKept
<1> QED BY <1>2, <1>10

\* check_panic: nothing changes, or nothing is left.
LEMMA CheckPanicBooks ==
    ASSUME Acct, CheckPanic
    PROVE  Books(z', live')
<1>1. CASE UNCHANGED vars
  BY <1>1 DEF vars, Acct
<1>2. CASE z' = [InitObject EXCEPT !.panicked = TRUE, !.errors = z.errors] /\ live' = <<>>
  <2> DEFINE t == [InitObject EXCEPT !.panicked = TRUE, !.errors = z.errors]
             none == <<>>
  <2>1. \A f \in {"bytes", "counter", "slot"} : t[f] = InitObject[f]
    BY DEF InitObject
  <2>2. DOMAIN none = {} /\ z' = t /\ live' = none
    BY <1>2
  <2> HIDE DEF t, none
  <2>3. Books(t, none)
    BY <2>1, <2>2, EmptyBooks
  <2> QED BY <2>2, <2>3
<1> QED BY <1>1, <1>2 DEF CheckPanic

\* Every step keeps the books.
LEMMA NextBooks == Acct /\ [Next]_vars => Acct'
<1> SUFFICES ASSUME Acct, [Next]_vars PROVE Acct'
  OBVIOUS
<1>0. IInv'
  BY NextKeeps DEF Acct
<1>1. ASSUME NEW req \in Requests, NEW color \in Colors, AllocMemory(req, color)
      PROVE  Books(z', live')
  BY <1>0, <1>1, AllocMemoryBooks
<1>2. ASSUME NEW c \in Chunks(z), FreeMemory(c) PROVE Books(z', live')
  BY <1>2, FreeTwiceBooks, FreeMemoryBooks
<1>3. ASSUME NEW c \in Chunks(z), FreeSlot(c) PROVE Books(z', live')
  BY <1>3, FreeTwiceBooks, FreeSlotBooks
<1>4. ASSUME NEW id \in Slots, NEW r \in SlotRequests, AllocSlot(id, r[1], r[2])
      PROVE  Books(z', live')
  BY <1>0, <1>4, AllocSlotBooks
<1>5. ASSUME ClearCache PROVE Books(z', live')
  BY <1>5, ClearCacheBooks
<1>6. ASSUME CheckHealth PROVE Books(z', live')
  <2> DEFINE n == z.errors + BitmapErrors(z)
  <2>1. z' = [z EXCEPT !.errors = n] /\ live' = live
    BY <1>6 DEF CheckHealth
  <2> HIDE DEF n
  <2> QED BY <2>1, ErrorsBooks
<1>7. ASSUME CheckPanic PROVE Books(z', live')
  BY <1>7, CheckPanicBooks
<1>8. ASSUME UNCHANGED vars PROVE Books(z', live')
  BY <1>8 DEF vars, Acct
<1>9. Books(z', live')
  BY <1>1, <1>2, <1>3, <1>4, <1>5, <1>6, <1>7, <1>8 DEF Next
<1>10. (Books(z, live))'
  BY <1>9 DEF Books, Numbers, Balanced, Described, Has, Level, This, Of, Counted, OfSlotBin,
              LogSum, LogOf, PrintedSum, Printed, SumOf, BinSize
<1> QED BY <1>0, <1>10 DEF Acct

-----------------------------------------------------------------------------
(* The books say that the logs are true. *)

\* One direct block for every chunk of a direct request.
LEMMA DirectBlocks ==
    ASSUME Acct, ~Slotted
    PROVE  Cardinality({b \in ToSet(z.used) : KindOf(z, b) = "direct"})
             = Cardinality({c \in DOMAIN live : live[c].req >= BIG_MAX_REQUEST})
<1> DEFINE blocks == {b \in ToSet(z.used) : KindOf(z, b) = "direct"}
           lent == {c \in DOMAIN live : live[c].req >= BIG_MAX_REQUEST}
           f == [c \in lent |-> c[1]]
<1>0. Sound(z) /\ LentSound(z, live) /\ Books(z, live)
  BY DEF Acct, IInv
<1>1. PICK own \in [BlockIds -> Nat] : Heap(z, {}, {}, own)
  BY <1>0 DEF Sound
<1>2. Shape(z) /\ Room(z, own) /\ DOMAIN live = UsedBy(z)
  BY <1>0, <1>1 DEF Heap, LentSound
<1>3. ASSUME NEW c \in Inner(z)
      PROVE  c \in DOMAIN z.mem /\ c[1] \in ToSet(z.used) /\ ~Has(z, c, "SLOT")
             /\ (Has(z, c, "DIRECT") => Fills(z, c))
  <2>1. c \in DOMAIN z.mem /\ c[1] \in ToSet(z.used)
    BY <1>2, Headers DEF Inner
  <2>2. FirstChunk(c[1]) \in Inner(z) /\ FirstChunk(c[1])[1] = c[1]
    BY <1>2, <2>1, First
  <2>3. ~Has(z, FirstChunk(c[1]), "SLOT")
    BY <2>1 DEF Slotted
  <2>4. ~Has(z, c, "SLOT")
    BY <1>2, <2>1, <2>2, <2>3, Kind DEF Inner
  <2> QED BY <1>2, <2>1, <2>4 DEF Room
<1>4. ASSUME NEW c \in DOMAIN live
      PROVE  c \in Inner(z) /\ InUse(z, c) /\ (c \in lent <=> Has(z, c, "DIRECT"))
  <2>1. c \in Inner(z) /\ InUse(z, c)
    BY <1>2 DEF UsedBy
  <2>2. Described(z, c, live[c])
    BY <1>0 DEF Books
  <2> QED BY <1>3, <2>1, <2>2 DEF Described
<1>5. \A c \in lent : c = FirstChunk(c[1]) /\ c[1] \in blocks
  <2> TAKE c \in lent
  <2>1. c \in Inner(z) /\ Has(z, c, "DIRECT")
    BY <1>4
  <2>2. Fills(z, c) /\ c[1] \in ToSet(z.used) /\ c \in DOMAIN z.mem
    BY <1>3, <2>1
  <2>3. BlockHead(c[1]) \in DOMAIN z.mem /\ BlockHead(c[1])[1] = c[1]
    BY <1>2, <2>2, Headers DEF Edges, BlockHead
  <2>4. Has(z, BlockHead(c[1]), "DIRECT")
    BY <1>2, <2>1, <2>2, <2>3, Kind
  <2> QED BY <2>2, <2>4 DEF Fills, KindOf
<1>6. \A b \in blocks : FirstChunk(b) \in lent /\ FirstChunk(b)[1] = b
  <2> TAKE b \in blocks
  <2> DEFINE c == FirstChunk(b)
  <2>1. Has(z, BlockHead(b), "DIRECT") /\ b \in ToSet(z.used)
    BY DEF KindOf
  <2>2. c \in Inner(z) /\ c[1] = b /\ c \in DOMAIN z.mem
    BY <1>2, <2>1, First DEF Inner
  <2>3. BlockHead(b) \in DOMAIN z.mem /\ BlockHead(b)[1] = b
    <3>1. BlockHead(c[1]) \in DOMAIN z.mem
      BY <1>2, <2>2, Headers DEF Edges
    <3> HIDE DEF c
    <3> QED BY <2>2, <3>1 DEF BlockHead
  <2> HIDE DEF c
  <2>4. Has(z, c, "DIRECT")
    BY <1>2, <2>1, <2>2, <2>3, Kind
  <2>5. Fills(z, c)
    BY <1>3, <2>2, <2>4
  <2>6. InUse(z, c)
    <3> SUFFICES ASSUME ~InUse(z, c) PROVE FALSE
      OBVIOUS
    <3>1. c # NULL
      BY <1>2, <2>2, Headers
    <3>2. CASE \E l \in Levels : c = z.dv[l]
      BY <1>1, <2>4, <3>1, <3>2, DvMember
    <3>3. CASE \E l \in Levels, k \in Bins : c \in ToSet(z.bin[l][k])
      BY <1>1, <2>4, <3>3, BinMember
    <3>4. CASE \E i \in SlotIds : c \in ToSet(z.slot_bin[i])
      BY <1>1, <1>3, <2>2, <3>4, SlotMember
    <3> QED BY <1>1, <2>2, <3>2, <3>3, <3>4 DEF Heap, Lists, Found
  <2>7. c \in DOMAIN live
    BY <1>2, <2>2, <2>6 DEF UsedBy
  <2> QED BY <1>4, <2>2, <2>4, <2>7 DEF c
<1>7. IsFiniteSet(lent)
  <2>1. lent \in SUBSET DOMAIN live
    OBVIOUS
  <2> HIDE DEF lent
  <2> QED BY <1>0, <2>1, FS_Subset DEF Books
<1> HIDE DEF blocks, lent
<1>8. f \in Bijection(lent, blocks)
  <2>1. f \in [lent -> blocks]
    BY <1>5
  <2>2. \A a, b \in lent : f[a] = f[b] => a = b
    <3> TAKE a, b \in lent
    <3> QED BY <1>5
  <2>3. \A b \in blocks : \E a \in lent : f[a] = b
    <3> TAKE b \in blocks
    <3> QED BY <1>6
  <2> HIDE DEF f
  <2> QED BY <2>1, <2>2, <2>3 DEF Bijection, Injection, Surjection, IsInjective
<1>9. ExistsBijection(lent, blocks)
  BY <1>8 DEF ExistsBijection
<1>10. Cardinality(blocks) = Cardinality(lent)
  BY <1>7, <1>9, FS_Bijection
<1> QED BY <1>10 DEF blocks, lent

\* Accounted
LEMMA AccountHolds ==
    ASSUME Acct
    PROVE  Accounted
<1> DEFINE log == DebugStateLog(z)
           of(l) == {c \in DOMAIN live : ~live[c].slot /\ Level(z, c) = l}
<1>0. Sound(z) /\ LentSound(z, live) /\ Books(z, live) /\ Balanced(z, live)
  BY DEF Acct, IInv, Books
<1>1. \A l : of(l) = Of(z, live, l)
  BY DEF Of
<1>2. log.bytes = SumOf(z, DOMAIN live)
  BY <1>0 DEF DebugStateLog, Balanced
<1>3. ASSUME ~Slotted
      PROVE  log.hold["direct"] = Cardinality({c \in DOMAIN live : live[c].req >= BIG_MAX_REQUEST})
  BY <1>3, DirectBlocks DEF DebugStateLog
<1>4. \A x \in Colors \X Levels \X (0 .. BIG_MAX_BIN_ID) :
        z.counter[x] = Cardinality({c \in of(x[2]) : z.mem[c].color = x[1] /\ z.mem[c].bin = x[3]})
  <2> TAKE x \in Colors \X Levels \X (0 .. BIG_MAX_BIN_ID)
  <2>1. z.counter[x] = Cardinality(Counted(z, live, x))
    BY <1>0 DEF Balanced, Shown
  <2>2. {c \in of(x[2]) : z.mem[c].color = x[1] /\ z.mem[c].bin = x[3]} = Counted(z, live, x)
    BY <1>1 DEF Counted
  <2> QED BY <2>1, <2>2
<1>5. \A i \in SlotIds :
        z.slot[i].bytes = SumOf(z, {c \in DOMAIN live : live[c].slot /\ z.mem[c].bin = i})
  BY <1>0 DEF Balanced, OfSlotBin
<1>6. SumFunctionOnSet([k \in Colors |-> DebugColorLog(z, k, 0)], Colors) <= SumOf(z, of(0))
  <2> DEFINE S == Of(z, live, 0)
             g == [c \in S |-> Printed(z, c)]
             h == [c \in S |-> This(z, c)]
  <2>1. [k \in Colors |-> DebugColorLog(z, k, 0)] = [k \in Colors |-> LogOf(z.counter, k)]
    BY DEF DebugColorLog, LogOf, Shown
  <2>2. SumFunctionOnSet([k \in Colors |-> DebugColorLog(z, k, 0)], Colors) = PrintedSum(z, S)
    BY <1>0, <2>1 DEF Balanced, LogSum
  <2>3. S \in SUBSET DOMAIN live /\ IsFiniteSet(DOMAIN live)
    BY <1>0 DEF Of, Books
  <2>4. IsFiniteSet(S)
    BY <2>3, FS_Subset
  <2>5. ASSUME NEW c \in S
        PROVE  Printed(z, c) \in Int /\ This(z, c) \in Int /\ Printed(z, c) <= This(z, c)
    <3>1. c \in DOMAIN live /\ ~live[c].slot /\ Level(z, c) = 0
      BY DEF Of
    <3>2. Described(z, c, live[c])
      BY <1>0, <3>1 DEF Books
    <3>3. BinSize(0, z.mem[c].bin) <= This(z, c)
      BY <3>1, <3>2 DEF Described
    <3>4. Finite(z, live)
      BY <1>0, LentFinite DEF Books
    <3>5. This(z, c) \in Nat
      BY <3>1, <3>4 DEF Finite
    <3> QED BY <3>3, <3>5, ShownBins DEF Printed
  <2>6. g \in [S -> Int] /\ h \in [S -> Int] /\ \A c \in S : g[c] <= h[c]
    BY <2>5
  <2>7. PrintedSum(z, S) = SumFunctionOnSet(g, S) /\ SumOf(z, S) = SumFunctionOnSet(h, S)
    BY DEF PrintedSum, SumOf
  <2>8. S = of(0)
    BY <1>1
  <2> HIDE DEF S, g, h, of
  <2>9. SumFunctionOnSet(g, S) <= SumFunctionOnSet(h, S)
    BY <2>4, <2>6, SumLeq
  <2> QED BY <2>2, <2>7, <2>8, <2>9
<1> QED BY <1>2, <1>3, <1>4, <1>5, <1>6 DEF Accounted

\* What debug_state_log and debug_color_log print is what is in use: the bytes and one
\* direct block per direct request, the counters by colour, level and bin, the bytes of
\* every slot; and what is printed for small chunks never exceeds their real size.
THEOREM AccountedAlways == Spec => []Accounted
<1>1. Init => Acct
  BY InitAcct
<1>2. Acct /\ [Next]_vars => Acct'
  BY NextBooks
<1>3. Acct => Accounted
  BY AccountHolds
<1> QED BY <1>1, <1>2, <1>3, PTL DEF Spec

-----------------------------------------------------------------------------
(* The checks of the code see what the invariant says. *)

\* A block has finitely many chunks.
LEMMA ChunksFinite ==
    ASSUME NEW s, Shape(s), NEW b \in ToSet(s.used)
    PROVE  IsFiniteSet(ChunksOf(s, b))
<1> DEFINE S == ChunksOf(s, b)
           n == s.size[b]
           T == 0 .. n
           f == [c \in S |-> c[2]]
<1>1. ASSUME NEW c \in S
      PROVE  c = <<b, c[2]>> /\ c[2] \in T
  <2>1. c \in DOMAIN s.mem /\ c[1] = b
    BY DEF ChunksOf
  <2>2. c = <<c[1], c[2]>> /\ c[2] \in Nat /\ s.size[c[1]] \in Nat
        /\ c[2] <= s.size[c[1]] - 2 * FINE
    BY <2>1, Headers
  <2> QED BY <2>1, <2>2, Grains
<1>2. n \in Int
  BY First, Headers DEF Shape, Blocks
<1>3. IsFiniteSet(T)
  <2> HIDE DEF n
  <2>1. 0 \in Int
    OBVIOUS
  <2> QED BY <1>2, <2>1, FS_Interval
<1>4. f \in [S -> T] /\ \A c, d \in S : f[c] = f[d] => c = d
  <2> HIDE DEF S, T
  <2> QED BY <1>1
<1>5. f \in Injection(S, T)
  <2> HIDE DEF S, T, f
  <2> QED BY <1>4 DEF Injection, IsInjective
<1> HIDE DEF S, T, f
<1>6. IsFiniteSet(S)
  BY <1>3, <1>5, FS_Injection
<1> QED BY <1>6 DEF S

\* The chunks of the block of c in front of c.
Before(s, c) == {d \in Inner(s) : d[1] = c[1] /\ d[2] < c[2]}

\* The chunk in front of a header and what lies before it.
LEMMA OneMore ==
    ASSUME NEW s, Shape(s), NEW c \in DOMAIN s.mem, ~IsHead(c)
    PROVE  LET p == FrontOf(s, c) IN
           /\ p \in DOMAIN s.mem /\ p[1] = c[1] /\ p[2] + This(s, p) = c[2]
           /\ p[2] < c[2]
           /\ IsHead(p) => c[2] = 4 * FINE /\ Before(s, c) = {}
           /\ ~IsHead(p) => /\ p \in Inner(s) /\ p \in Before(s, c)
                            /\ Before(s, c) \ {p} = Before(s, p)
<1> DEFINE p == FrontOf(s, c)
           n == s.size[c[1]]
<1>1. p \in DOMAIN s.mem /\ This(s, p) = s.mem[c].prev
  BY DEF Shape, Chain
<1>2. p = <<c[1], c[2] - This(s, p)>>
  BY <1>1 DEF FrontOf
<1>3. /\ c = <<c[1], c[2]>> /\ c[2] \in Nat /\ n \in Nat /\ n >= 8 * FINE
      /\ 2 * FINE <= c[2] /\ c[2] <= n - 2 * FINE /\ Edges(s, c[1])
      /\ BlockHead(c[1]) = <<c[1], 2 * FINE>>
      /\ TailChunk(s, c[1]) = <<c[1], n - 2 * FINE>>
  BY Headers
<1>4. p[1] = c[1] /\ p[2] = c[2] - This(s, p)
  BY <1>2
<1>5. p = <<p[1], p[2]>> /\ p[2] \in Nat /\ This(s, p) \in Nat /\ 2 * FINE <= p[2]
  BY <1>1, Headers
<1> HIDE DEF p, n
<1>6. ~IsTail(s, p) /\ This(s, p) >= 2 * FINE /\ Between(s, p)
  <2>1. ~IsTail(s, p)
    <3> SUFFICES ASSUME IsTail(s, p) PROVE FALSE
      OBVIOUS
    <3>1. p[2] = n - 2 * FINE
      BY <1>4, Grains DEF IsTail, n
    <3>2. p = TailChunk(s, c[1])
      BY <1>3, <1>4, <1>5, <3>1
    <3>3. This(s, p) = 2 * FINE
      BY <1>3, <3>2, Grains DEF Edges
    <3> QED BY <1>3, <1>4, <1>5, <3>1, <3>3, Grains
  <2> QED BY <1>1, <2>1, Grains DEF Shape, Chain
<1>7. p[2] + This(s, p) = c[2] /\ p[2] < c[2]
  BY <1>3, <1>4, <1>5, <1>6, Grains
<1>8. ASSUME IsHead(p) PROVE c[2] = 4 * FINE /\ Before(s, c) = {}
  <2>1. p[2] = 2 * FINE
    BY <1>8, Grains DEF IsHead
  <2>2. p = BlockHead(c[1])
    BY <1>3, <1>4, <1>5, <2>1
  <2>3. This(s, p) = 2 * FINE
    BY <1>3, <2>2, Grains DEF Edges
  <2>4. c[2] = 4 * FINE
    BY <1>7, <2>1, <2>3, Grains
  <2>5. \A d \in Inner(s) : 4 * FINE <= d[2] /\ d[2] \in Nat
    BY InnerChunk, Headers DEF Inner
  <2>6. \A d \in Inner(s) : ~(d[2] < c[2])
    BY <1>3, <2>4, <2>5, Grains
  <2> QED BY <2>4, <2>6 DEF Before
<1>9. ASSUME ~IsHead(p)
      PROVE  p \in Inner(s) /\ p \in Before(s, c) /\ Before(s, c) \ {p} = Before(s, p)
  <2>1. p \in Inner(s)
    BY <1>1, <1>6, <1>9 DEF Inner
  <2>2. p \in Before(s, c)
    BY <1>4, <1>7, <2>1 DEF Before
  <2>3. ASSUME NEW d \in Inner(s), d[1] = c[1] PROVE d[2] < c[2] /\ d # p <=> d[2] < p[2]
    <3>1. d \in DOMAIN s.mem
      BY DEF Inner
    <3>2. d = <<d[1], d[2]>> /\ d[2] \in Nat
      BY <3>1, Headers
    <3>3. d[2] <= p[2] \/ d[2] >= c[2]
      BY <1>4, <1>6, <1>7, <2>3, <3>1 DEF Between
    <3>4. d = p <=> d[2] = p[2]
      BY <1>4, <1>5, <2>3, <3>2
    <3> QED BY <1>3, <1>5, <1>7, <3>2, <3>3, <3>4
  <2> QED BY <1>4, <2>1, <2>2, <2>3 DEF Before
<1> QED BY <1>1, <1>4, <1>7, <1>8, <1>9 DEF p

\* The sizes of the chunks in front of a header add up to its offset,
LEMMA SumBefore ==
    ASSUME NEW s, Shape(s), NEW b \in ToSet(s.used), NEW f \in [ChunksOf(s, b) -> Int],
           \A c \in ChunksOf(s, b) : f[c] = This(s, c),
           NEW x \in DOMAIN s.mem, x[1] = b, ~IsHead(x)
    PROVE  SumFunctionOnSet(f, Before(s, x)) = x[2] - 4 * FINE
<1> DEFINE U == ChunksOf(s, b)
           Sum(S) == SumFunctionOnSet(f, S)
           Right(c) == Sum(Before(s, c)) = c[2] - 4 * FINE
           Wrong == {c \in DOMAIN s.mem : c[1] = b /\ ~IsHead(c) /\ ~Right(c)}
           Offsets == {c[2] : c \in Wrong}
<1>1. IsFiniteSet(U) /\ U = {c \in Inner(s) : c[1] = b}
  BY ChunksFinite, ChunksAre
<1>2. Sum({}) = 0 /\ \A S \in SUBSET U : Sum(S) \in Int
  <2>1. {} \in SUBSET U
    OBVIOUS
  <2> HIDE DEF U
  <2> QED BY <1>1, <2>1, SumType DEF U
<1>3. \A S \in SUBSET U : \A c \in S : Sum(S) = f[c] + Sum(S \ {c})
  <2>1. f \in [U -> Int]
    OBVIOUS
  <2>2. IsFiniteSet(U)
    BY <1>1
  <2> HIDE DEF U
  <2> TAKE S \in SUBSET U
  <2> TAKE c \in S
  <2> QED BY ONLY <2>1, <2>2, S \in SUBSET U, c \in S, SumStep
<1>4. ASSUME NEW c \in DOMAIN s.mem, c[1] = b PROVE Before(s, c) \in SUBSET U /\ c[2] \in Nat
  BY <1>1, <1>4, Headers DEF Before
<1> HIDE DEF U, Sum
<1>5. ASSUME Wrong # {} PROVE FALSE
  <2>1. Offsets \subseteq Nat /\ Offsets # {}
    BY <1>4, <1>5
  <2>2. PICK m \in Offsets : \A n \in Offsets : m <= n
    <3> HIDE DEF Offsets
    <3> QED BY <2>1, LeastNat
  <2>3. PICK c \in Wrong : c[2] = m
    OBVIOUS
  <2>4. c \in DOMAIN s.mem /\ c[1] = b /\ ~IsHead(c) /\ ~Right(c)
    OBVIOUS
  <2>5. \A d \in Wrong : c[2] <= d[2]
    BY <2>2, <2>3
  <2> HIDE DEF Wrong, Offsets
  <2> DEFINE p == FrontOf(s, c)
  <2>6. /\ p \in DOMAIN s.mem /\ p[1] = b /\ p[2] + This(s, p) = c[2] /\ p[2] < c[2]
        /\ IsHead(p) => c[2] = 4 * FINE /\ Before(s, c) = {}
        /\ ~IsHead(p) => /\ p \in Inner(s) /\ p \in Before(s, c)
                         /\ Before(s, c) \ {p} = Before(s, p)
    BY <2>4, OneMore
  <2> HIDE DEF p
  <2>7. CASE IsHead(p)
    <3>1. c[2] - 4 * FINE = 0
      BY <2>6, <2>7, Grains
    <3>2. Sum(Before(s, c)) = 0
      BY <1>2, <2>6, <2>7
    <3> QED BY <2>4, <3>1, <3>2
  <2>8. CASE ~IsHead(p)
    <3>1. p \notin Wrong
      BY <2>4, <2>5, <2>6, <1>4
    <3>2. Right(p)
      BY <2>6, <2>8, <3>1 DEF Wrong
    <3>3. Sum(Before(s, c)) = f[p] + Sum(Before(s, p))
      BY <1>3, <1>4, <2>4, <2>6, <2>8
    <3>4. f[p] = This(s, p)
      BY <1>1, <2>6, <2>8 DEF U
    <3>5. This(s, p) \in Nat /\ p[2] \in Nat
      BY <2>6, Headers
    <3>6. Sum(Before(s, c)) = c[2] - 4 * FINE
      BY <2>6, <3>2, <3>3, <3>4, <3>5, Grains
    <3> QED BY <2>4, <3>6
  <2> QED BY <2>7, <2>8
<1>6. Right(x)
  BY <1>5
<1> QED BY <1>6 DEF Sum

\* and all of them to the size of the block: check_block's "bound size".
LEMMA BlockFilled ==
    ASSUME NEW s, Shape(s), NEW b \in ToSet(s.used)
    PROVE  BlockOverhead + SumOf(s, ChunksOf(s, b)) = s.size[b]
<1> DEFINE U == ChunksOf(s, b)
           f == [c \in U |-> This(s, c)]
           t == TailChunk(s, b)
<1>1. U = {c \in Inner(s) : c[1] = b}
  BY ChunksAre
<1>2. ASSUME NEW c \in U PROVE This(s, c) \in Int
  <2>1. c \in DOMAIN s.mem
    BY <1>1 DEF Inner
  <2> QED BY <2>1, Headers
<1>3. f \in [U -> Int] /\ \A c \in U : f[c] = This(s, c)
  BY <1>2
<1>4. Edges(s, b) /\ s.size[b] \in Nat
  BY DEF Shape, Blocks
<1>5. t = <<b, s.size[b] - 2 * FINE>> /\ t \in DOMAIN s.mem /\ s.size[b] >= 8 * FINE
  BY <1>4, Grains DEF TailChunk, Edges
<1>6. ~IsHead(t) /\ t[1] = b /\ t[2] = s.size[b] - 2 * FINE
  BY <1>4, <1>5, Grains DEF IsHead
<1>7. Before(s, t) = U
  <2>1. ASSUME NEW c \in Inner(s), c[1] = b PROVE c[2] < t[2]
    <3>1. c \in DOMAIN s.mem /\ ~IsTail(s, c)
      BY DEF Inner
    <3>2. c[2] \in Nat /\ c[2] <= s.size[c[1]] - 2 * FINE
      BY <3>1, Headers
    <3> QED BY <1>4, <1>6, <2>1, <3>1, <3>2, Grains DEF IsTail
  <2> HIDE DEF t
  <2> QED BY <1>1, <1>6, <2>1 DEF Before
<1>8. SumOf(s, U) = SumFunctionOnSet(f, U)
  BY DEF SumOf
<1> HIDE DEF f, t
<1>9. SumFunctionOnSet(f, Before(s, t)) = t[2] - 4 * FINE
  BY <1>3, <1>5, <1>6, SumBefore DEF U
<1> HIDE DEF U
<1>10. SumOf(s, U) = s.size[b] - 6 * FINE
  BY <1>4, <1>6, <1>7, <1>8, <1>9, Grains
<1> QED BY <1>4, <1>10, Grains DEF U

\* Where check_free_chunk_list expects a free chunk: between the least sizes of its bin
\* and of the next one.
LEMMA BigBinHolds ==
    ASSUME NEW size \in Nat, size >= BIG_LEAST_SIZE, size <= DEFAULT_BLOCK_SIZE
    PROVE  LET n == size - CHUNK_PADDING_SIZE
               id == BigBin(size)
           IN  n >= ResolveOrderSize(id) /\ n < ResolveOrderSize(id + 1)
<1> DEFINE n == size - CHUNK_PADDING_SIZE
           id == BigBin(size)
           low == ResolveOrderSize(id)
           high == ResolveOrderSize(id + 1)
<1>1. n \in Nat /\ n >= 4 /\ n < 2^32
  BY Bounds
<1>2. id = Third(n) - SequenceBase
  BY DEF BigBin, Third, Compress
<1>3. id \in 0 .. BINMAP_SIZE /\ id + 1 \in 0 .. BINMAP_SIZE /\ id \in Nat
  <2>1. id \in Bins
    BY BigBinRange
  <2> HIDE DEF id
  <2> QED BY <2>1, Bounds DEF Bins
<1>4. SequenceBase \in Nat
  BY QuarterFacts
<1> HIDE DEF n, id
<1>5. /\ low \in Nat /\ low >= SMALL_MAX_REQUEST /\ low < 2^31
      /\ Lead(low) = low /\ Third(low) = id + SequenceBase
  BY <1>3, Resolved
<1>6. /\ high \in Nat /\ high >= SMALL_MAX_REQUEST /\ high < 2^31
      /\ Lead(high) = high /\ Third(high) = id + 1 + SequenceBase
  BY <1>3, Resolved
<1> HIDE DEF low, high
<1>7. low >= 4 /\ low < 2^32 /\ high >= 4 /\ high < 2^32
  BY <1>5, <1>6, Bounds
<1>8. Third(n) \in Nat /\ Lead(n) <= n /\ (Third(n) < Third(high) => n < Lead(high))
  BY <1>1, <1>6, <1>7, ThirdOrdered
<1>9. Third(low) <= Third(n) <=> Lead(low) <= n
  BY <1>1, <1>5, <1>7, ThirdOrdered
<1>10. Third(low) = Third(n) /\ Third(n) < Third(high)
  BY <1>2, <1>3, <1>4, <1>5, <1>6, <1>8
<1>11. n >= low /\ n < high
  BY <1>1, <1>5, <1>6, <1>8, <1>9, <1>10
<1> QED BY <1>11 DEF n, id, low, high

LEMMA SmallBinHolds ==
    ASSUME NEW size \in Nat, size >= SMALL_LEAST_SIZE
    PROVE  LET n == size - CHUNK_PADDING_SIZE
               id == SmallBin(size)
           IN  /\ n >= id * FINE
               /\ n < (BINMAP_SIZE - 1) * FINE => n < (id + 1) * FINE
<1> DEFINE n == size - CHUNK_PADDING_SIZE
           q == n \div FINE
           last == BINMAP_SIZE - 1
<1>1. n \in Nat /\ FINE \in Nat /\ FINE > 0 /\ last \in Nat
  BY Bounds
<1>2. SmallBin(size) = IF q >= BINMAP_SIZE THEN last ELSE q
  BY DEF SmallBin
<1> HIDE DEF n
<1>3. q \in Nat /\ q * FINE <= n /\ n < q * FINE + FINE
  BY <1>1, Divided
<1>4. BINMAP_SIZE = last + 1
  BY <1>1, Bounds
<1> HIDE DEF q, last
<1>5. CASE q >= BINMAP_SIZE
  <2>1. SmallBin(size) = last
    BY <1>2, <1>5
  <2>2. last * FINE <= q * FINE /\ last * FINE \in Nat
    BY <1>1, <1>3, <1>4, <1>5
  <2>3. n >= last * FINE
    BY <1>1, <1>3, <2>2
  <2>4. n < last * FINE => n < (last + 1) * FINE
    BY <1>1, <2>2, <2>3
  <2> QED BY <1>4, <2>1, <2>3, <2>4 DEF n, last
<1>6. CASE ~(q >= BINMAP_SIZE)
  <2>1. SmallBin(size) = q
    BY <1>2, <1>6
  <2>2. (q + 1) * FINE = q * FINE + FINE
    BY <1>1, <1>3
  <2> QED BY <1>1, <1>3, <2>1, <2>2 DEF n
<1> QED BY <1>5, <1>6

\* A sequence of different numbers up to n has at most n of them.
LEMMA AtMost ==
    ASSUME NEW n \in Nat, NEW q \in Seq(1 .. n), IsInjective(q)
    PROVE  Len(q) <= n
<1> DEFINE S == 1 .. Len(q)
           T == 1 .. n
<1>1. Len(q) \in Nat /\ q \in [S -> T] /\ DOMAIN q = S
  OBVIOUS
<1>2. q \in Injection(S, T)
  <2>1. \A i, j \in S : q[i] = q[j] => i = j
    BY <1>1 DEF IsInjective
  <2> HIDE DEF S, T
  <2> QED BY <1>1, <2>1 DEF Injection, IsInjective
<1>3. IsFiniteSet(T) /\ Cardinality(T) = n
  <2>1. 1 \in Int /\ n \in Int
    OBVIOUS
  <2>2. Cardinality(1 .. n) = IF 1 > n THEN 0 ELSE n - 1 + 1
    BY <2>1, FS_Interval
  <2>3. IsFiniteSet(1 .. n)
    BY <2>1, FS_Interval
  <2> QED BY <2>2, <2>3
<1>4. Cardinality(S) = Len(q)
  <2> DEFINE k == Len(q)
  <2>1. 1 \in Int /\ k \in Int /\ k \in Nat
    BY <1>1
  <2> HIDE DEF k
  <2>2. Cardinality(1 .. k) = IF 1 > k THEN 0 ELSE k - 1 + 1
    BY <2>1, FS_Interval
  <2>3. Cardinality(1 .. k) = k
    BY <2>1, <2>2
  <2> QED BY <2>3 DEF k
<1> HIDE DEF S, T
<1>5. Cardinality(S) <= Cardinality(T)
  BY <1>2, <1>3, FS_Injection
<1> QED BY <1>3, <1>4, <1>5

\* Without slots no chunk has the flag of one.
LEMMA NoSlots ==
    ASSUME NEW own, Heap(z, {}, {}, own), ~Slotted
    PROVE  \A c \in DOMAIN z.mem : ~Has(z, c, "SLOT") /\ z.mem[c].bin \in Bins
<1> SUFFICES ASSUME NEW c \in DOMAIN z.mem PROVE ~Has(z, c, "SLOT") /\ z.mem[c].bin \in Bins
  OBVIOUS
<1>1. Shape(z)
  BY DEF Heap
<1>2. c[1] \in ToSet(z.used)
  BY <1>1, Headers
<1>3. FirstChunk(c[1]) \in DOMAIN z.mem /\ FirstChunk(c[1])[1] = c[1]
  BY <1>1, <1>2, First DEF Inner
<1>4. ~Has(z, FirstChunk(c[1]), "SLOT")
  BY <1>2 DEF Slotted
<1>5. ~Has(z, c, "SLOT")
  BY <1>1, <1>3, <1>4, Kind
<1>6. HeaderOK(z.mem[c])
  BY <1>1 DEF Shape, Memory
<1> QED BY <1>5, <1>6 DEF HeaderOK, Has

\* check_block: the lists of the blocks,
LEMMA BlockListsHold ==
    ASSUME NEW s, Shape(s)
    PROVE  CheckBlockList(s, s.reserve, MaxReserve) /\ CheckBlockList(s, s.used, MaxBlocks)
<1>1. /\ s.used \in Seq(BlockIds) /\ s.reserve \in Seq(BlockIds) /\ IsInjective(s.used)
      /\ DOMAIN s.size = ToSet(s.used) \cup ToSet(s.reserve) /\ Len(s.reserve) <= MaxReserve
      /\ \A b \in DOMAIN s.size : s.size[b] \in Nat /\ s.size[b] % FINE = 0
      /\ \A b \in ToSet(s.reserve) : s.size[b] = DEFAULT_BLOCK_SIZE
  BY DEF Shape, Blocks
<1>2. DEFAULT_BLOCK_SIZE \in Nat
  BY Grains
<1>3. CheckBlockList(s, s.reserve, MaxReserve)
  BY <1>1, <1>2 DEF CheckBlockList
<1>4. ASSUME NEW b \in ToSet(s.used)
      PROVE  /\ s.size[b] % FINE = 0
             /\ Has(s, FirstChunk(b), "DIRECT") \/ s.size[b] >= DEFAULT_BLOCK_SIZE
  <2>1. FirstChunk(b) \in DOMAIN s.mem /\ FirstChunk(b)[1] = b
    BY First DEF Inner
  <2>2. ~Has(s, FirstChunk(b), "DIRECT") => s.size[b] = DEFAULT_BLOCK_SIZE
    BY <2>1, Kind
  <2> QED BY <1>1, <1>2, <2>2
<1>5. Len(s.used) <= MaxBlocks
  <2>1. MaxBlocks \in Nat
    BY ZMallocAssumption
  <2> QED BY <1>1, <2>1, AtMost DEF BlockIds
<1>6. CheckBlockList(s, s.used, MaxBlocks)
  BY <1>4, <1>5 DEF CheckBlockList
<1> QED BY <1>3, <1>6

\* the free chunks of a block,
LEMMA FreeListHolds ==
    ASSUME NEW own, Heap(z, {}, {}, own), ~Slotted,
           NEW c \in Inner(z), ~InUse(z, c), ~Has(z, c, "DIRECT")
    PROVE  CheckFreeChunkList(z, c)
<1> DEFINE l == Level(z, c)
           id == z.mem[c].bin
           size == This(z, c)
           bytes == size - CHUNK_PADDING_SIZE
<1> SUFFICES ASSUME c # z.dv[l]
    PROVE  /\ id \in z.bitmap[l]
           /\ c \in ToSet(z.bin[l][id])
           /\ bytes > 0
           /\ IF l = 1 THEN bytes >= ResolveOrderSize(id) /\ bytes < ResolveOrderSize(id + 1)
              ELSE /\ bytes >= id * FINE
                   /\ bytes < (BINMAP_SIZE - 1) * FINE => bytes < (id + 1) * FINE
  BY DEF CheckFreeChunkList
<1>1. Shape(z) /\ Room(z, own) /\ c \in DOMAIN z.mem /\ ~Has(z, c, "SLOT")
  BY NoSlots DEF Heap, Inner
<1>2. c # NULL /\ size \in Nat /\ z.size[c[1]] \in Nat
  BY <1>1, Headers
<1>3. size >= 2 * FINE /\ 4 * FINE <= c[2] /\ c[2] + size <= z.size[c[1]] - 2 * FINE
  BY <1>1, InnerChunk
<1>4. z.size[c[1]] = DEFAULT_BLOCK_SIZE
  BY <1>1, Kind
<1>5. size <= DEFAULT_BLOCK_SIZE /\ size >= SMALL_LEAST_SIZE /\ bytes > 0
  <2>1. c[2] \in Nat
    BY <1>1, Headers
  <2> HIDE DEF size
  <2> QED BY <1>2, <1>3, <1>4, <2>1, Grains
<1>6. \E k \in Levels, b \in Bins : c \in ToSet(z.bin[k][b])
  <2>1. \A k \in Levels : c # z.dv[k]
    <3> SUFFICES ASSUME NEW k \in Levels, c = z.dv[k] PROVE FALSE
      OBVIOUS
    <3>1. z.dv[k] # NULL
      BY <1>2
    <3>2. Level(z, z.dv[k]) = k
      BY <3>1 DEF Heap, Lists, DvSound
    <3> QED BY <3>2
  <2>2. \A i \in SlotIds : c \notin ToSet(z.slot_bin[i])
    BY <1>1, SlotMember
  <2> QED BY <2>1, <2>2 DEF Heap, Lists, Found
<1>7. PICK k \in Levels, b \in Bins : c \in ToSet(z.bin[k][b])
  BY <1>6
<1>8. k = l /\ b = id /\ id = BinOf(z, c)
  BY <1>7, BinMember
<1>9. id \in z.bitmap[l] /\ c \in ToSet(z.bin[l][id])
  <2>1. z.bin[k][b] # <<>>
    BY <1>7 DEF ToSet
  <2>2. b \in z.bitmap[k]
    BY <2>1 DEF Heap, Lists, Binned
  <2> QED BY <1>7, <1>8, <2>2
<1>10. CASE l = 1
  <2>1. Has(z, c, "BIG")
    BY <1>10 DEF Level
  <2>2. size >= BIG_LEAST_SIZE
    BY <1>1, <2>1 DEF Room
  <2>3. id = BigBin(size)
    BY <1>8, <1>10 DEF BinOf
  <2> HIDE DEF l, id, size
  <2>4. bytes >= ResolveOrderSize(id) /\ bytes < ResolveOrderSize(id + 1)
    BY <1>2, <1>5, <2>2, <2>3, BigBinHolds
  <2> QED BY <1>5, <1>9, <1>10, <2>4
<1>11. CASE l # 1
  <2>1. id = SmallBin(size)
    BY <1>8, <1>11 DEF BinOf
  <2> HIDE DEF l, id, size
  <2>2. /\ bytes >= id * FINE
        /\ bytes < (BINMAP_SIZE - 1) * FINE => bytes < (id + 1) * FINE
    BY <1>2, <1>5, <2>1, SmallBinHolds
  <2> QED BY <1>5, <1>9, <1>11, <2>2
<1> QED BY <1>10, <1>11

\* the chunk of a direct block,
LEMMA DirectChunkHolds ==
    ASSUME NEW own, Heap(z, {}, {}, own), ~Slotted, NEW c \in Inner(z), Has(z, c, "DIRECT")
    PROVE  /\ InUse(z, FrontOf(z, c)) /\ InUse(z, NextOf(z, c))
           /\ This(z, FrontOf(z, c)) = This(z, NextOf(z, c))
<1> DEFINE p == FrontOf(z, c)
           n == NextOf(z, c)
<1>1. Shape(z) /\ Room(z, own) /\ c \in DOMAIN z.mem /\ ~Has(z, c, "SLOT")
  BY NoSlots DEF Heap, Inner
<1>2. Fills(z, c)
  BY <1>1 DEF Room
<1>3. /\ FirstChunk(c[1]) = <<c[1], 4 * FINE>> /\ Edges(z, c[1]) /\ z.size[c[1]] \in Nat
  BY <1>1, Headers
<1>4. c[2] = 4 * FINE /\ This(z, c) = z.size[c[1]] - 6 * FINE
  BY <1>2, <1>3, Grains DEF Fills
<1>5. /\ p[1] = c[1] /\ p[2] + This(z, p) = c[2] /\ p \in DOMAIN z.mem
      /\ This(z, p) >= 2 * FINE
      /\ n[1] = c[1] /\ n[2] = c[2] + This(z, c) /\ n \in DOMAIN z.mem
  BY <1>1, InnerChunk
<1> HIDE DEF p, n
<1>6. p \notin Inner(z) /\ n \notin Inner(z)
  <2>1. ASSUME p \in Inner(z) PROVE FALSE
    <3>1. 4 * FINE <= p[2] /\ p[2] \in Nat /\ This(z, p) \in Nat
      BY <1>1, <1>5, <2>1, InnerChunk, Headers
    <3> QED BY <1>4, <1>5, <3>1, Grains
  <2>2. ASSUME n \in Inner(z) PROVE FALSE
    <3>1. n[2] + This(z, n) <= z.size[n[1]] - 2 * FINE /\ This(z, n) >= 2 * FINE
      BY <1>1, <1>5, <2>2, InnerChunk
    <3>2. n[2] \in Nat /\ This(z, n) \in Nat
      BY <1>1, <1>5, Headers
    <3> QED BY <1>3, <1>4, <1>5, <3>1, <3>2, Grains
  <2> QED BY <2>1, <2>2
<1>7. /\ p = BlockHead(c[1]) /\ InUse(z, p) /\ n = TailChunk(z, c[1]) /\ InUse(z, n)
  BY <1>1, <1>6, Neighbours DEF p, n
<1>8. This(z, p) = CHUNK_FREE_SIZE /\ This(z, n) = CHUNK_FREE_SIZE
  BY <1>3, <1>7 DEF Edges
<1> QED BY <1>7, <1>8 DEF p, n

\* and check_chunk, for every chunk,
LEMMA ChunkHolds ==
    ASSUME NEW own, Heap(z, {}, {}, own), ~Slotted, NEW c \in Inner(z)
    PROVE  CheckChunk(z, c)
<1> DEFINE p == FrontOf(z, c)
           n == NextOf(z, c)
           size == z.size[c[1]]
<1>1. Shape(z) /\ Room(z, own) /\ c \in DOMAIN z.mem /\ ~Has(z, c, "SLOT")
  BY NoSlots DEF Heap, Inner
<1>2. /\ n \in DOMAIN z.mem /\ n[1] = c[1] /\ n[2] = c[2] + This(z, c)
      /\ p \in DOMAIN z.mem /\ p[1] = c[1] /\ p[2] + This(z, p) = c[2]
      /\ z.mem[n].prev = This(z, c) /\ z.mem[c].prev = This(z, p)
      /\ This(z, c) >= 2 * FINE /\ 4 * FINE <= c[2] /\ c[2] + This(z, c) <= size - 2 * FINE
  BY <1>1, InnerChunk
<1>3. /\ c[2] \in Nat /\ This(z, c) \in Nat /\ size \in Nat /\ Edges(z, c[1])
      /\ TailChunk(z, c[1]) = <<c[1], size - 2 * FINE>>
  BY <1>1, Headers
<1>4. n[2] \in Nat /\ This(z, n) \in Nat /\ p[2] \in Nat /\ This(z, p) \in Nat /\ 2 * FINE <= p[2]
  BY <1>1, <1>2, Headers
<1>5. n \in Inner(z) \/ n = TailChunk(z, c[1])
  BY <1>1, Neighbours
<1>6. Level(z, n) = Level(z, c) /\ Level(z, p) = Level(z, c)
  BY <1>1, <1>2, Kind
<1>7. ~Has(z, c, "DIRECT") => size = DEFAULT_BLOCK_SIZE
  BY <1>1, Kind
<1>8. Level(z, c) > 0 => This(z, c) >= BIG_LEAST_SIZE
  BY <1>1 DEF Room, Level
<1> HIDE DEF p, n
<1>9. n[2] + This(z, n) <= size
  <2>1. CASE n \in Inner(z)
    <3>1. n[2] + This(z, n) <= z.size[n[1]] - 2 * FINE
      BY <1>1, <2>1, InnerChunk
    <3> QED BY <1>2, <1>3, <1>4, <3>1, Grains
  <2>2. CASE n = TailChunk(z, c[1])
    <3>1. n[2] = size - 2 * FINE
      BY <1>3, <2>2
    <3>2. This(z, n) = 2 * FINE
      BY <1>3, <2>2, Grains DEF Edges
    <3> QED BY <1>3, <1>4, <3>1, <3>2, Grains
  <2> QED BY <1>5, <2>1, <2>2
<1> HIDE DEF size
<1>10. This(z, c) <= size - 6 * FINE /\ This(z, c) + This(z, n) + This(z, p) <= size - 2 * FINE
  BY <1>2, <1>3, <1>4, <1>9, Grains
<1>11. ~Has(z, c, "DIRECT") =>
         /\ This(z, c) <= DEFAULT_BLOCK_SIZE - BlockOverhead
         /\ This(z, c) + This(z, n) + This(z, p) <= DEFAULT_BLOCK_SIZE - BLOCK_TYPE_SIZE
  BY <1>7, <1>10, Grains
<1>12. This(z, c) >= SMALL_LEAST_SIZE
  BY <1>2, Grains
<1> QED BY <1>2, <1>6, <1>8, <1>11, <1>12 DEF CheckChunk, p, n

\* ChecksQuiet
LEMMA QuietHolds ==
    ASSUME IInv
    PROVE  ChecksQuiet
<1> DEFINE none == {}
<1>1. PICK own : Heap(z, none, none, own)
  BY DEF IInv, Sound
<1>2. Shape(z) /\ Chunks(z) = Inner(z)
  BY <1>1, ChunksAre DEF Heap
<1> SUFFICES ASSUME ~Slotted
    PROVE /\ CheckBlock(z) /\ BitmapErrors(z) = 0
          /\ \A c \in Chunks(z) : CheckChunk(z, c) /\ (~InUse(z, c) => CheckFreeChunk(z, c))
  BY DEF ChecksQuiet
<1>3. BitmapErrors(z) = 0
  <2> HIDE DEF none
  <2> QED BY ONLY <1>1, NoBitmapErrors
<1>4. ASSUME NEW c \in Inner(z)
      PROVE  \/ /\ Has(z, c, "DIRECT")
                /\ InUse(z, FrontOf(z, c)) /\ InUse(z, NextOf(z, c))
                /\ This(z, FrontOf(z, c)) = This(z, NextOf(z, c))
             \/ ~Has(z, c, "DIRECT") /\ (InUse(z, c) \/ CheckFreeChunkList(z, c))
  BY <1>1, DirectChunkHolds, FreeListHolds
<1>5. CheckBlock(z)
  <2>1. CheckBlockList(z, z.reserve, MaxReserve) /\ CheckBlockList(z, z.used, MaxBlocks)
    BY <1>2, BlockListsHold
  <2>2. ASSUME z.used # <<>> PROVE Head(z.used) \in ToSet(z.used)
    <3>1. z.used \in Seq(BlockIds)
      BY <1>2 DEF Shape, Blocks
    <3> QED BY <2>2, <3>1 DEF ToSet
  <2>3. \A b \in ToSet(z.used) : /\ BlockOverhead + SumOf(z, ChunksOf(z, b)) = z.size[b]
                                 /\ ChunksOf(z, b) \subseteq Inner(z)
    BY <1>2, BlockFilled, ChunksAre
  <2> QED BY <1>4, <2>1, <2>2, <2>3 DEF CheckBlock
<1>6. ASSUME NEW c \in Inner(z), ~InUse(z, c) PROVE CheckFreeChunk(z, c)
  <2>1. z.mem[c].bin \in Bins
    BY <1>1, NoSlots DEF Inner
  <2>2. z.mem[c].bin < BINMAP_SIZE
    BY <2>1, Bounds DEF Bins
  <2>3. InUse(z, NextOf(z, c)) /\ InUse(z, FrontOf(z, c))
    BY <1>2, <1>6, FindsHold DEF FreeFound, FreeChunks
  <2> QED BY <1>6, <2>2, <2>3 DEF CheckFreeChunk
<1>7. \A c \in Inner(z) : CheckChunk(z, c)
  BY <1>1, ChunkHolds
<1> QED BY <1>2, <1>3, <1>5, <1>6, <1>7

\* As long as no block of a slot is in use the checks of the code never fire: check_block
\* and check_chunk find the sizes, fences, levels, bins and bits as they expect them, so
\* check_panic stops the process only after an error was counted.
THEOREM ChecksQuietAlways == Spec => []ChecksQuiet
<1>1. IInv => ChecksQuiet
  BY QuietHolds
<1> QED BY <1>1, AlwaysSound, PTL
=============================================================================
