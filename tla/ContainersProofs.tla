-------------------------- MODULE ContainersProofs --------------------------
(***************************************************************************)
(* Proofs about the zbase containers: the list of freed chunks of zpool,   *)
(* the rounds of zforeach, the contents, lifetimes and buffers of zvector, *)
(* and the two containers whose nodes are linked through a pool, zhash_map *)
(* and zlist.                                                              *)
(***************************************************************************)
EXTENDS ZVector, ZForeach, ZPool, ZHashMap, ZList, FiniteSetTheorems,
        FunctionTheorems, SequenceTheorems, WellFoundedInduction, TLAPS

-----------------------------------------------------------------------------
(* zpool *)

PoolType ==
    /\ pool.exploit_offset \in 0 .. CHUNKS
    /\ pool.used \in Int
    /\ pool.free_id \in Chunk \cup {NONE}
    /\ pool.word \in [Chunk -> Chunk \cup {NONE}]
    /\ pool = [exploit_offset |-> pool.exploit_offset, used |-> pool.used,
               free_id |-> pool.free_id, word |-> pool.word]
    /\ freed \in Seq(Chunk)
    /\ IsFiniteSet(lent) /\ lent \subseteq Chunk

PoolInv == PoolType /\ PoolWhole

LEMMA PoolBegins == PoolInit => PoolInv
<1> SUFFICES ASSUME PoolInit PROVE PoolInv
  OBVIOUS
<1>0. CHUNKS \in Nat
  BY PoolAssumption
<1>1. PoolType
  <2>1. pool.word \in [Chunk -> Chunk \cup {NONE}]
    BY <1>0 DEF PoolInit, Chunk, Junk
  <2>2. IsFiniteSet(lent)
    BY FS_EmptySet DEF PoolInit
  <2> QED
    BY <1>0, <2>1, <2>2 DEF PoolInit, PoolType
<1>2. PoolWhole
  BY FS_EmptySet DEF PoolInit, PoolWhole, LinksSpell, Freed
<1> QED
  BY <1>1, <1>2 DEF PoolInv

(* A chunk handed out again: the last of the list. *)
LEMMA TakesFreed ==
    ASSUME PoolInv, Exploit, Recycled(pool)
    PROVE  PoolInv'
<1> DEFINE m == Len(freed)
           c == pool.free_id
<1>0. CHUNKS \in Nat /\ freed \in Seq(Chunk) /\ m \in Nat
  BY PoolAssumption DEF PoolInv, PoolType
<1>1. c \in Chunk /\ freed # <<>> /\ m >= 1 /\ c = freed[m] /\ NONE \notin Chunk
  BY <1>0 DEF PoolInv, PoolType, PoolWhole, LinksSpell, Recycled, Chunk, NONE
<1>2. /\ pool'.exploit_offset = pool.exploit_offset
      /\ pool'.used = pool.used + 1
      /\ pool'.free_id = pool.word[c]
      /\ pool'.word = [pool.word EXCEPT ![c] = Junk]
      /\ pool' = [exploit_offset |-> pool'.exploit_offset, used |-> pool'.used,
                  free_id |-> pool'.free_id, word |-> pool'.word]
      /\ lent' = lent \cup {c}
      /\ freed' = SubSeq(freed, 1, m - 1)
  BY DEF Exploit, TakeFreed, PoolInv, PoolType
<1>3. /\ freed' \in Seq(Chunk) /\ Len(freed') = m - 1
      /\ \A k \in 1 .. m - 1 : freed'[k] = freed[k]
  <2>1. m - 1 \in 0 .. m
    BY <1>0, <1>1
  <2> HIDE DEF m
  <2>2. m \in Nat /\ m = Len(freed) /\ freed \in Seq(Chunk)
    BY <1>0 DEF m
  <2> QED
    BY <1>2, <2>1, <2>2
<1>4. \A j, k \in 1 .. m : freed[j] = freed[k] => j = k
  BY DEF PoolInv, PoolWhole, LinksSpell
<1>5. \A k \in 1 .. m : freed[k] \in Chunk
  BY <1>0
<1>6. Junk \in Chunk
  BY <1>0, <1>1 DEF Junk, Chunk
<1>7. IsFiniteSet(lent') /\ Cardinality(lent') = Cardinality(lent) + 1
  <2>1. c \in Freed
    BY <1>0, <1>1 DEF Freed
  <2>2. c \notin lent
    BY <2>1 DEF PoolInv, PoolWhole
  <2> QED
    BY <1>2, <2>2, FS_AddElement DEF PoolInv, PoolType
<1>8. PoolType'
  <2>1. pool'.word \in [Chunk -> Chunk \cup {NONE}]
    BY <1>2, <1>6 DEF PoolInv, PoolType
  <2>2. pool'.free_id \in Chunk \cup {NONE}
    BY <1>1, <1>2 DEF PoolInv, PoolType
  <2>3. lent' \subseteq Chunk
    BY <1>1, <1>2 DEF PoolInv, PoolType
  <2>4. pool'.exploit_offset \in 0 .. CHUNKS /\ pool'.used \in Int
    BY <1>2 DEF PoolInv, PoolType
  <2> QED
    BY <1>2, <1>3, <1>7, <2>1, <2>2, <2>3, <2>4 DEF PoolType
<1>9. LinksSpell'
  <2>1. pool'.free_id = IF freed' = <<>> THEN NONE ELSE freed'[Len(freed')]
    <3>1. pool.word[freed[m]] = IF m = 1 THEN NONE ELSE freed[m - 1]
      <4>1. m \in 1 .. m
        BY <1>0, <1>1
      <4>2. \A k \in 1 .. m : pool.word[freed[k]] = IF k = 1 THEN NONE ELSE freed[k - 1]
        BY DEF PoolInv, PoolWhole, LinksSpell
      <4> HIDE DEF m
      <4> QED
        BY <4>1, <4>2
    <3>2. freed' = <<>> <=> m = 1
      BY <1>0, <1>1, <1>3
    <3> QED
      BY <1>0, <1>1, <1>2, <1>3, <3>1, <3>2
  <2>2. ASSUME NEW k \in 1 .. m - 1
        PROVE  pool'.word[freed'[k]] = IF k = 1 THEN NONE ELSE freed'[k - 1]
    <3>1. freed[k] # freed[m] /\ freed[k] \in Chunk
      BY <1>0, <1>1, <1>4, <1>5
    <3>2. pool'.word[freed[k]] = pool.word[freed[k]]
      BY <1>1, <1>2, <3>1 DEF PoolInv, PoolType
    <3>3. pool.word[freed[k]] = IF k = 1 THEN NONE ELSE freed[k - 1]
      BY <1>0 DEF PoolInv, PoolWhole, LinksSpell
    <3>4. k # 1 => k - 1 \in 1 .. m - 1
      BY <1>0
    <3> QED
      BY <1>3, <3>2, <3>3, <3>4
  <2>3. \A j, k \in 1 .. Len(freed') : freed'[j] = freed'[k] => j = k
    BY <1>0, <1>3, <1>4
  <2> QED
    BY <1>3, <2>1, <2>2, <2>3 DEF LinksSpell
<1>10. Freed = Freed' \cup {c} /\ c \notin Freed'
  <2>1. Freed' = {freed[k] : k \in 1 .. m - 1}
    BY <1>3 DEF Freed
  <2>2. 1 .. m = 1 .. m - 1 \cup {m}
    BY <1>0, <1>1
  <2>3. \A k \in 1 .. m - 1 : freed[k] # freed[m]
    BY <1>0, <1>1, <1>4
  <2> QED
    BY <1>1, <2>1, <2>2, <2>3 DEF Freed
<1>11. Freed' \cap lent' = {} /\ Freed' \cup lent' = 0 .. pool'.exploit_offset - 1
  BY <1>2, <1>10 DEF PoolInv, PoolWhole
<1> QED
  BY <1>2, <1>7, <1>8, <1>9, <1>11 DEF PoolInv, PoolWhole

(* A chunk handed out for the first time: the one at the offset. *)
LEMMA TakesNew ==
    ASSUME PoolInv, Exploit, ~Recycled(pool)
    PROVE  PoolInv'
<1> DEFINE c == pool.exploit_offset
<1>0. CHUNKS \in Nat /\ c \in Nat /\ c < CHUNKS
  BY PoolAssumption DEF PoolInv, PoolType, Exploit, Exhausted
<1>1. /\ pool'.exploit_offset = c + 1
      /\ pool'.used = pool.used + 1
      /\ pool'.free_id = pool.free_id
      /\ pool'.word = [pool.word EXCEPT ![c] = Junk]
      /\ pool' = [exploit_offset |-> pool'.exploit_offset, used |-> pool'.used,
                  free_id |-> pool'.free_id, word |-> pool'.word]
      /\ lent' = lent \cup {c}
      /\ freed' = freed
  BY DEF Exploit, PoolInv, PoolType
<1>2. c \in Chunk /\ Junk \in Chunk
  BY <1>0 DEF Chunk, Junk
<1>3. c \notin lent /\ c \notin Freed
  BY <1>0 DEF PoolInv, PoolWhole
<1>4. IsFiniteSet(lent') /\ Cardinality(lent') = Cardinality(lent) + 1
  BY <1>1, <1>3, FS_AddElement DEF PoolInv, PoolType
<1>5. PoolType'
  <2>1. pool'.word \in [Chunk -> Chunk \cup {NONE}]
    BY <1>1, <1>2 DEF PoolInv, PoolType
  <2>2. pool'.exploit_offset \in 0 .. CHUNKS /\ pool'.used \in Int
    BY <1>0, <1>1 DEF PoolInv, PoolType
  <2>3. lent' \subseteq Chunk
    BY <1>1, <1>2 DEF PoolInv, PoolType
  <2> QED
    BY <1>1, <1>4, <2>1, <2>2, <2>3 DEF PoolInv, PoolType
<1>6. LinksSpell'
  <2>1. ASSUME NEW k \in 1 .. Len(freed)
        PROVE  pool'.word[freed[k]] = pool.word[freed[k]]
    <3>1. freed[k] \in Freed /\ freed[k] \in Chunk
      BY DEF Freed, PoolInv, PoolType
    <3> QED
      BY <1>1, <1>3, <3>1 DEF PoolInv, PoolType
  <2> QED
    BY <1>1, <2>1 DEF PoolInv, PoolWhole, LinksSpell
<1>7. Freed' = Freed
  BY <1>1 DEF Freed
<1>8. 0 .. c + 1 - 1 = 0 .. c - 1 \cup {c}
  BY <1>0
<1>9. Freed' \cap lent' = {} /\ Freed' \cup lent' = 0 .. pool'.exploit_offset - 1
  BY <1>1, <1>3, <1>7, <1>8 DEF PoolInv, PoolWhole
<1> QED
  BY <1>1, <1>4, <1>5, <1>6, <1>9 DEF PoolInv, PoolWhole

(* A chunk given back goes to the end of the list. *)
LEMMA GivesBack ==
    ASSUME PoolInv, NEW c \in Chunk, Back(c)
    PROVE  PoolInv'
<1> DEFINE m == Len(freed)
<1>0. CHUNKS \in Nat /\ freed \in Seq(Chunk) /\ m \in Nat /\ c \in lent
  BY PoolAssumption DEF PoolInv, PoolType, Back
<1>1. /\ pool'.exploit_offset = pool.exploit_offset
      /\ pool'.used = pool.used - 1
      /\ pool'.free_id = c
      /\ pool'.word = [pool.word EXCEPT ![c] = pool.free_id]
      /\ pool' = [exploit_offset |-> pool'.exploit_offset, used |-> pool'.used,
                  free_id |-> pool'.free_id, word |-> pool'.word]
      /\ lent' = lent \ {c}
      /\ freed' = Append(freed, c)
  BY DEF Back, PoolInv, PoolType
<1>2. c \notin Freed
  BY <1>0 DEF PoolInv, PoolWhole
<1>3. /\ freed' \in Seq(Chunk) /\ Len(freed') = m + 1
      /\ \A k \in 1 .. m : freed'[k] = freed[k]
      /\ freed'[m + 1] = c /\ freed' # <<>>
  BY <1>0, <1>1
<1>4. \A k \in 1 .. m : freed[k] \in Chunk /\ freed[k] # c
  BY <1>0, <1>2 DEF Freed
<1>5. IsFiniteSet(lent') /\ Cardinality(lent') = Cardinality(lent) - 1
  BY <1>0, <1>1, FS_RemoveElement DEF PoolInv, PoolType
<1>6. PoolType'
  <2>1. pool'.word \in [Chunk -> Chunk \cup {NONE}]
    BY <1>1 DEF PoolInv, PoolType
  <2>2. pool'.exploit_offset \in 0 .. CHUNKS /\ pool'.used \in Int
    BY <1>1 DEF PoolInv, PoolType
  <2>3. lent' \subseteq Chunk
    BY <1>1 DEF PoolInv, PoolType
  <2> QED
    BY <1>1, <1>3, <1>5, <2>1, <2>2, <2>3 DEF PoolType
<1>7. LinksSpell'
  <2>1. pool'.free_id = IF freed' = <<>> THEN NONE ELSE freed'[Len(freed')]
    BY <1>1, <1>3
  <2>2. ASSUME NEW k \in 1 .. m + 1
        PROVE  pool'.word[freed'[k]] = IF k = 1 THEN NONE ELSE freed'[k - 1]
    <3>1. CASE k = m + 1
      <4>1. pool'.word[c] = pool.free_id
        BY <1>1 DEF PoolInv, PoolType
      <4>2. pool.free_id = IF freed = <<>> THEN NONE ELSE freed[m]
        BY DEF PoolInv, PoolWhole, LinksSpell
      <4>3. freed = <<>> <=> m = 0
        BY <1>0
      <4> QED
        BY <1>0, <1>3, <3>1, <4>1, <4>2, <4>3
    <3>2. CASE k # m + 1
      <4>1. k \in 1 .. m
        BY <1>0, <3>2
      <4>2. pool'.word[freed[k]] = pool.word[freed[k]]
        BY <1>1, <1>4, <4>1 DEF PoolInv, PoolType
      <4>3. pool.word[freed[k]] = IF k = 1 THEN NONE ELSE freed[k - 1]
        BY <4>1 DEF PoolInv, PoolWhole, LinksSpell
      <4>4. k # 1 => k - 1 \in 1 .. m
        BY <1>0, <4>1
      <4> QED
        BY <1>3, <4>1, <4>2, <4>3, <4>4
    <3> QED
      BY <3>1, <3>2
  <2>3. ASSUME NEW j \in 1 .. m + 1, NEW k \in 1 .. m + 1, freed'[j] = freed'[k]
        PROVE  j = k
    BY <1>0, <1>3, <1>4, <2>3 DEF PoolInv, PoolWhole, LinksSpell
  <2> QED
    BY <1>3, <2>1, <2>2, <2>3 DEF LinksSpell
<1>8. Freed' = Freed \cup {c}
  <2>1. 1 .. m + 1 = 1 .. m \cup {m + 1}
    BY <1>0
  <2>2. Freed' = {freed'[k] : k \in 1 .. m + 1}
    BY <1>3 DEF Freed
  <2> QED
    BY <1>3, <2>1, <2>2 DEF Freed
<1>9. Freed' \cap lent' = {} /\ Freed' \cup lent' = 0 .. pool'.exploit_offset - 1
  BY <1>0, <1>1, <1>8 DEF PoolInv, PoolWhole
<1> QED
  BY <1>1, <1>5, <1>6, <1>7, <1>9 DEF PoolInv, PoolWhole

(* However chunks are handed out and given back, the links spell the       *)
(* chunks given back, every chunk below the offset is lent or in that      *)
(* list, never both, and size() counts the lent ones: for every number of  *)
(* chunks, not only the four of the run.                                   *)
THEOREM PoolIsWhole == PoolSpec => []PoolWhole
<1>1. ASSUME PoolInv, [PoolNext]_pvars
      PROVE  PoolInv'
  <2>1. CASE Exploit
    BY <1>1, <2>1, TakesFreed, TakesNew
  <2>2. CASE ExploitNull
    BY <1>1, <2>2 DEF ExploitNull, pvars, PoolInv, PoolType, PoolWhole, LinksSpell, Freed
  <2>3. CASE \E c \in Chunk : Back(c)
    BY <1>1, <2>3, GivesBack
  <2>4. CASE UNCHANGED pvars
    BY <1>1, <2>4 DEF pvars, PoolInv, PoolType, PoolWhole, LinksSpell, Freed
  <2> QED
    BY <1>1, <2>1, <2>2, <2>3, <2>4 DEF PoolNext
<1>2. PoolInv => PoolWhole
  BY DEF PoolInv
<1> QED
  BY PoolBegins, <1>1, <1>2, PTL DEF PoolSpec

-----------------------------------------------------------------------------
(* zforeach *)

Subframe == [hook : BOOLEAN, steps : Nat \ {0}, hard_b : Id, hard_e : Id,
             soft_b : Id, soft_e : Id, step : Nat, cursor : Id]

ForeachType ==
    /\ sub \in Subframe /\ sub.step < sub.steps /\ sub.hard_b <= sub.hard_e
    /\ seen \in [Id -> Nat] /\ steady \subseteq Id /\ below \in BOOLEAN
    /\ round \in [steady : SUBSET Id, seen : [Id -> Nat]]

(* The steady ids below the cursor are the ones visited in this round. *)
Counted == \A i \in steady : seen[i] = IF i < sub.cursor THEN 1 ELSE 0

ForeachInv ==
    /\ ForeachType /\ Counted
    /\ ~below => sub.cursor >= sub.hard_b
    /\ ForeachSound

LEMMA Quotient ==
    ASSUME NEW x \in Nat, NEW k \in Nat, k >= 1
    PROVE  /\ x \div k \in Nat
           /\ k >= 2 => 2 * (x \div k) <= x
           /\ x >= k => x \div k >= 1
<1> DEFINE q == x \div k
<1>1. q \in Int /\ k * q <= x /\ x < k * q + k
  OBVIOUS
<1>2. q >= 0
  <2>1. q <= -1 => k * q <= k * (-1)
    BY <1>1
  <2> QED
    BY <1>1, <2>1
<1>3. k >= 2 => 2 * q <= k * q
  BY <1>1, <1>2
<1>4. q = 0 => k * q + k = k
  BY <1>1
<1> HIDE DEF q
<1>5. q \in Nat /\ (k >= 2 => 2 * q <= x)
  <2>1. k * q \in Int
    BY <1>1
  <2> QED
    BY <1>1, <1>2, <1>3, <2>1
<1>6. x >= k => q >= 1
  BY <1>1, <1>2, <1>4
<1> QED
  BY <1>5, <1>6 DEF q

(* A call that is not the last of its round stops at the end of the window *)
(* or ahead of the cursor: the sum does not wrap.                          *)
LEMMA StopsAhead ==
    ASSUME NEW s \in Subframe, NEW last \in BOOLEAN, last \/ s.steps >= 2
    PROVE  /\ StopAt(s, last) \in Id
           /\ StopAt(s, last) <= s.soft_e
           /\ last => StopAt(s, last) = s.soft_e
           /\ StopAt(s, last) = s.soft_e \/ StopAt(s, last) >= s.cursor
<1> DEFINE d == (s.soft_e - s.soft_b + s.steps - 1) % WORD
<1>1. /\ s.steps \in Nat /\ s.steps >= 1 /\ s.cursor \in Nat /\ s.cursor <= MaxId
      /\ s.soft_e \in Nat /\ s.soft_e <= MaxId /\ s.soft_b \in Nat
      /\ MaxId \in Nat /\ WORD \in Nat /\ 4 * (MaxId + 1) < WORD
  BY ForeachAssumption DEF Subframe, Id
<1>2. d \in Nat /\ d < WORD
  BY <1>1
<1>3. Share(s) = d \div s.steps
  BY DEF Share
<1> HIDE DEF d
<1>4. Share(s) \in Nat /\ (s.steps >= 2 => 2 * Share(s) < WORD)
  BY <1>1, <1>2, <1>3, Quotient
<1> DEFINE end == (s.cursor + Share(s)) % WORD
<1>5. s.steps >= 2 => end = s.cursor + Share(s)
  BY <1>1, <1>4
<1>6. end \in Nat
  BY <1>1, <1>4
<1>7. StopAt(s, last) = IF last \/ end > s.soft_e THEN s.soft_e ELSE end
  BY DEF StopAt
<1> HIDE DEF end
<1>8. s.soft_e \in Id
  BY DEF Subframe
<1>9. end <= s.soft_e => end \in Id
  BY <1>1, <1>6 DEF Id
<1> QED
  BY <1>1, <1>4, <1>5, <1>6, <1>7, <1>8, <1>9

LEMMA SoftIs ==
    ASSUME NEW s \in Subframe, NEW b \in Id, NEW e \in Id
    PROVE  /\ SoftWindow(s, b, e) \in Subframe
           /\ SoftWindow(s, b, e).hook = s.hook
           /\ SoftWindow(s, b, e).steps = s.steps
           /\ SoftWindow(s, b, e).hard_b = s.hard_b
           /\ SoftWindow(s, b, e).hard_e = s.hard_e
           /\ SoftWindow(s, b, e).step = s.step
           /\ SoftWindow(s, b, e).cursor = s.cursor
           /\ SoftWindow(s, b, e).soft_b >= s.hard_b
           /\ SoftWindow(s, b, e).soft_e <= s.hard_e
           /\ SoftWindow(s, b, e).soft_e = e \/ SoftWindow(s, b, e).soft_e = s.hard_e
<1> DEFINE x == IF b < s.hard_b THEN s.hard_b ELSE b
           y == IF e > s.hard_e THEN s.hard_e ELSE e
<1>1. s.hard_b \in Nat /\ s.hard_e \in Nat /\ b \in Nat /\ e \in Nat
  BY ForeachAssumption DEF Subframe, Id
<1>2. x \in Id /\ y \in Id
  BY DEF Subframe
<1>3. x >= s.hard_b /\ y <= s.hard_e /\ (y = e \/ y = s.hard_e)
  BY <1>1
<1>4. SoftWindow(s, b, e) = [s EXCEPT !.soft_b = x, !.soft_e = y]
  BY DEF SoftWindow
<1> HIDE DEF x, y
<1> QED
  BY <1>2, <1>3, <1>4 DEF Subframe

LEMMA ForeachBegins == ForeachInit => ForeachInv
<1> SUFFICES ASSUME ForeachInit PROVE ForeachInv
  OBVIOUS
<1>1. PICK begin \in Id, end \in Id, base \in Bases, long \in Longs :
        sub = InitSubframe(begin, end, base, long) /\ steady = In(begin, end)
  BY DEF ForeachInit
<1>2. seen = Never /\ below = FALSE /\ round = [steady |-> {}, seen |-> Never]
  BY DEF ForeachInit
<1>3. base \in Nat /\ long \in Nat /\ begin \in Nat /\ end \in Nat /\ MaxId \in Nat
  BY ForeachAssumption DEF Id
<1>4. 0 \in Id
  BY <1>3 DEF Id
<1>5. Never \in [Id -> Nat] /\ \A i \in Id : Never[i] = 0
  BY DEF Never
<1>6. /\ sub \in Subframe /\ sub.step < sub.steps /\ sub.hard_b <= sub.hard_e
      /\ sub.cursor >= sub.hard_b /\ (sub = Blank \/ sub.cursor = begin)
  <2>1. CASE base = 0 \/ long = 0 \/ long < base \/ end < begin
    <3>1. sub = Blank
      BY <1>1, <2>1 DEF InitSubframe
    <3> QED
      BY <1>4, <3>1 DEF Blank, Subframe
  <2>2. CASE ~(base = 0 \/ long = 0 \/ long < base \/ end < begin)
    <3>1. sub = [hook |-> TRUE, steps |-> (long + base - 1) \div base,
                 hard_b |-> begin, hard_e |-> end, soft_b |-> begin, soft_e |-> end,
                 step |-> 0, cursor |-> begin]
      BY <1>1, <2>2 DEF InitSubframe
    <3>2. (long + base - 1) \div base \in Nat /\ (long + base - 1) \div base >= 1
      <4>1. /\ base >= 1 /\ long + base - 1 \in Nat /\ long + base - 1 >= base
        BY <1>3, <2>2
      <4> QED
        BY <1>3, <4>1, Quotient
    <3> QED
      BY <1>1, <1>3, <2>2, <3>1, <3>2 DEF Subframe
  <2> QED
    BY <2>1, <2>2
<1>7. steady \subseteq Id /\ \A i \in steady : i >= begin /\ i >= 0
  BY <1>1, <1>3 DEF In, Id
<1>8. Counted
  BY <1>2, <1>3, <1>5, <1>6, <1>7 DEF Counted, Blank, Id
<1>9. ForeachType
  BY <1>2, <1>5, <1>6, <1>7 DEF ForeachType
<1>10. ForeachSound
  BY <1>2, <1>5 DEF ForeachSound, ForeachOnce, ForeachInside
<1> QED
  BY <1>6, <1>8, <1>9, <1>10 DEF ForeachInv

(* One valid call, in two halves: the count of the visits and their place. *)
LEMMA VisitCounts ==
    ASSUME NEW q \in [Id -> Nat], NEW i \in Id, NEW c \in Id, NEW n \in Id,
           q[i] = IF i < c THEN 1 ELSE 0, i < n \/ n >= c
    PROVE  q[i] + (IF i \in In(c, n) THEN 1 ELSE 0) = IF i < n THEN 1 ELSE 0
<1>1. i \in Nat /\ c \in Nat /\ n \in Nat
  BY ForeachAssumption DEF Id
<1>2. i \in In(c, n) <=> (c <= i /\ i < n)
  BY DEF In
<1> QED
  BY <1>1, <1>2

LEMMA ForeachCalls ==
    ASSUME ForeachInv, NEW b \in Id, NEW e \in Id, WindowForeach(b, e)
    PROVE  ForeachInv'
<1> DEFINE s == SoftWindow(sub, b, e)
           step == (s.step + 1) % s.steps
           end == StopAt(s, step = 0)
           visited == [i \in Id |-> seen[i] + IF i \in In(s.cursor, end) THEN 1 ELSE 0]
           window == In(s.soft_b, s.soft_e)
<1>0. /\ sub \in Subframe /\ sub.step < sub.steps /\ sub.hard_b <= sub.hard_e
      /\ seen \in [Id -> Nat] /\ steady \subseteq Id /\ below \in BOOLEAN
      /\ round.steady \subseteq Id /\ round.seen \in [Id -> Nat]
      /\ round \in [steady : SUBSET Id, seen : [Id -> Nat]]
      /\ MaxId \in Nat
  BY ForeachAssumption DEF ForeachInv, ForeachType
<1>1. /\ s \in Subframe /\ s.hook = sub.hook /\ s.steps = sub.steps
      /\ s.hard_b = sub.hard_b /\ s.hard_e = sub.hard_e
      /\ s.step = sub.step /\ s.cursor = sub.cursor
      /\ s.soft_b >= s.hard_b /\ s.soft_e <= s.hard_e
      /\ s.soft_e = e \/ s.soft_e = s.hard_e
  BY <1>0, SoftIs
<1>2. IsValid(s) =>
        /\ sub' = [s EXCEPT !.step = step, !.cursor = IF step = 0 THEN s.soft_b ELSE end]
        /\ below' = (below \/ e < s.hard_b)
        /\ step = 0 => /\ round' = [steady |-> steady \cap window, seen |-> visited]
                       /\ steady' = window /\ seen' = Never
        /\ step # 0 => /\ seen' = visited /\ steady' = steady \cap window
                       /\ round' = [steady |-> {}, seen |-> Never]
  BY DEF WindowForeach
<1>3. ~IsValid(s) => sub' = s /\ UNCHANGED <<seen, steady, round, below>>
  BY DEF WindowForeach
<1> HIDE DEF s
<1>4. /\ s.steps \in Nat /\ s.steps >= 1 /\ s.step \in Nat /\ s.step < s.steps
      /\ s.cursor \in Id /\ s.soft_b \in Id /\ s.soft_e \in Id
      /\ s.hard_b \in Nat /\ s.hard_e \in Nat /\ e \in Nat
      /\ s.cursor \in Nat /\ s.soft_b \in Nat /\ s.soft_e \in Nat
      /\ \A i \in Id : i \in Nat
  <2>1. \A i \in Id : i \in Nat
    BY <1>0 DEF Id
  <2> QED
    BY <1>0, <1>1, <2>1 DEF Subframe
<1>5. step \in Nat /\ step < s.steps /\ (step = 0 \/ s.steps >= 2)
  BY <1>4
<1>6. /\ end \in Id /\ end <= s.soft_e /\ (step = 0 => end = s.soft_e)
      /\ end = s.soft_e \/ end >= s.cursor
  <2>1. (step = 0) \in BOOLEAN /\ ((step = 0) \/ s.steps >= 2)
    BY <1>5
  <2> HIDE DEF step
  <2> QED
    BY <1>1, <2>1, StopsAhead
<1>7. CASE ~IsValid(s)
  <2>1. ForeachType' /\ Counted'
    BY <1>0, <1>1, <1>3, <1>7 DEF ForeachInv, ForeachType, Counted
  <2>2. ForeachSound'
    BY <1>1, <1>3, <1>7 DEF ForeachInv, ForeachSound, ForeachOnce, ForeachInside
  <2> QED
    BY <1>1, <1>3, <1>7, <2>1, <2>2 DEF ForeachInv
<1>8. CASE IsValid(s)
  <2> HIDE DEF step, end
  <2>1. /\ sub' \in Subframe /\ sub'.step = step /\ sub'.steps = s.steps
        /\ sub'.hard_b = s.hard_b /\ sub'.hard_e = s.hard_e
        /\ sub'.cursor = IF step = 0 THEN s.soft_b ELSE end
    <3>1. (IF step = 0 THEN s.soft_b ELSE end) \in Id
      BY <1>4, <1>6
    <3> QED
      BY <1>1, <1>2, <1>5, <1>8, <3>1 DEF Subframe
  <2>2. visited \in [Id -> Nat]
    <3>1. \A i \in Id : seen[i] + (IF i \in In(s.cursor, end) THEN 1 ELSE 0) \in Nat
      BY <1>0
    <3> QED
      BY <3>1
  <2>3. window \subseteq Id /\ \A i \in window : i >= s.soft_b /\ i < s.soft_e
    BY DEF In
  <2>4. Never \in [Id -> Nat] /\ \A i \in Id : Never[i] = 0
    BY DEF Never
  <2>5. \A i \in steady \cap window : visited[i] = IF i < end THEN 1 ELSE 0
    <3> SUFFICES ASSUME NEW i \in steady \cap window
                 PROVE  visited[i] = IF i < end THEN 1 ELSE 0
      OBVIOUS
    <3>1. i \in Id /\ seen[i] = IF i < s.cursor THEN 1 ELSE 0
      BY <1>0, <1>1 DEF ForeachInv, Counted
    <3>2. i < end \/ end >= s.cursor
      BY <1>4, <1>6, <2>3
    <3>3. visited[i] = seen[i] + (IF i \in In(s.cursor, end) THEN 1 ELSE 0)
      BY <3>1
    <3> QED
      BY <1>0, <1>4, <1>6, <3>1, <3>2, <3>3, VisitCounts
  <2> HIDE DEF window
  <2>6. \A i \in Id : visited[i] > 0 => seen[i] > 0 \/ (s.cursor <= i /\ i < end)
    BY <1>0 DEF In
  <2> HIDE DEF visited
  <2>7. ForeachType'
    <3>1. /\ seen' \in [Id -> Nat] /\ steady' \subseteq Id
          /\ round' \in [steady : SUBSET Id, seen : [Id -> Nat]]
      BY <1>0, <1>2, <1>8, <2>2, <2>3, <2>4
    <3>2. below' \in BOOLEAN
      BY <1>2, <1>8
    <3> QED
      BY <1>0, <1>1, <1>5, <2>1, <3>1, <3>2 DEF ForeachType
  <2>8. Counted'
    <3>1. CASE step = 0
      <4>1. \A i \in window : ~(i < s.soft_b) /\ i \in Id
        <5> SUFFICES ASSUME NEW i \in window PROVE ~(i < s.soft_b) /\ i \in Id
          OBVIOUS
        <5>1. i \in Id /\ i >= s.soft_b /\ i \in Nat
          BY <1>4, <2>3
        <5> QED
          BY <1>4, <5>1
      <4> QED
        BY <1>2, <1>8, <2>1, <2>4, <3>1, <4>1 DEF Counted
    <3>2. CASE step # 0
      BY <1>2, <1>8, <2>1, <2>5, <3>2 DEF Counted
    <3> QED
      BY <3>1, <3>2
  <2>9. ~below' => ~below /\ sub'.cursor >= sub'.hard_b /\ s.cursor >= s.hard_b
    <3> SUFFICES ASSUME ~below'
                 PROVE  ~below /\ sub'.cursor >= sub'.hard_b /\ s.cursor >= s.hard_b
      OBVIOUS
    <3>1. ~below /\ ~(e < s.hard_b)
      BY <1>2, <1>8
    <3>2. s.cursor >= s.hard_b
      BY <1>1, <3>1 DEF ForeachInv
    <3>3. s.soft_e >= s.hard_b
      BY <1>0, <1>1, <1>4, <3>1
    <3>4. end >= s.hard_b
      <4>1. end \in Nat
        BY <1>4, <1>6
      <4> QED
        BY <1>4, <1>6, <3>2, <3>3, <4>1
    <3> QED
      BY <1>1, <2>1, <3>1, <3>2, <3>4
  <2>10. ForeachOnce'
    <3>1. CASE step = 0
      <4>1. round'.steady = steady \cap window /\ round'.seen = visited
        BY <1>2, <1>8, <3>1
      <4> QED
        BY <1>6, <2>3, <2>5, <3>1, <4>1 DEF ForeachOnce
    <3>2. CASE step # 0
      BY <1>2, <1>8, <3>2 DEF ForeachOnce
    <3> QED
      BY <3>1, <3>2
  <2>11. ForeachInside'
    <3> SUFFICES ASSUME NEW i \in Id, ~below', seen'[i] > 0 \/ round'.seen[i] > 0
                 PROVE  i \in In(sub'.hard_b, sub'.hard_e)
      BY DEF ForeachInside
    <3>1. visited[i] > 0
      BY <1>2, <1>8, <2>4
    <3>2. CASE seen[i] > 0
      <4>1. i \in In(s.hard_b, s.hard_e)
        BY <1>1, <2>9, <3>2 DEF ForeachInv, ForeachSound, ForeachInside
      <4> QED
        BY <2>1, <4>1
    <3>3. CASE s.cursor <= i /\ i < end
      <4>1. s.hard_b <= i /\ i < s.hard_e
        <5>1. end \in Nat /\ i \in Nat /\ s.cursor >= s.hard_b
          BY <1>4, <1>6, <2>9
        <5> QED
          BY <1>1, <1>4, <1>6, <3>3, <5>1
      <4> QED
        BY <2>1, <4>1 DEF In
    <3> QED
      BY <2>6, <3>1, <3>2, <3>3
  <2> QED
    BY <2>7, <2>8, <2>9, <2>10, <2>11 DEF ForeachInv, ForeachSound
<1> QED
  BY <1>7, <1>8

(* Whatever windows are asked for and whenever they change, the ids that   *)
(* stay in the window are visited exactly once per round, and nothing      *)
(* outside the hard window is visited unless a window ended below it: for  *)
(* every range of ids and every division of the long frame into calls.     *)
THEOREM ForeachIsSound == ForeachSpec => []ForeachSound
<1>1. ASSUME ForeachInv, [ForeachNext]_fvars
      PROVE  ForeachInv'
  <2>1. CASE \E b, e \in Id : WindowForeach(b, e)
    BY <1>1, <2>1, ForeachCalls
  <2>2. CASE Resume
    <3>1. /\ sub' = [sub EXCEPT !.hook = TRUE] /\ sub \in Subframe
          /\ UNCHANGED <<seen, steady, round, below>>
      BY <1>1, <2>2 DEF Resume, ForeachInv, ForeachType
    <3>2. /\ sub' \in Subframe /\ sub'.step = sub.step /\ sub'.steps = sub.steps
          /\ sub'.hard_b = sub.hard_b /\ sub'.hard_e = sub.hard_e
          /\ sub'.cursor = sub.cursor
      BY <3>1 DEF Subframe
    <3>3. ForeachType' /\ Counted'
      BY <1>1, <3>1, <3>2 DEF ForeachInv, ForeachType, Counted
    <3>4. ForeachSound'
      BY <1>1, <3>1, <3>2 DEF ForeachInv, ForeachSound, ForeachOnce, ForeachInside
    <3> QED
      BY <1>1, <3>1, <3>2, <3>3, <3>4 DEF ForeachInv
  <2>3. CASE UNCHANGED fvars
    BY <1>1, <2>3 DEF fvars, ForeachInv, ForeachType, Counted, ForeachSound,
                      ForeachOnce, ForeachInside
  <2> QED
    BY <1>1, <2>1, <2>2, <2>3 DEF ForeachNext
<1>2. ForeachInv => ForeachSound
  BY DEF ForeachInv
<1> QED
  BY ForeachBegins, <1>1, <1>2, PTL DEF ForeachSpec

-----------------------------------------------------------------------------
(* zvector *)

Vector == [space : [Places -> Elems \cup {Raw}], count : Nat, buf : Nat]

(* The object v holds the sequence s, in a buffer of its own or in place. *)
VecHolds(v, s) ==
    /\ v \in Vector /\ s \in Seq(Elems)
    /\ v.count = Len(s) /\ Len(s) <= Capacity(v)
    /\ \A i \in Places : v.space[i] = IF i < Len(s) THEN s[i + 1] ELSE Raw

AllHold == \A o \in Vectors : VecHolds(vec[o], vseq[o])

VecInv ==
    /\ DOMAIN vec = Vectors /\ DOMAIN vseq = Vectors
    /\ vec = [o \in Vectors |-> vec[o]] /\ vseq = [o \in Vectors |-> vseq[o]]
    /\ vbad => odd
    /\ ~odd => AllHold
    /\ VecBuffers

(* The outcome r of an operation on v: it holds s, nothing was harmed, and *)
(* its buffer is the one it had, none or a new one.                        *)
Done(r, v, s) ==
    /\ VecHolds(r.v, s)
    /\ ~r.bad
    /\ r.v.buf = v.buf \/ r.v.buf = 0 \/ r.v.buf \notin heap

LEMMA HoldsObjects ==
    ASSUME NEW v, NEW s, VecHolds(v, s)
    PROVE  /\ Objects(v) = 0 .. Len(s) - 1
           /\ Len(s) \in Nat /\ Len(s) <= VecSize
           /\ Capacity(v) \in Nat /\ Capacity(v) <= VecSize
           /\ \A i \in 1 .. Len(s) : v.space[i - 1] = s[i]
<1>1. /\ s \in Seq(Elems) /\ Len(s) \in Nat /\ Len(s) <= Capacity(v)
      /\ VecSize \in Nat /\ VecFixed \in Nat /\ VecFixed <= VecSize /\ Raw \notin Elems
      /\ \A i \in Places : v.space[i] = IF i < Len(s) THEN s[i + 1] ELSE Raw
  BY VecAssumption DEF VecHolds
<1>2. Capacity(v) \in Nat /\ Capacity(v) <= VecSize /\ Len(s) <= VecSize
  BY <1>1 DEF Capacity
<1>3. ASSUME NEW i \in Places, i < Len(s)
      PROVE  s[i + 1] \in Elems
  BY <1>1, <1>3 DEF Places
<1>4. \A i \in Places : v.space[i] # Raw <=> i < Len(s)
  BY <1>1, <1>3
<1>5. Objects(v) = 0 .. Len(s) - 1
  BY <1>1, <1>2, <1>4 DEF Objects, Places
<1>6. ASSUME NEW i \in 1 .. Len(s)
      PROVE  v.space[i - 1] = s[i]
  <2>1. i - 1 \in Places /\ i - 1 < Len(s) /\ (i - 1) + 1 = i
    BY <1>1, <1>2 DEF Places
  <2>2. v.space[i - 1] = s[(i - 1) + 1]
    BY <1>1, <2>1
  <2> QED
    BY <2>1, <2>2
<1> QED
  BY <1>1, <1>2, <1>5, <1>6

(* There is always a buffer to allocate: a vector has at most one. *)
LEMMA BufferLeft ==
    ASSUME VecBuffers
    PROVE  \E b \in Buffers : b \notin heap
<1>1. IsFiniteSet(Vectors) /\ Cardinality(Vectors) \in Nat
  BY VecAssumption, FS_CardinalityType
<1> DEFINE T == {vec[o].buf : o \in Vectors}
           f == [o \in Vectors |-> vec[o].buf]
<1>2. f \in Surjection(Vectors, T)
  BY DEF Surjection
<1>3. IsFiniteSet(T) /\ Cardinality(T) <= Cardinality(Vectors)
  BY <1>1, <1>2, FS_Surjection
<1>4. heap \in SUBSET T
  BY DEF VecBuffers
<1> HIDE DEF T
<1>5. /\ IsFiniteSet(heap) /\ Cardinality(heap) <= Cardinality(T)
      /\ Cardinality(T) \in Nat /\ Cardinality(heap) \in Nat
  BY <1>3, <1>4, FS_Subset, FS_CardinalityType
<1>6. Cardinality(Buffers) = Cardinality(Vectors) + 1
  BY <1>1, FS_Interval DEF Buffers
<1>7. ASSUME Buffers \subseteq heap PROVE FALSE
  <2>1. Cardinality(Buffers) <= Cardinality(heap)
    BY <1>5, <1>7, FS_Subset
  <2> QED
    BY <1>1, <1>3, <1>5, <1>6, <2>1
<1> QED
  BY <1>7

LEMMA ReallocKeeps ==
    ASSUME VecBuffers, NEW v, NEW s, VecHolds(v, s), NEW expect \in Nat
    PROVE  /\ VecHolds(CheckRealloc(v, expect), s)
           /\ CheckRealloc(v, expect).space = v.space
           /\ CheckRealloc(v, expect).count = v.count
           /\ expect <= VecSize => expect <= Capacity(CheckRealloc(v, expect))
           /\ CheckRealloc(v, expect).buf = v.buf
              \/ CheckRealloc(v, expect).buf \notin heap
<1> DEFINE b == CHOOSE x \in Buffers : x \notin heap
<1>1. b \in Buffers /\ b \notin heap
  BY BufferLeft
<1>2. b \in Nat /\ b # 0
  <2>1. Cardinality(Vectors) \in Nat
    BY VecAssumption, FS_CardinalityType
  <2> HIDE DEF b
  <2> QED
    BY <1>1, <2>1 DEF Buffers
<1> HIDE DEF b
<1>3. VecFixed \in Nat /\ VecSize \in Nat /\ VecFixed <= VecSize
  BY VecAssumption
<1>4. CASE v.buf # 0 \/ expect <= VecFixed
  BY <1>3, <1>4 DEF CheckRealloc, VecHolds, Capacity
<1>5. CASE ~(v.buf # 0 \/ expect <= VecFixed)
  <2>1. CheckRealloc(v, expect) = [v EXCEPT !.buf = b]
    BY <1>5 DEF CheckRealloc, b
  <2>2. /\ [v EXCEPT !.buf = b] \in Vector
        /\ [v EXCEPT !.buf = b].space = v.space
        /\ [v EXCEPT !.buf = b].count = v.count
        /\ [v EXCEPT !.buf = b].buf = b
    BY <1>2 DEF VecHolds, Vector
  <2>3. Capacity([v EXCEPT !.buf = b]) = VecSize /\ Capacity(v) = VecFixed
    BY <1>2, <1>5, <2>2 DEF Capacity
  <2>4. Len(s) \in Nat
    BY DEF VecHolds
  <2> QED
    BY <1>1, <1>3, <2>1, <2>2, <2>3, <2>4 DEF VecHolds
<1> QED
  BY <1>4, <1>5

LEMMA EmptyHolds == VecHolds(Empty, <<>>)
  BY VecAssumption DEF VecHolds, Empty, Vector, Places, Capacity

(* t is s with the n elements behind pos replaced by the ones of new. *)
SplicedAt(t, s, pos, n, new) ==
    /\ t \in Seq(Elems)
    /\ Len(t) = Len(s) - n + Len(new)
    /\ \A k \in 1 .. Len(s) - n + Len(new) :
         t[k] = IF k <= pos THEN s[k]
                ELSE IF k <= pos + Len(new) THEN new[k - pos]
                ELSE s[k - Len(new) + n]

LEMMA ReplacedIs ==
    ASSUME NEW s \in Seq(Elems), NEW new \in Seq(Elems),
           NEW pos \in Nat, NEW n \in Nat, pos + n <= Len(s)
    PROVE  SplicedAt(Replaced(s, pos, n, new), s, pos, n, new)
<1> DEFINE a == SubSeq(s, 1, pos)
           z == SubSeq(s, pos + n + 1, Len(s))
           m == Len(new)
<1>1. Len(s) \in Nat /\ m \in Nat
  OBVIOUS
<1>2. a \in Seq(Elems) /\ Len(a) = pos /\ \A k \in 1 .. pos : a[k] = s[k]
  BY <1>1
<1>3. z \in Seq(Elems) /\ Len(z) = Len(s) - (pos + n)
  BY <1>1
<1>4. \A k \in 1 .. Len(s) - (pos + n) : z[k] = s[pos + n + k]
  BY <1>1
<1> HIDE DEF a, z
<1>5. a \o new \in Seq(Elems) /\ Len(a \o new) = pos + m
  BY <1>1, <1>2
<1>6. \A k \in 1 .. pos + m : (a \o new)[k] = IF k <= pos THEN a[k] ELSE new[k - pos]
  BY <1>1, <1>2
<1> DEFINE c == a \o new
<1> HIDE DEF c, m
<1>7. c \o z \in Seq(Elems) /\ Len(c \o z) = pos + m + (Len(s) - (pos + n))
  BY <1>1, <1>3, <1>5 DEF c
<1>8. \A k \in 1 .. Len(c \o z) : (c \o z)[k] = IF k <= pos + m THEN c[k] ELSE z[k - (pos + m)]
  BY <1>1, <1>3, <1>5 DEF c
<1>9. Replaced(s, pos, n, new) = c \o z
  BY DEF Replaced, a, z, c
<1>10. ASSUME NEW k \in 1 .. Len(s) - n + m
       PROVE  (c \o z)[k] = IF k <= pos THEN s[k]
                            ELSE IF k <= pos + m THEN new[k - pos]
                            ELSE s[k - m + n]
  <2>1. k \in 1 .. Len(c \o z)
    BY <1>1, <1>7
  <2>2. CASE k <= pos
    <3>1. k \in 1 .. pos + m /\ k <= pos + m /\ k \in 1 .. pos
      BY <1>1, <2>2
    <3> QED
      BY <1>2, <1>6, <1>8, <2>1, <2>2, <3>1 DEF c
  <2>3. CASE ~(k <= pos) /\ k <= pos + m
    <3>1. k \in 1 .. pos + m
      BY <1>1, <2>3
    <3> QED
      BY <1>6, <1>8, <2>1, <2>3, <3>1 DEF c
  <2>4. CASE ~(k <= pos) /\ ~(k <= pos + m)
    <3>1. k - (pos + m) \in 1 .. Len(s) - (pos + n)
      BY <1>1, <2>4
    <3>2. pos + n + (k - (pos + m)) = k - m + n
      BY <1>1
    <3>3. z[k - (pos + m)] = s[k - m + n]
      BY <1>4, <3>1, <3>2
    <3> QED
      BY <1>8, <2>1, <2>4, <3>3
  <2> QED
    BY <2>2, <2>3, <2>4
<1>11. pos + m + (Len(s) - (pos + n)) = Len(s) - n + m
  BY <1>1
<1> QED
  BY <1>7, <1>9, <1>10, <1>11 DEF m, SplicedAt

(* t is s with n times e put in behind pos; positions from 0. *)
WithPut(t, s, pos, n, e) ==
    /\ t \in Seq(Elems)
    /\ Len(t) = Len(s) + n
    /\ \A i \in 0 .. Len(s) + n - 1 :
         t[i + 1] = IF i < pos THEN s[i + 1] ELSE IF i < pos + n THEN e ELSE s[i - n + 1]

LEMMA InsertedIs ==
    ASSUME NEW s \in Seq(Elems), NEW pos \in Nat, pos <= Len(s),
           NEW n \in Nat, NEW e \in Elems, NEW t,
           t = Replaced(s, pos, 0, [i \in 1 .. n |-> e])
    PROVE  WithPut(t, s, pos, n, e)
<1> DEFINE new == [i \in 1 .. n |-> e]
<1>1. new \in Seq(Elems) /\ Len(new) = n /\ \A k \in 1 .. n : new[k] = e
  OBVIOUS
<1> HIDE DEF new
<1>2. pos + 0 <= Len(s) /\ 0 \in Nat /\ Len(s) \in Nat
  OBVIOUS
<1>3. SplicedAt(t, s, pos, 0, new)
  BY <1>1, <1>2, ReplacedIs DEF new
<1>4. Len(s) - 0 + Len(new) = Len(s) + n
  BY <1>1, <1>2
<1>5. t \in Seq(Elems) /\ Len(t) = Len(s) + n
  BY <1>3, <1>4 DEF SplicedAt
<1>6. ASSUME NEW i \in 0 .. Len(s) + n - 1
      PROVE  t[i + 1] = IF i < pos THEN s[i + 1] ELSE IF i < pos + n THEN e ELSE s[i - n + 1]
  <2> DEFINE k == i + 1
  <2>1. k \in 1 .. Len(s) - 0 + Len(new)
    BY <1>2, <1>4
  <2>2. k - Len(new) + 0 = i - n + 1 /\ Len(new) = n
    BY <1>1
  <2>3. (k <= pos <=> i < pos) /\ (k <= pos + n <=> i < pos + n)
    OBVIOUS
  <2>4. ~(k <= pos) /\ k <= pos + n => k - pos \in 1 .. n
    OBVIOUS
  <2> HIDE DEF k
  <2>5. t[k] = IF k <= pos THEN s[k] ELSE IF k <= pos + Len(new) THEN new[k - pos]
                                     ELSE s[k - Len(new) + 0]
    BY <1>3, <2>1 DEF SplicedAt
  <2>6. t[k] = IF i < pos THEN s[k] ELSE IF i < pos + n THEN e ELSE s[i - n + 1]
    BY <1>1, <2>2, <2>3, <2>4, <2>5
  <2> QED
    BY <2>6 DEF k
<1> QED
  BY <1>5, <1>6 DEF WithPut

(* t is s without the elements from first to last - 1. *)
WithCut(t, s, first, last) ==
    /\ t \in Seq(Elems)
    /\ Len(t) = Len(s) - (last - first)
    /\ \A i \in 0 .. Len(s) - (last - first) - 1 :
         t[i + 1] = IF i < first THEN s[i + 1] ELSE s[i + (last - first) + 1]

LEMMA DeletedIs ==
    ASSUME NEW s \in Seq(Elems), NEW first \in Nat, NEW last \in Nat,
           first <= last, last <= Len(s), NEW t,
           t = Replaced(s, first, last - first, <<>>)
    PROVE  WithCut(t, s, first, last)
<1> DEFINE new == <<>>
           n == last - first
<1>1. new \in Seq(Elems) /\ Len(new) = 0
  OBVIOUS
<1>2. n \in Nat /\ first + n <= Len(s) /\ Len(s) \in Nat
  OBVIOUS
<1>3. t = Replaced(s, first, n, new)
  OBVIOUS
<1> HIDE DEF new, n
<1>4. SplicedAt(t, s, first, n, new)
  BY <1>1, <1>2, <1>3, ReplacedIs
<1>5. Len(s) - n + Len(new) = Len(s) - n
  BY <1>1, <1>2
<1>6. t \in Seq(Elems) /\ Len(t) = Len(s) - n
  BY <1>4, <1>5 DEF SplicedAt
<1>7. ASSUME NEW i \in 0 .. Len(s) - n - 1
      PROVE  t[i + 1] = IF i < first THEN s[i + 1] ELSE s[i + n + 1]
  <2> DEFINE k == i + 1
  <2>1. k \in 1 .. Len(s) - n + Len(new)
    BY <1>2, <1>5
  <2>2. k - Len(new) + n = i + n + 1 /\ first + Len(new) = first
    BY <1>1, <1>2
  <2>3. k <= first <=> i < first
    OBVIOUS
  <2> HIDE DEF k
  <2>4. t[k] = IF k <= first THEN s[k] ELSE IF k <= first + Len(new) THEN new[k - first]
                                       ELSE s[k - Len(new) + n]
    BY <1>4, <2>1 DEF SplicedAt
  <2>5. t[k] = IF i < first THEN s[k] ELSE s[i + n + 1]
    BY <2>2, <2>3, <2>4
  <2> QED
    BY <2>5 DEF k
<1> QED
  BY <1>6, <1>7 DEF n, WithCut

-----------------------------------------------------------------------------
(* The operations, each on an object that holds a sequence. *)

(* What constructs on raw places, assigns to and destroys objects within   *)
(* the buffer harms nothing.                                               *)
LEMMA NoHarm ==
    ASSUME NEW v, NEW s, VecHolds(v, s), NEW c, NEW a, NEW d,
           c \subseteq Nat, a \subseteq Nat,
           \A i \in c : i >= Len(s) /\ i < Capacity(v),
           \A i \in a : (i < Len(s) \/ i \in c) /\ i < Capacity(v),
           \A i \in d : i \in Nat /\ (i < Len(s) \/ i \in c)
    PROVE  ~Harm(v, c, a, d)
<1>1. /\ Objects(v) = 0 .. Len(s) - 1 /\ Len(s) \in Nat
      /\ Capacity(v) \in Nat
  BY HoldsObjects
<1>2. \A i \in Nat : i \in Objects(v) <=> i < Len(s)
  BY <1>1
<1>3. c \cap Objects(v) = {}
  <2> SUFFICES ASSUME NEW i \in c, i \in Objects(v) PROVE FALSE
    OBVIOUS
  <2>1. i \in Nat /\ i >= Len(s) /\ i < Len(s)
    BY <1>2
  <2> QED
    BY <1>1, <2>1
<1>4. a \subseteq Objects(v) \cup c /\ d \subseteq Objects(v) \cup c
  BY <1>2
<1>5. \A i \in c \cup a : i \in Nat /\ i < Capacity(v)
  OBVIOUS
<1>6. \A i \in c \cup a : ~(i >= Capacity(v))
  BY <1>1, <1>5
<1> QED
  BY <1>3, <1>4, <1>6 DEF Harm

LEMMA InsertDone ==
    ASSUME VecBuffers, NEW v, NEW s, VecHolds(v, s), NEW pos \in Nat, NEW n \in Nat,
           NEW e \in Elems, CanInsert(v, pos, n), v.count - pos = 0 \/ n <= v.count - pos,
           NEW t, WithPut(t, s, pos, n, e)
    PROVE  Done(InsertVec(v, pos, n, e), v, t)
<1> DEFINE w == CheckRealloc(v, v.count + n)
           j == Inject(v, pos, n)
           r == InsertVec(v, pos, n, e)
           L == Len(s)
<1>1. /\ v.count = L /\ L \in Nat /\ pos <= L /\ L + n <= VecSize /\ n >= 1
      /\ VecSize \in Nat /\ s \in Seq(Elems)
  BY VecAssumption, HoldsObjects DEF VecHolds, CanInsert
<1>2. /\ VecHolds(w, s) /\ w.space = v.space /\ w.count = L /\ L + n <= Capacity(w)
      /\ w.buf = v.buf \/ w.buf \notin heap
  <2>1. v.count + n \in Nat /\ v.count + n = L + n
    BY <1>1
  <2>2. /\ VecHolds(w, s) /\ w.space = v.space /\ w.count = v.count
        /\ v.count + n <= VecSize => v.count + n <= Capacity(w)
        /\ w.buf = v.buf \/ w.buf \notin heap
    BY <2>1, ReallocKeeps
  <2> HIDE DEF w
  <2> QED
    BY <1>1, <2>1, <2>2
<1>3. WithPut(t, s, pos, n, e)
  OBVIOUS
<1> DEFINE space1 == [i \in Places |->
                        CASE i < pos -> w.space[i]
                          [] i >= pos /\ i < pos + n -> Raw
                          [] i >= pos + n /\ i < w.count + n -> w.space[i - n]
                          [] OTHER -> Raw]
           space2 == [i \in Places |-> IF i >= pos /\ i < pos + n THEN e ELSE space1[i]]
<1>5. j.v = [w EXCEPT !.count = w.count + n, !.space = space1]
  BY <1>1, <1>2 DEF Inject
<1>6. r.v = [j.v EXCEPT !.space = space2] /\ (r.bad <=> (j.bad \/ Harm(j.v, pos .. pos + n - 1, {}, {})))
  <2>1. j.v.space = space1
    BY <1>2, <1>5 DEF VecHolds, Vector
  <2> QED
    BY <2>1 DEF InsertVec
<1>7. \A i \in Places : i \in Nat /\ i < VecSize
  BY <1>1 DEF Places
<1>8. ASSUME NEW i \in Places
      PROVE  space1[i] = IF i < pos THEN s[i + 1]
                         ELSE IF i >= pos + n /\ i < L + n THEN s[i - n + 1] ELSE Raw
  <2>1. \A k \in Places : w.space[k] = IF k < L THEN s[k + 1] ELSE Raw
    BY <1>2 DEF VecHolds
  <2>2. CASE i < pos
    BY <1>1, <1>7, <2>1, <2>2
  <2>3. CASE i >= pos + n /\ i < L + n
    <3>1. i - n \in Places /\ i - n < L /\ ~(i < pos) /\ ~(i < pos + n)
      BY <1>1, <1>7, <2>3 DEF Places
    <3>2. space1[i] = w.space[i - n]
      BY <1>1, <1>2, <1>7, <2>3, <3>1
    <3> QED
      BY <2>1, <2>3, <3>1, <3>2
  <2>4. CASE ~(i < pos) /\ ~(i >= pos + n /\ i < L + n)
    BY <1>1, <1>2, <1>7, <2>4
  <2> QED
    BY <2>2, <2>3, <2>4
<1> HIDE DEF space1
<1>9. ASSUME NEW i \in Places
      PROVE  space2[i] = IF i < L + n THEN t[i + 1] ELSE Raw
  <2>1. i \in Nat
    BY <1>7
  <2>2. space2[i] = IF i >= pos /\ i < pos + n THEN e ELSE space1[i]
    OBVIOUS
  <2>3. i < L + n => t[i + 1] = IF i < pos THEN s[i + 1]
                               ELSE IF i < pos + n THEN e ELSE s[i - n + 1]
    <3>1. i < L + n => i \in 0 .. Len(s) + n - 1
      BY <1>1, <2>1
    <3> QED
      BY <1>3, <3>1 DEF WithPut
  <2> HIDE DEF space2
  <2>6. CASE i < pos
    BY <1>1, <1>8, <2>1, <2>2, <2>3, <2>6
  <2>7. CASE i >= pos /\ i < pos + n
    BY <1>1, <2>1, <2>2, <2>3, <2>7
  <2>8. CASE i >= pos + n /\ i < L + n
    <3>1. space2[i] = s[i - n + 1]
      BY <1>1, <1>8, <2>1, <2>2, <2>8
    <3>2. t[i + 1] = s[i - n + 1]
      BY <1>1, <2>1, <2>3, <2>8
    <3> QED
      BY <2>8, <3>1, <3>2
  <2>9. CASE i >= L + n
    BY <1>1, <1>8, <2>1, <2>2, <2>9
  <2> QED
    BY <1>1, <2>1, <2>6, <2>7, <2>8, <2>9
<1>10. /\ space1 \in [Places -> Elems \cup {Raw}]
       /\ space2 \in [Places -> Elems \cup {Raw}]
  <2>1. \A k \in 1 .. L : s[k] \in Elems
    BY <1>1
  <2>2. ASSUME NEW i \in Places PROVE space1[i] \in Elems \cup {Raw}
    <3>1. i < pos => i + 1 \in 1 .. L
      BY <1>1, <1>7
    <3>2. i >= pos + n /\ i < L + n => i - n + 1 \in 1 .. L
      BY <1>1, <1>7
    <3> QED
      BY <1>8, <2>1, <3>1, <3>2
  <2>3. space1 = [i \in Places |-> space1[i]]
    BY DEF space1
  <2> QED
    BY <2>2, <2>3
<1> HIDE DEF space2
<1>11. /\ j.v \in Vector /\ j.v.space = space1 /\ j.v.buf = w.buf /\ j.v.count = L + n
       /\ r.v \in Vector /\ r.v.space = space2 /\ r.v.buf = w.buf /\ r.v.count = L + n
  <2>1. w \in Vector
    BY <1>2 DEF VecHolds
  <2>2. /\ j.v \in Vector /\ j.v.space = space1 /\ j.v.buf = w.buf /\ j.v.count = L + n
    <3>1. w.count + n \in Nat /\ w.count + n = L + n
      BY <1>1, <1>2
    <3> HIDE DEF j, w, L
    <3> QED
      BY <1>5, <1>10, <2>1, <3>1 DEF Vector
  <2> HIDE DEF j, w
  <2> QED
    BY <1>6, <1>10, <2>2 DEF Vector
<1> HIDE DEF r, j, w
<1>12. Capacity(r.v) = Capacity(w) /\ Capacity(j.v) = Capacity(w)
  BY <1>11 DEF Capacity
<1>13. VecHolds(r.v, t)
  BY <1>2, <1>3, <1>9, <1>11, <1>12 DEF VecHolds, WithPut
<1>14. ~j.bad
  <2> DEFINE built == (IF w.count - pos < n THEN pos + n ELSE w.count) .. w.count + n - 1
             moved == pos + n .. w.count - 1
             gone == pos .. pos + n - 1
  <2>1. j.bad <=> (w.count - pos > 0 /\ Harm(w, built, moved, gone))
    BY DEF Inject, j, w
  <2>2. CASE L - pos > 0
    <3>1. n <= L - pos
      BY <1>1, <2>2
    <3>2. built = L .. L + n - 1 /\ moved = pos + n .. L - 1
      BY <1>1, <1>2, <3>1
    <3> HIDE DEF built, moved
    <3>3. Capacity(w) \in Nat
      BY <1>2, HoldsObjects
    <3>4. built \subseteq Nat /\ \A i \in built : i >= L /\ i < Capacity(w)
      BY <1>1, <1>2, <3>2, <3>3
    <3>5. moved \subseteq Nat /\ \A i \in moved : (i < L \/ i \in built) /\ i < Capacity(w)
      BY <1>1, <1>2, <3>2, <3>3
    <3>6. \A i \in gone : i \in Nat /\ (i < L \/ i \in built)
      BY <1>1, <3>1
    <3> HIDE DEF gone
    <3>7. ~Harm(w, built, moved, gone)
      BY <1>2, <3>4, <3>5, <3>6, NoHarm
    <3> QED
      BY <2>1, <3>7
  <2>3. CASE ~(L - pos > 0)
    BY <1>2, <2>1, <2>3
  <2> QED
    BY <2>2, <2>3
<1>15. ~Harm(j.v, pos .. pos + n - 1, {}, {})
  <2>1. ASSUME NEW i \in pos .. pos + n - 1, i \in Objects(j.v) PROVE FALSE
    <3>1. i \in Places /\ space1[i] # Raw
      BY <1>11, <2>1 DEF Objects
    <3>2. ~(i < pos) /\ ~(i >= pos + n)
      BY <1>1, <2>1
    <3> QED
      BY <1>8, <3>1, <3>2
  <2>2. ASSUME NEW i \in pos .. pos + n - 1 PROVE ~(i >= Capacity(j.v))
    <3>1. Capacity(w) \in Nat
      BY <1>2, HoldsObjects
    <3> QED
      BY <1>1, <1>2, <1>12, <2>2, <3>1
  <2> QED
    BY <2>1, <2>2 DEF Harm
<1>16. Done(r, v, t)
  BY <1>2, <1>6, <1>11, <1>13, <1>14, <1>15 DEF Done
<1> QED
  BY <1>16 DEF r

LEMMA EraseDone ==
    ASSUME NEW v, NEW s, VecHolds(v, s), NEW first \in Nat, NEW last \in Nat,
           first < last, last <= v.count, NEW t, WithCut(t, s, first, last)
    PROVE  Done(EraseVec(v, first, last), v, t)
<1> DEFINE n == last - first
           L == Len(s)
           r == EraseVec(v, first, last)
           space2 == [i \in Places |->
                        CASE i < first -> v.space[i]
                          [] i >= first /\ i < v.count - n -> v.space[i + n]
                          [] OTHER -> Raw]
<1>1. /\ v.count = L /\ L \in Nat /\ last <= L /\ L <= VecSize /\ L <= Capacity(v)
      /\ VecSize \in Nat /\ s \in Seq(Elems) /\ Capacity(v) \in Nat /\ v \in Vector
      /\ n \in Nat /\ n >= 1 /\ first + n <= L /\ L - n \in Nat
  BY VecAssumption, HoldsObjects DEF VecHolds
<1>2. \A i \in Places : v.space[i] = IF i < L THEN s[i + 1] ELSE Raw
  BY DEF VecHolds
<1>3. \A i \in Places : i \in Nat /\ i < VecSize
  BY <1>1 DEF Places
<1>4. /\ r.v = [v EXCEPT !.count = v.count - n, !.space = space2]
      /\ r.bad <=> Harm(v, {}, first .. (v.count - n) - 1, (v.count - n) .. v.count - 1)
  BY <1>1 DEF EraseVec, Vector
<1>5. /\ t \in Seq(Elems) /\ Len(t) = L - n
      /\ \A i \in 0 .. L - n - 1 : t[i + 1] = IF i < first THEN s[i + 1] ELSE s[i + n + 1]
  BY DEF WithCut
<1> HIDE DEF r
<1>6. ASSUME NEW i \in Places
      PROVE  space2[i] = IF i < L - n THEN t[i + 1] ELSE Raw
  <2>1. i \in Nat /\ i < VecSize
    BY <1>3
  <2>2. CASE i < first
    <3>1. i < L - n /\ i < L /\ i \in 0 .. L - n - 1
      BY <1>1, <2>1, <2>2
    <3>2. space2[i] = v.space[i]
      BY <1>1, <2>1, <2>2
    <3> HIDE DEF space2
    <3> QED
      BY <1>2, <1>5, <2>2, <3>1, <3>2
  <2>3. CASE i >= first /\ i < L - n
    <3>1. i + n \in Places /\ i + n < L /\ i \in 0 .. L - n - 1 /\ ~(i < first)
      BY <1>1, <2>1, <2>3 DEF Places
    <3>2. space2[i] = v.space[i + n]
      BY <1>1, <2>3, <3>1
    <3> HIDE DEF space2
    <3>3. v.space[i + n] = s[i + n + 1]
      BY <1>2, <3>1
    <3> QED
      BY <1>5, <2>3, <3>1, <3>2, <3>3
  <2>4. CASE i >= L - n
    <3>1. ~(i < first) /\ ~(i < L - n)
      BY <1>1, <2>1, <2>4
    <3>2. space2[i] = Raw
      BY <1>1, <3>1
    <3> QED
      BY <3>1, <3>2
  <2> QED
    BY <1>1, <2>1, <2>2, <2>3, <2>4
<1>7. space2 \in [Places -> Elems \cup {Raw}]
  <2>1. ASSUME NEW i \in Places PROVE space2[i] \in Elems \cup {Raw}
    <3>1. i < L - n => i + 1 \in 1 .. Len(t)
      BY <1>1, <1>3, <1>5
    <3>2. \A k \in 1 .. Len(t) : t[k] \in Elems
      BY <1>5
    <3> QED
      BY <1>6, <3>1, <3>2
  <2> QED
    BY <2>1
<1> HIDE DEF space2
<1>8. /\ r.v \in Vector /\ r.v.space = space2 /\ r.v.count = L - n /\ r.v.buf = v.buf
  <2>1. v.count - n \in Nat /\ v.count - n = L - n
    BY <1>1
  <2> HIDE DEF n, L
  <2> QED
    BY <1>1, <1>4, <1>7, <2>1 DEF Vector
<1>9. Capacity(r.v) = Capacity(v)
  BY <1>8 DEF Capacity
<1>10. VecHolds(r.v, t)
  BY <1>1, <1>5, <1>6, <1>8, <1>9 DEF VecHolds
<1>11. ~r.bad
  <2> DEFINE a == first .. (v.count - n) - 1
             d == (v.count - n) .. v.count - 1
  <2>1. a \subseteq Nat /\ \A i \in a : (i < L \/ i \in {}) /\ i < Capacity(v)
    BY <1>1
  <2>2. \A i \in d : i \in Nat /\ (i < L \/ i \in {})
    BY <1>1
  <2>3. r.bad <=> Harm(v, {}, a, d)
    BY <1>4
  <2> HIDE DEF a, d
  <2>4. ~Harm(v, {}, a, d)
    BY <2>1, <2>2, NoHarm
  <2> QED
    BY <2>3, <2>4
<1> QED
  BY <1>8, <1>10, <1>11 DEF Done, r

LEMMA PopIs ==
    ASSUME NEW s \in Seq(Elems), Len(s) > 0
    PROVE  WithCut(SubSeq(s, 1, Len(s) - 1), s, Len(s) - 1, Len(s))
<1> DEFINE m == Len(s) - 1
           t == SubSeq(s, 1, m)
<1>1. Len(s) \in Nat /\ m \in Nat /\ m <= Len(s) /\ Len(s) - (Len(s) - m) = m
  OBVIOUS
<1>2. t \in Seq(Elems) /\ Len(t) = m /\ \A k \in 1 .. m : t[k] = s[k]
  BY <1>1
<1> HIDE DEF t, m
<1>3. ASSUME NEW i \in 0 .. m - 1
      PROVE  t[i + 1] = IF i < m THEN s[i + 1] ELSE s[i + (Len(s) - m) + 1]
  <2>1. i + 1 \in 1 .. m /\ i < m
    BY <1>1
  <2> QED
    BY <1>2, <2>1
<1>4. WithCut(t, s, m, Len(s))
  BY <1>1, <1>2, <1>3 DEF WithCut
<1> QED
  BY <1>4 DEF t, m

LEMMA VecClearHolds ==
    ASSUME NEW v, NEW s, VecHolds(v, s)
    PROVE  VecHolds(ClearVec(v), <<>>) /\ ClearVec(v).buf = v.buf
<1>1. VecSize \in Nat /\ VecFixed \in Nat
  BY VecAssumption
<1>2. ClearVec(v) = [v EXCEPT !.space = [i \in Places |-> Raw], !.count = 0]
  BY DEF ClearVec
<1>3. /\ ClearVec(v) \in Vector /\ ClearVec(v).buf = v.buf /\ ClearVec(v).count = 0
      /\ ClearVec(v).space = [i \in Places |-> Raw]
  <2> DEFINE raw == [i \in Places |-> Raw]
  <2>1. raw \in [Places -> Elems \cup {Raw}]
    OBVIOUS
  <2>2. v \in Vector /\ 0 \in Nat
    BY DEF VecHolds
  <2> HIDE DEF raw
  <2>3. ClearVec(v) = [v EXCEPT !.space = raw, !.count = 0]
    BY <1>2 DEF raw
  <2>4. /\ ClearVec(v) \in Vector /\ ClearVec(v).buf = v.buf /\ ClearVec(v).count = 0
        /\ ClearVec(v).space = raw
    BY <2>1, <2>2, <2>3 DEF Vector
  <2> QED
    BY <2>4 DEF raw
<1>4. \A i \in Places : i \in Nat
  BY <1>1 DEF Places
<1>5. Len(<<>>) = 0 /\ <<>> \in Seq(Elems)
  OBVIOUS
<1>6. Capacity(ClearVec(v)) >= 0
  BY <1>1 DEF Capacity
<1>7. \A i \in Places : ~(i < 0) /\ ClearVec(v).space[i] = Raw
  BY <1>3, <1>4
<1> QED
  BY <1>3, <1>5, <1>6, <1>7 DEF VecHolds

(* A vector made to hold the elements of t, in the room it has. *)
Spread(t) == [i \in Places |-> IF i < Len(t) THEN t[i + 1] ELSE Raw]
Refilled(w, space2, n) == [w EXCEPT !.count = n, !.space = space2]

LEMMA FilledHolds ==
    ASSUME NEW w, NEW s, VecHolds(w, s), NEW t \in Seq(Elems), Len(t) <= Capacity(w),
           NEW x, x = Refilled(w, Spread(t), Len(t))
    PROVE  VecHolds(x, t) /\ x.buf = w.buf
<1> DEFINE space2 == Spread(t)
<1>1. VecSize \in Nat /\ w \in Vector /\ Len(t) \in Nat
  BY VecAssumption DEF VecHolds
<1>2. space2 \in [Places -> Elems \cup {Raw}]
  <2>1. ASSUME NEW i \in Places, i < Len(t)
        PROVE  t[i + 1] \in Elems
    <3>1. i + 1 \in 1 .. Len(t)
      BY <1>1, <2>1 DEF Places
    <3> QED
      BY <3>1
  <2> QED
    BY <2>1 DEF Spread
<1>3. \A i \in Places : space2[i] = IF i < Len(t) THEN t[i + 1] ELSE Raw
  BY DEF Spread
<1> HIDE DEF space2
<1>4. x.count = Len(t) /\ x.space = space2 /\ x.buf = w.buf /\ x \in Vector
  BY <1>1, <1>2 DEF Vector, Refilled, space2
<1>5. Capacity(x) = Capacity(w)
  BY <1>4 DEF Capacity
<1> QED
  BY <1>3, <1>4, <1>5 DEF VecHolds

LEMMA OtherOrder ==
    ASSUME NEW w \in Vector, NEW space2, NEW n
    PROVE  [w EXCEPT !.space = space2, !.count = n] = Refilled(w, space2, n)
  BY DEF Refilled, Vector

LEMMA FillDone ==
    ASSUME VecBuffers, NEW v, NEW s, VecHolds(v, s), NEW e \in Elems
    PROVE  Done(FillVec(v, e), v, [i \in 1 .. VecSize |-> e])
<1> DEFINE w == CheckRealloc(v, VecSize)
           t == [i \in 1 .. VecSize |-> e]
           r == FillVec(v, e)
           space2 == [i \in Places |-> e]
<1>1. VecSize \in Nat /\ Len(s) \in Nat /\ Len(s) <= VecSize
  BY VecAssumption, HoldsObjects
<1>2. /\ VecHolds(w, s) /\ w.count = Len(s) /\ VecSize <= Capacity(w)
      /\ w.buf = v.buf \/ w.buf \notin heap
  <2>1. /\ VecHolds(w, s) /\ w.count = v.count
        /\ VecSize <= VecSize => VecSize <= Capacity(w)
        /\ w.buf = v.buf \/ w.buf \notin heap
    BY <1>1, ReallocKeeps
  <2> QED
    BY <1>1, <2>1 DEF VecHolds
<1>3. t \in Seq(Elems) /\ Len(t) = VecSize /\ \A k \in 1 .. VecSize : t[k] = e
  BY <1>1
<1>4. space2 = Spread(t)
  <2>1. ASSUME NEW i \in Places
        PROVE  e = IF i < Len(t) THEN t[i + 1] ELSE Raw
    <3>1. i < Len(t) /\ i + 1 \in 1 .. VecSize
      BY <1>1, <1>3 DEF Places
    <3> HIDE DEF t
    <3> QED
      BY <1>3, <3>1
  <2> HIDE DEF t
  <2> QED
    BY <2>1 DEF Spread
<1>5. /\ r.v = [w EXCEPT !.space = space2, !.count = VecSize]
      /\ r.bad <=> Harm(w, w.count .. VecSize - 1, 0 .. w.count - 1, {})
  <2>1. r.v = [w EXCEPT !.space = [i \in Places |-> e], !.count = VecSize]
    BY DEF FillVec
  <2> QED
    BY <2>1 DEF FillVec
<1> HIDE DEF t, w, r, space2
<1>6. VecHolds(r.v, t) /\ r.v.buf = w.buf
  <2>1. r.v = Refilled(w, Spread(t), Len(t))
    <3>1. w \in Vector
      BY <1>2 DEF VecHolds
    <3> QED
      BY <1>3, <1>4, <1>5, <3>1, OtherOrder, ZenonT(60)
  <2>2. Len(t) <= Capacity(w)
    BY <1>2, <1>3
  <2> QED
    BY <1>2, <1>3, <2>1, <2>2, FilledHolds
<1>7. ~r.bad
  <2> DEFINE c == w.count .. VecSize - 1
             a == 0 .. w.count - 1
             d == {}
  <2>1. Capacity(w) \in Nat
    BY <1>2, HoldsObjects
  <2>2. c \subseteq Nat /\ \A i \in c : i >= Len(s) /\ i < Capacity(w)
    BY <1>1, <1>2, <2>1
  <2>3. a \subseteq Nat /\ \A i \in a : (i < Len(s) \/ i \in c) /\ i < Capacity(w)
    BY <1>1, <1>2, <2>1
  <2>4. \A i \in d : i \in Nat /\ (i < Len(s) \/ i \in c)
    OBVIOUS
  <2>5. r.bad <=> Harm(w, c, a, d)
    BY <1>5
  <2> HIDE DEF c, a, d
  <2>6. ~Harm(w, c, a, d)
    BY <1>2, <2>2, <2>3, <2>4, NoHarm
  <2> QED
    BY <2>5, <2>6
<1> QED
  BY <1>2, <1>6, <1>7 DEF Done, t, r

LEMMA AssignDone ==
    ASSUME VecBuffers, NEW v, NEW s, VecHolds(v, s), NEW es \in Seq(Elems), NEW t,
           t = SubSeq(es, 1, IF Len(es) < VecSize THEN Len(es) ELSE VecSize)
    PROVE  Done(AssignVec(v, es), v, t)
<1> DEFINE w == CheckRealloc(ClearVec(v), Len(es))
           n == IF Len(es) < VecSize THEN Len(es) ELSE VecSize
           r == AssignVec(v, es)
           space2 == [i \in Places |-> IF i < n THEN es[i + 1] ELSE Raw]
<1>1. VecSize \in Nat /\ VecFixed \in Nat /\ VecFixed <= VecSize /\ Len(es) \in Nat
  BY VecAssumption
<1>2. n \in Nat /\ n <= VecSize /\ n <= Len(es)
  BY <1>1
<1>3. VecHolds(ClearVec(v), <<>>) /\ ClearVec(v).buf = v.buf
  BY VecClearHolds
<1>4. /\ VecHolds(w, <<>>)
      /\ Len(es) <= VecSize => Len(es) <= Capacity(w)
      /\ w.buf = v.buf \/ w.buf \notin heap
  BY <1>1, <1>3, ReallocKeeps
<1>5. n <= Capacity(w)
  <2>1. Capacity(w) = VecFixed \/ Capacity(w) = VecSize
    BY DEF Capacity
  <2>2. CASE Len(es) <= VecSize
    BY <1>1, <1>2, <1>4, <2>1, <2>2
  <2>3. CASE ~(Len(es) <= VecSize)
    <3>1. w.buf # 0 \/ Len(es) <= VecFixed
      <4>1. CASE ClearVec(v).buf # 0
        BY <4>1 DEF CheckRealloc
      <4>2. CASE ClearVec(v).buf = 0 /\ ~(Len(es) <= VecFixed)
        <5> DEFINE b == CHOOSE x \in Buffers : x \notin heap
                   u == ClearVec(v)
        <5>1. w = [u EXCEPT !.buf = b]
          BY <4>2 DEF CheckRealloc
        <5>2. b \in Buffers
          BY BufferLeft
        <5>3. u \in Vector
          BY <1>3 DEF VecHolds
        <5> HIDE DEF b, u, w
        <5>4. w.buf = b
          BY <5>1, <5>3 DEF Vector
        <5>5. Cardinality(Vectors) \in Nat
          BY VecAssumption, FS_CardinalityType
        <5> QED
          BY <5>2, <5>4, <5>5 DEF Buffers
      <4> QED
        BY <4>1, <4>2
    <3>2. Capacity(w) = VecSize
      BY <1>1, <2>3, <3>1 DEF Capacity
    <3> QED
      BY <1>2, <3>2
  <2> QED
    BY <2>2, <2>3
<1>6. /\ r.v = [w EXCEPT !.count = n, !.space = space2]
      /\ r.bad <=> Harm(w, 0 .. n - 1, {}, {})
  BY DEF AssignVec
<1>7. t \in Seq(Elems) /\ Len(t) = n /\ \A k \in 1 .. n : t[k] = es[k]
  <2>1. t = SubSeq(es, 1, n)
    OBVIOUS
  <2> HIDE DEF n
  <2> QED
    BY <1>1, <1>2, <2>1
<1>8. space2 = Spread(t)
  <2>1. ASSUME NEW i \in Places
        PROVE  (IF i < n THEN es[i + 1] ELSE Raw) = IF i < Len(t) THEN t[i + 1] ELSE Raw
    <3>1. i < n => i + 1 \in 1 .. n
      BY <1>1, <1>2 DEF Places
    <3> HIDE DEF n
    <3> QED
      BY <1>7, <3>1
  <2> HIDE DEF n
  <2> QED
    BY <2>1 DEF Spread
<1> HIDE DEF w, r, space2, n
<1>9. VecHolds(r.v, t) /\ r.v.buf = w.buf
  <2>1. r.v = Refilled(w, Spread(t), Len(t))
    BY <1>6, <1>7, <1>8 DEF Refilled
  <2>2. Len(t) <= Capacity(w)
    BY <1>5, <1>7
  <2> QED
    BY <1>4, <1>7, <2>1, <2>2, FilledHolds
<1>10. ~r.bad
  <2> DEFINE c == 0 .. n - 1
             a == {}
             s0 == <<>>
  <2>1. Capacity(w) \in Nat
    BY <1>4, HoldsObjects
  <2>2. Len(s0) = 0 /\ VecHolds(w, s0)
    BY <1>4
  <2> HIDE DEF s0
  <2>3. c \subseteq Nat /\ \A i \in c : i >= Len(s0) /\ i < Capacity(w)
    BY <1>2, <1>5, <2>1, <2>2
  <2>4. a \subseteq Nat /\ \A i \in a : (i < Len(s0) \/ i \in c) /\ i < Capacity(w)
    OBVIOUS
  <2>5. \A i \in a : i \in Nat /\ (i < Len(s0) \/ i \in c)
    OBVIOUS
  <2>6. r.bad <=> Harm(w, c, a, a)
    BY <1>6
  <2> HIDE DEF c, a
  <2>7. ~Harm(w, c, a, a)
    BY <2>2, <2>3, <2>4, <2>5, NoHarm
  <2> QED
    BY <2>6, <2>7
<1> QED
  BY <1>4, <1>9, <1>10 DEF Done, r

LEMMA CopyDone ==
    ASSUME VecBuffers, NEW v, NEW s, VecHolds(v, s), NEW other, NEW t, VecHolds(other, t)
    PROVE  Done(CopyVec(v, other), v, t)
<1> DEFINE w == CheckRealloc(v, other.count)
           both == IF w.count < other.count THEN w.count ELSE other.count
           r == CopyVec(v, other)
<1>1. /\ VecSize \in Nat /\ Len(s) \in Nat /\ Len(t) \in Nat /\ Len(t) <= VecSize
      /\ other.count = Len(t) /\ t \in Seq(Elems) /\ other \in Vector
  BY VecAssumption, HoldsObjects DEF VecHolds
<1>2. /\ VecHolds(w, s) /\ w.count = Len(s) /\ Len(t) <= Capacity(w)
      /\ w.buf = v.buf \/ w.buf \notin heap
  <2>1. /\ VecHolds(w, s) /\ w.count = v.count
        /\ other.count <= VecSize => other.count <= Capacity(w)
        /\ w.buf = v.buf \/ w.buf \notin heap
    BY <1>1, ReallocKeeps
  <2> QED
    BY <1>1, <2>1 DEF VecHolds
<1>3. /\ r.v = [w EXCEPT !.count = other.count, !.space = other.space]
      /\ r.bad <=> Harm(w, both .. other.count - 1, 0 .. both - 1,
                        other.count .. w.count - 1)
  BY DEF CopyVec
<1>4. other.space = Spread(t)
  <2>1. other.space = [i \in Places |-> other.space[i]]
    BY <1>1 DEF Vector
  <2>2. \A i \in Places : other.space[i] = IF i < Len(t) THEN t[i + 1] ELSE Raw
    BY DEF VecHolds
  <2> QED
    BY <2>1, <2>2 DEF Spread
<1>5. /\ both \in Nat /\ both <= Len(s) /\ both <= Len(t)
      /\ both = Len(s) \/ both = Len(t)
  BY <1>1, <1>2
<1> HIDE DEF w, r, both
<1>6. VecHolds(r.v, t) /\ r.v.buf = w.buf
  <2>1. r.v = Refilled(w, Spread(t), Len(t))
    BY <1>1, <1>3, <1>4 DEF Refilled
  <2> QED
    BY <1>1, <1>2, <2>1, FilledHolds
<1>7. ~r.bad
  <2> DEFINE c == both .. other.count - 1
             a == 0 .. both - 1
             d == other.count .. w.count - 1
  <2>1. Capacity(w) \in Nat
    BY <1>2, HoldsObjects
  <2>2. c \subseteq Nat /\ \A i \in c : i >= Len(s) /\ i < Capacity(w)
    BY <1>1, <1>2, <1>5, <2>1
  <2>3. a \subseteq Nat /\ \A i \in a : (i < Len(s) \/ i \in c) /\ i < Capacity(w)
    BY <1>1, <1>2, <1>5, <2>1
  <2>4. \A i \in d : i \in Nat /\ (i < Len(s) \/ i \in c)
    BY <1>1, <1>2
  <2>5. r.bad <=> Harm(w, c, a, d)
    BY <1>3
  <2> HIDE DEF c, a, d
  <2>6. ~Harm(w, c, a, d)
    BY <1>2, <2>2, <2>3, <2>4, NoHarm
  <2> QED
    BY <2>5, <2>6
<1> QED
  BY <1>2, <1>6, <1>7 DEF Done, r

LEMMA MoveDone ==
    ASSUME NEW v, NEW other, NEW t, VecHolds(other, t)
    PROVE  /\ VecHolds(MoveVec(v, other).v, t) /\ ~MoveVec(v, other).bad
           /\ other.buf = 0 => MoveVec(v, other).v.buf = 0
           /\ other.buf # 0 => MoveVec(v, other).v.buf = other.buf
<1>1. CASE other.buf # 0
  BY <1>1 DEF MoveVec
<1>2. CASE other.buf = 0
  <2> DEFINE r == MoveVec(v, other)
             s0 == <<>>
  <2>1. /\ VecFixed \in Nat /\ Len(t) \in Nat /\ Len(t) <= VecFixed
        /\ other.count = Len(t) /\ t \in Seq(Elems) /\ other \in Vector
    BY <1>2, VecAssumption, HoldsObjects DEF VecHolds, Capacity
  <2>2. Empty.buf = 0 /\ VecHolds(Empty, s0) /\ Len(s0) = 0 /\ Capacity(Empty) = VecFixed
    BY EmptyHolds DEF Empty, Capacity
  <2>3. /\ r.v = [Empty EXCEPT !.space = other.space, !.count = other.count]
        /\ r.bad <=> Harm(Empty, 0 .. other.count - 1, {}, {})
    BY <1>2 DEF MoveVec
  <2>4. other.space = Spread(t)
    <3>1. other.space = [i \in Places |-> other.space[i]]
      BY <2>1 DEF Vector
    <3>2. \A i \in Places : other.space[i] = IF i < Len(t) THEN t[i + 1] ELSE Raw
      BY DEF VecHolds
    <3> QED
      BY <3>1, <3>2 DEF Spread
  <2> HIDE DEF r, s0
  <2>5. VecHolds(r.v, t) /\ r.v.buf = Empty.buf
    <3>1. r.v = Refilled(Empty, Spread(t), Len(t))
      <4>1. Empty \in Vector
        BY <2>2 DEF VecHolds
      <4> DEFINE w == Empty
      <4> HIDE DEF w
      <4>2. w \in Vector /\ r.v = [w EXCEPT !.space = Spread(t), !.count = Len(t)]
        BY <2>1, <2>3, <2>4, <4>1 DEF w
      <4>3. r.v = Refilled(w, Spread(t), Len(t))
        BY <4>2, OtherOrder
      <4> QED
        BY <4>3 DEF w
    <3>2. Len(t) <= Capacity(Empty)
      BY <2>1, <2>2
    <3> QED
      BY <2>1, <2>2, <3>1, <3>2, FilledHolds
  <2>6. ~r.bad
    <3> DEFINE c == 0 .. other.count - 1
               a == {}
    <3>1. c \subseteq Nat /\ \A i \in c : i >= Len(s0) /\ i < Capacity(Empty)
      BY <2>1, <2>2
    <3>2. a \subseteq Nat /\ \A i \in a : (i < Len(s0) \/ i \in c) /\ i < Capacity(Empty)
      OBVIOUS
    <3>3. \A i \in a : i \in Nat /\ (i < Len(s0) \/ i \in c)
      OBVIOUS
    <3>4. r.bad <=> Harm(Empty, c, a, a)
      BY <2>3
    <3> HIDE DEF c, a
    <3>5. ~Harm(Empty, c, a, a)
      BY <2>2, <3>1, <3>2, <3>3, NoHarm
    <3> QED
      BY <3>4, <3>5
  <2> QED
    BY <1>2, <2>2, <2>5, <2>6 DEF r
<1> QED
  BY <1>1, <1>2

-----------------------------------------------------------------------------
(* The steps. *)

(* The buffers when one vector ends up with the buffer new.                *)
LEMMA BuffersStep ==
    ASSUME VecBuffers, NEW o \in Vectors, NEW new,
           new = vec[o].buf \/ new = 0 \/ new \notin heap,
           \A p \in Vectors : vec'[p].buf = IF p = o THEN new ELSE vec[p].buf,
           heap' = (heap \ {vec[o].buf}) \cup ({new} \ {0})
    PROVE  VecBuffers'
<1>1. /\ \A b : b \in heap <=> b # 0 /\ \E p \in Vectors : vec[p].buf = b
      /\ \A p, q \in Vectors : p # q /\ vec[p].buf # 0 => vec[p].buf # vec[q].buf
  BY DEF VecBuffers
<1>2. ASSUME NEW p \in Vectors, p # o, vec[p].buf # 0
      PROVE  vec[p].buf \in heap /\ vec[p].buf # vec[o].buf /\ vec[p].buf # new
  BY <1>1, <1>2
<1>3. ASSUME NEW p \in Vectors, NEW q \in Vectors, p # q, vec'[p].buf # 0
      PROVE  vec'[p].buf # vec'[q].buf
  <2>1. CASE p = o
    <3>1. vec'[p].buf = new /\ vec'[q].buf = vec[q].buf /\ q # o
      BY <1>3, <2>1
    <3>2. vec[q].buf = 0 \/ vec[q].buf # new
      BY <1>2, <3>1
    <3> QED
      BY <1>3, <3>1, <3>2
  <2>2. CASE q = o
    <3>1. vec'[q].buf = new /\ vec'[p].buf = vec[p].buf /\ p # o
      BY <1>3, <2>2
    <3> QED
      BY <1>2, <1>3, <3>1
  <2>3. CASE p # o /\ q # o
    BY <1>1, <1>3, <2>3
  <2> QED
    BY <2>1, <2>2, <2>3
<1>4. ASSUME NEW b
      PROVE  b \in heap' <=> b # 0 /\ \E p \in Vectors : vec'[p].buf = b
  <2>1. ASSUME b \in heap'
        PROVE  b # 0 /\ \E p \in Vectors : vec'[p].buf = b
    <3>1. CASE b = new /\ new # 0
      BY <3>1
    <3>2. CASE b \in heap /\ b # vec[o].buf
      <4>1. PICK p \in Vectors : vec[p].buf = b /\ b # 0
        BY <1>1, <3>2
      <4>2. p # o
        BY <3>2, <4>1
      <4>3. vec'[p].buf = b
        BY <4>1, <4>2
      <4> QED
        BY <4>1, <4>3
    <3> QED
      BY <2>1, <3>1, <3>2
  <2>2. ASSUME b # 0, NEW p \in Vectors, vec'[p].buf = b
        PROVE  b \in heap'
    <3>1. CASE p = o
      BY <2>2, <3>1
    <3>2. CASE p # o
      <4>1. vec[p].buf = b
        BY <2>2, <3>2
      <4> QED
        BY <1>2, <2>2, <3>2, <4>1
    <3> QED
      BY <3>1, <3>2
  <2> QED
    BY <2>1, <2>2
<1>5. heap' = {vec'[p].buf : p \in Vectors} \ {0}
  BY <1>4
<1> QED
  BY <1>3, <1>5 DEF VecBuffers

(* An operation that is done leaves the invariant. *)
LEMMA StepDone ==
    ASSUME VecInv, Fresh, NEW o \in Vectors, NEW r, NEW s,
           VecStep(o, r), Becomes(o, s), Done(r, vec[o], s), ~odd'
    PROVE  VecInv'
<1>1. /\ vec' = [vec EXCEPT ![o] = r.v] /\ vseq' = [vseq EXCEPT ![o] = s]
      /\ vbad' = (vbad \/ r.bad) /\ ~vbad /\ ~odd /\ ~r.bad
      /\ heap' = (heap \ {vec[o].buf}) \cup ({r.v.buf} \ {0})
      /\ DOMAIN vec = Vectors /\ DOMAIN vseq = Vectors
  BY DEF VecStep, Becomes, Done, Fresh, VecInv
<1>2. /\ DOMAIN vec' = Vectors /\ DOMAIN vseq' = Vectors
      /\ vec' = [p \in Vectors |-> vec'[p]] /\ vseq' = [p \in Vectors |-> vseq'[p]]
      /\ vec'[o] = r.v /\ vseq'[o] = s
      /\ \A p \in Vectors : p # o => vec'[p] = vec[p] /\ vseq'[p] = vseq[p]
  BY <1>1
<1>3. AllHold'
  <2>1. \A p \in Vectors : VecHolds(vec[p], vseq[p])
    BY <1>1 DEF VecInv, AllHold
  <2>2. \A p \in Vectors : VecHolds(vec'[p], vseq'[p])
    BY <1>2, <2>1 DEF Done
  <2> QED
    BY <2>2 DEF AllHold
<1>4. VecBuffers'
  <2>1. \A p \in Vectors : vec'[p].buf = IF p = o THEN r.v.buf ELSE vec[p].buf
    BY <1>2
  <2>2. r.v.buf = vec[o].buf \/ r.v.buf = 0 \/ r.v.buf \notin heap
    BY DEF Done
  <2> QED
    BY <1>1, <2>1, <2>2, BuffersStep DEF VecInv
<1>5. ~vbad'
  BY <1>1
<1> QED
  BY <1>2, <1>3, <1>4, <1>5 DEF VecInv

(* insert(pos, n, v) with fewer than n behind pos: the buffers, still. *)
LEMMA InsertBuffers ==
    ASSUME VecInv, Fresh, NEW o \in Vectors, NEW pos, NEW n, NEW e, NEW s,
           pos \in Nat, n \in Nat, e \in Elems, CanInsert(vec[o], pos, n),
           VecStep(o, InsertVec(vec[o], pos, n, e)), Becomes(o, s), odd'
    PROVE  VecInv'
<1> DEFINE v == vec[o]
           w == CheckRealloc(v, v.count + n)
           r == InsertVec(v, pos, n, e)
<1>1. /\ vec' = [vec EXCEPT ![o] = r.v] /\ vseq' = [vseq EXCEPT ![o] = s]
      /\ heap' = (heap \ {vec[o].buf}) \cup ({r.v.buf} \ {0})
      /\ DOMAIN vec = Vectors /\ DOMAIN vseq = Vectors
  BY DEF VecStep, Becomes, VecInv
<1>2. /\ DOMAIN vec' = Vectors /\ DOMAIN vseq' = Vectors
      /\ vec' = [p \in Vectors |-> vec'[p]] /\ vseq' = [p \in Vectors |-> vseq'[p]]
      /\ vec'[o] = r.v /\ \A p \in Vectors : p # o => vec'[p] = vec[p]
  BY <1>1
<1>3. VecHolds(v, vseq[o]) /\ v.count \in Nat /\ v.count + n \in Nat
  BY DEF VecInv, Fresh, AllHold, VecHolds
<1>4. w \in Vector /\ (w.buf = v.buf \/ w.buf \notin heap)
  <2>1. VecHolds(w, vseq[o]) /\ (w.buf = v.buf \/ w.buf \notin heap)
    BY <1>3, ReallocKeeps DEF VecInv
  <2> QED
    BY <2>1 DEF VecHolds
<1>5. r.v.buf = w.buf
  <2> DEFINE j == Inject(v, pos, n)
  <2>1. PICK m, sp : j.v = [w EXCEPT !.count = m, !.space = sp]
    BY DEF Inject
  <2>2. PICK sq : r.v = [j.v EXCEPT !.space = sq]
    BY DEF InsertVec
  <2> HIDE DEF j, w, r
  <2> QED
    BY <1>4, <2>1, <2>2 DEF Vector
<1> HIDE DEF r, w
<1>6. VecBuffers'
  <2>1. \A p \in Vectors : vec'[p].buf = IF p = o THEN r.v.buf ELSE vec[p].buf
    BY <1>2
  <2>2. r.v.buf = vec[o].buf \/ r.v.buf = 0 \/ r.v.buf \notin heap
    BY <1>4, <1>5
  <2> QED
    BY <1>1, <2>1, <2>2, BuffersStep DEF VecInv
<1> QED
  BY <1>2, <1>6 DEF VecInv

LEMMA VecStutter ==
    ASSUME VecInv, UNCHANGED vvars
    PROVE  VecInv'
  BY DEF vvars, VecInv, AllHold, VecBuffers

LEMMA InsertStep ==
    ASSUME VecInv, NEW o \in Vectors, NEW pos \in 0 .. VecSize, NEW n \in 0 .. 2,
           NEW e \in Elems, VecInsert(o, pos, n, e)
    PROVE  VecInv'
<1> DEFINE v == vec[o]
           s == vseq[o]
           tail == v.count - pos
           t == Replaced(s, pos, 0, [i \in 1 .. n |-> e])
<1>1. Fresh /\ pos <= v.count /\ pos \in Nat /\ n \in Nat
  BY VecAssumption DEF VecInsert
<1>2. CASE ~CanInsert(v, pos, n)
  BY <1>2, VecStutter DEF VecInsert
<1>3. CASE CanInsert(v, pos, n)
  <2>1. VecHolds(v, s) /\ v.count = Len(s) /\ Len(s) \in Nat /\ VecSize \in Nat
    BY <1>1, VecAssumption DEF VecInv, Fresh, AllHold, VecHolds
  <2>2. /\ VecStep(o, InsertVec(v, pos, n, e))
        /\ odd' = (tail > 0 /\ n > tail)
        /\ Becomes(o, IF Len(s) + n > VecSize THEN s ELSE t)
    BY <1>3 DEF VecInsert
  <2>3. CASE odd'
    BY <1>1, <1>3, <2>2, <2>3, InsertBuffers
  <2>4. CASE ~odd'
    <3>1. tail = 0 \/ n <= tail
      <4>1. ~(tail > 0 /\ n > tail)
        BY <2>2, <2>4
      <4>2. tail \in Nat /\ n \in Nat
        BY <1>1, <2>1
      <4> HIDE DEF tail
      <4> QED
        BY <4>1, <4>2
    <3>2. Done(InsertVec(v, pos, n, e), v, t)
      <4>1. VecBuffers
        BY DEF VecInv
      <4>2. v.count - pos = 0 \/ n <= v.count - pos
        BY <3>1
      <4>3. WithPut(t, s, pos, n, e)
        <5>1. t = Replaced(s, pos, 0, [i \in 1 .. n |-> e])
          OBVIOUS
        <5>2. s \in Seq(Elems) /\ pos <= Len(s)
          BY <1>1, <2>1 DEF VecHolds
        <5> HIDE DEF t, s
        <5> QED
          BY <1>1, <5>1, <5>2, InsertedIs
      <4> HIDE DEF v, s, t
      <4> QED
        BY <1>1, <1>3, <2>1, <4>1, <4>2, <4>3, InsertDone
    <3>3. ~(Len(s) + n > VecSize)
      BY <1>1, <1>3, <2>1 DEF CanInsert
    <3>4. Becomes(o, t)
      BY <2>2, <3>3
    <3> QED
      BY <1>1, <2>2, <2>4, <3>2, <3>4, StepDone
  <2> QED
    BY <2>3, <2>4
<1> QED
  BY <1>2, <1>3

LEMMA EraseStep ==
    ASSUME VecInv, NEW o \in Vectors, NEW first \in Places, NEW last \in 1 .. VecSize,
           VecErase(o, first, last)
    PROVE  VecInv'
<1> DEFINE t == Replaced(vseq[o], first, last - first, <<>>)
<1>1. /\ Fresh /\ first < last /\ last <= vec[o].count /\ first \in Nat /\ last \in Nat
      /\ VecStep(o, EraseVec(vec[o], first, last)) /\ Becomes(o, t) /\ ~odd'
  BY VecAssumption DEF Fresh, VecErase, Places
<1>2. VecHolds(vec[o], vseq[o]) /\ vec[o].count = Len(vseq[o]) /\ vseq[o] \in Seq(Elems)
  BY <1>1 DEF VecInv, Fresh, AllHold, VecHolds
<1>3. WithCut(t, vseq[o], first, last)
  <2>1. first <= last /\ last <= Len(vseq[o])
    BY <1>1, <1>2
  <2>2. t = Replaced(vseq[o], first, last - first, <<>>)
    OBVIOUS
  <2> HIDE DEF t
  <2> QED
    BY <1>1, <1>2, <2>1, <2>2, DeletedIs
<1> HIDE DEF t
<1>4. Done(EraseVec(vec[o], first, last), vec[o], t)
  BY <1>1, <1>2, <1>3, EraseDone
<1> QED
  BY <1>1, <1>4, StepDone

LEMMA PopStep ==
    ASSUME VecInv, NEW o \in Vectors, VecPopBack(o)
    PROVE  VecInv'
<1> DEFINE s == vseq[o]
           c == vec[o].count
           t == SubSeq(s, 1, Len(s) - 1)
<1>1. /\ Fresh /\ c > 0
      /\ VecStep(o, EraseVec(vec[o], c - 1, c)) /\ Becomes(o, t) /\ ~odd'
  BY DEF Fresh, VecPopBack
<1>2. VecHolds(vec[o], s) /\ c = Len(s) /\ s \in Seq(Elems) /\ c \in Nat
  BY <1>1 DEF VecInv, Fresh, AllHold, VecHolds
<1>3. WithCut(t, s, c - 1, c)
  <2>1. WithCut(SubSeq(s, 1, Len(s) - 1), s, Len(s) - 1, Len(s))
    BY <1>1, <1>2, PopIs
  <2> QED
    BY <1>2, <2>1
<1>4. c - 1 \in Nat /\ c - 1 < c /\ c <= c
  BY <1>1, <1>2
<1> HIDE DEF t
<1>5. Done(EraseVec(vec[o], c - 1, c), vec[o], t)
  BY <1>2, <1>3, <1>4, EraseDone
<1> QED
  BY <1>1, <1>5, StepDone

LEMMA VecMoveStep ==
    ASSUME VecInv, NEW o \in Vectors, NEW p \in Vectors, VecMove(o, p)
    PROVE  VecInv'
<1> DEFINE r == MoveVec(vec[o], vec[p])
           given == vec[p].buf # 0
<1>1. /\ Fresh /\ o # p
      /\ vec' = [vec EXCEPT ![o] = r.v, ![p] = MovedFrom(vec[p])]
      /\ vbad' = (vbad \/ r.bad)
      /\ heap' = heap \ {vec[o].buf}
      /\ vseq' = [vseq EXCEPT ![o] = vseq[p], ![p] = IF given THEN <<>> ELSE vseq[p]]
      /\ ~odd'
      /\ DOMAIN vec = Vectors /\ DOMAIN vseq = Vectors
  BY DEF VecMove, VecInv, Fresh
<1>2. \A q \in Vectors : VecHolds(vec[q], vseq[q])
  BY <1>1 DEF VecInv, Fresh, AllHold
<1>3. /\ VecHolds(r.v, vseq[p]) /\ ~r.bad
      /\ vec[p].buf = 0 => r.v.buf = 0
      /\ vec[p].buf # 0 => r.v.buf = vec[p].buf
  BY <1>2, MoveDone
<1> HIDE DEF r
<1>4. /\ DOMAIN vec' = Vectors /\ DOMAIN vseq' = Vectors
      /\ vec' = [q \in Vectors |-> vec'[q]] /\ vseq' = [q \in Vectors |-> vseq'[q]]
      /\ vec'[o] = r.v /\ vseq'[o] = vseq[p]
      /\ vec'[p] = MovedFrom(vec[p]) /\ vseq'[p] = IF given THEN <<>> ELSE vseq[p]
      /\ \A q \in Vectors : q # o /\ q # p => vec'[q] = vec[q] /\ vseq'[q] = vseq[q]
  BY <1>1
<1>5. VecHolds(vec'[p], vseq'[p]) /\ vec'[p].buf = 0
  <2>1. Empty.buf = 0
    BY DEF Empty
  <2>2. CASE given
    BY <1>4, <2>1, <2>2, EmptyHolds DEF MovedFrom
  <2>3. CASE ~given
    BY <1>2, <1>4, <2>3 DEF MovedFrom
  <2> QED
    BY <2>2, <2>3
<1>6. AllHold'
  <2>1. ASSUME NEW q \in Vectors PROVE VecHolds(vec'[q], vseq'[q])
    <3>1. CASE q = o
      BY <1>3, <1>4, <3>1
    <3>2. CASE q = p
      BY <1>5, <3>2
    <3>3. CASE q # o /\ q # p
      BY <1>2, <1>4, <3>3
    <3> QED
      BY <3>1, <3>2, <3>3
  <2> QED
    BY <2>1 DEF AllHold
<1>7. vec'[o].buf = vec[p].buf
  BY <1>3, <1>4
<1>8. VecBuffers'
  <2>1. /\ \A b : b \in heap <=> b # 0 /\ \E q \in Vectors : vec[q].buf = b
        /\ \A q, u \in Vectors : q # u /\ vec[q].buf # 0 => vec[q].buf # vec[u].buf
    BY DEF VecInv, VecBuffers
  <2>2. \A q \in Vectors : q # o /\ q # p => vec'[q].buf = vec[q].buf
    BY <1>4
  <2>3. ASSUME NEW q \in Vectors, NEW u \in Vectors, q # u, vec'[q].buf # 0
        PROVE  vec'[q].buf # vec'[u].buf
    <3>1. q # p
      BY <1>5, <2>3
    <3>2. CASE u = p
      BY <1>5, <2>3, <3>2
    <3>3. CASE q = o /\ u # p
      <4>1. vec'[q].buf = vec[p].buf /\ vec'[u].buf = vec[u].buf
        BY <1>7, <2>2, <2>3, <3>3
      <4> QED
        BY <2>1, <2>3, <3>3, <4>1
    <3>4. CASE u = o
      <4>1. vec'[u].buf = vec[p].buf /\ vec'[q].buf = vec[q].buf
        BY <1>7, <2>2, <2>3, <3>1, <3>4
      <4> QED
        BY <2>1, <2>3, <3>1, <4>1
    <3>5. CASE q # o /\ u # o /\ u # p
      <4>1. vec'[u].buf = vec[u].buf /\ vec'[q].buf = vec[q].buf
        BY <2>2, <3>1, <3>5
      <4> QED
        BY <2>1, <2>3, <4>1
    <3> QED
      BY <3>2, <3>3, <3>4, <3>5
  <2>4. ASSUME NEW b
        PROVE  b \in heap' <=> b # 0 /\ \E q \in Vectors : vec'[q].buf = b
    <3>1. ASSUME b \in heap'
          PROVE  b # 0 /\ \E q \in Vectors : vec'[q].buf = b
      <4>1. b \in heap /\ b # vec[o].buf
        BY <1>1, <3>1
      <4>2. PICK q \in Vectors : vec[q].buf = b /\ b # 0
        BY <2>1, <4>1
      <4>3. q # o
        BY <4>1, <4>2
      <4>4. CASE q = p
        BY <1>7, <4>2, <4>4
      <4>5. CASE q # p
        BY <2>2, <4>2, <4>3, <4>5
      <4> QED
        BY <4>2, <4>4, <4>5
    <3>2. ASSUME b # 0, NEW q \in Vectors, vec'[q].buf = b
          PROVE  b \in heap'
      <4>1. q # p
        BY <1>5, <3>2
      <4>2. PICK u \in Vectors : u # o /\ vec[u].buf = b
        <5>1. CASE q = o
          BY <1>1, <1>7, <3>2, <5>1
        <5>2. CASE q # o
          BY <2>2, <3>2, <4>1, <5>2
        <5> QED
          BY <5>1, <5>2
      <4>3. b \in heap /\ vec[u].buf # vec[o].buf
        BY <2>1, <3>2, <4>2
      <4> QED
        BY <1>1, <4>2, <4>3
    <3> QED
      BY <3>1, <3>2
  <2>5. heap' = {vec'[q].buf : q \in Vectors} \ {0}
    BY <2>4
  <2> QED
    BY <2>3, <2>5 DEF VecBuffers
<1>9. ~vbad'
  BY <1>1, <1>3 DEF Fresh
<1> QED
  BY <1>4, <1>6, <1>8, <1>9 DEF VecInv

LEMMA VecCopyStep ==
    ASSUME VecInv, NEW o \in Vectors, NEW p \in Vectors, VecCopy(o, p)
    PROVE  VecInv'
<1>1. Fresh /\ Becomes(o, vseq[p]) /\ ~odd'
  BY DEF Fresh, VecCopy
<1>2. VecHolds(vec[o], vseq[o]) /\ VecHolds(vec[p], vseq[p]) /\ VecBuffers
  BY <1>1 DEF VecInv, Fresh, AllHold
<1>3. CASE VecStep(o, CopyVec(vec[o], vec[p]))
  <2>1. Done(CopyVec(vec[o], vec[p]), vec[o], vseq[p])
    BY <1>2, CopyDone
  <2> QED
    BY <1>1, <1>3, <2>1, StepDone
<1>4. CASE VecStep(o, RebuildVec(vec[o], vec[p]))
  <2>1. Done(CopyVec(Empty, vec[p]), Empty, vseq[p])
    BY <1>2, EmptyHolds, CopyDone
  <2>2. Empty.buf = 0
    BY DEF Empty
  <2>3. Done(RebuildVec(vec[o], vec[p]), vec[o], vseq[p])
    BY <2>1, <2>2 DEF Done, RebuildVec
  <2> QED
    BY <1>1, <1>4, <2>3, StepDone
<1> QED
  BY <1>3, <1>4 DEF VecCopy

LEMMA ClearStep ==
    ASSUME VecInv, NEW o \in Vectors, VecClear(o)
    PROVE  VecInv'
<1> DEFINE r == [v |-> ClearVec(vec[o]), bad |-> FALSE]
<1>1. Fresh /\ VecStep(o, r) /\ Becomes(o, <<>>) /\ ~odd'
  BY DEF Fresh, VecClear
<1>2. VecHolds(vec[o], vseq[o])
  BY <1>1 DEF VecInv, Fresh, AllHold
<1>3. VecHolds(r.v, <<>>) /\ r.v.buf = vec[o].buf /\ ~r.bad
  BY <1>2, VecClearHolds
<1> HIDE DEF r
<1>4. Done(r, vec[o], <<>>)
  BY <1>3 DEF Done
<1> QED
  BY <1>1, <1>4, StepDone

LEMMA FillStep ==
    ASSUME VecInv, NEW o \in Vectors, NEW e \in Elems, VecFill(o, e)
    PROVE  VecInv'
<1> DEFINE t == [i \in 1 .. VecSize |-> e]
<1>1. Fresh /\ VecStep(o, FillVec(vec[o], e)) /\ Becomes(o, t) /\ ~odd'
  BY DEF Fresh, VecFill
<1>2. VecHolds(vec[o], vseq[o]) /\ VecBuffers
  BY <1>1 DEF VecInv, Fresh, AllHold
<1>3. Done(FillVec(vec[o], e), vec[o], t)
  BY <1>2, FillDone
<1> HIDE DEF t
<1> QED
  BY <1>1, <1>3, StepDone

LEMMA AssignStep ==
    ASSUME VecInv, NEW o \in Vectors, NEW e \in Elems, NEW n \in {1, VecSize + 1},
           VecAssign(o, [i \in 1 .. n |-> e])
    PROVE  VecInv'
<1> DEFINE es == [i \in 1 .. n |-> e]
           t == SubSeq(es, 1, IF Len(es) < VecSize THEN Len(es) ELSE VecSize)
<1>1. Fresh /\ VecStep(o, AssignVec(vec[o], es)) /\ Becomes(o, t) /\ ~odd'
  BY DEF Fresh, VecAssign
<1>2. VecHolds(vec[o], vseq[o]) /\ VecBuffers
  BY <1>1 DEF VecInv, Fresh, AllHold
<1>3. es \in Seq(Elems)
  BY VecAssumption
<1> HIDE DEF es
<1>4. t = SubSeq(es, 1, IF Len(es) < VecSize THEN Len(es) ELSE VecSize)
  OBVIOUS
<1> HIDE DEF t
<1>5. Done(AssignVec(vec[o], es), vec[o], t)
  BY <1>2, <1>3, <1>4, AssignDone
<1> QED
  BY <1>1, <1>5, StepDone

LEMMA VecBegins == VecInit => VecInv
<1> SUFFICES ASSUME VecInit PROVE VecInv
  OBVIOUS
<1>1. Empty.buf = 0
  BY DEF Empty
<1>2. AllHold
  BY EmptyHolds DEF VecInit, AllHold
<1>3. VecBuffers
  BY <1>1 DEF VecInit, VecBuffers
<1> QED
  BY <1>2, <1>3 DEF VecInit, VecInv

(* Whatever is inserted, erased, filled, assigned, copied and moved, a     *)
(* vector holds the sequence its operations promise, constructors and      *)
(* destructors run on the places they should, and every heap buffer        *)
(* belongs to one vector: for every size, every room in the object and     *)
(* every number of vectors.                                                *)
THEOREM VecIsSound == VecSpec => []VecSound
<1>1. ASSUME VecInv, [VecNext]_vvars
      PROVE  VecInv'
  <2>1. CASE UNCHANGED vvars
    BY <1>1, <2>1, VecStutter
  <2>2. ASSUME NEW o \in Vectors,
               \/ \E pos \in 0 .. VecSize, n \in 0 .. 2, e \in Elems : VecInsert(o, pos, n, e)
               \/ \E first \in Places, last \in 1 .. VecSize : VecErase(o, first, last)
               \/ VecPopBack(o)
               \/ VecClear(o)
               \/ \E e \in Elems : VecFill(o, e)
               \/ \E e \in Elems, n \in {1, VecSize + 1} : VecAssign(o, [i \in 1 .. n |-> e])
               \/ \E p \in Vectors : VecCopy(o, p) \/ VecMove(o, p)
        PROVE  VecInv'
    BY <1>1, <2>2, InsertStep, EraseStep, PopStep, ClearStep, FillStep, AssignStep,
       VecCopyStep, VecMoveStep
  <2> QED
    BY <1>1, <2>1, <2>2 DEF VecNext
<1>2. VecInv => VecSound
  <2> SUFFICES ASSUME VecInv PROVE VecSound
    OBVIOUS
  <2>1. VecContents
    <3>1. ASSUME ~odd, NEW o \in Vectors
          PROVE  /\ vec[o].count = Len(vseq[o])
                 /\ \A i \in 1 .. Len(vseq[o]) : vec[o].space[i - 1] = vseq[o][i]
      <4>1. VecHolds(vec[o], vseq[o])
        BY <3>1 DEF VecInv, AllHold
      <4>2. vec[o].count = Len(vseq[o])
        BY <4>1 DEF VecHolds
      <4> QED
        BY <4>1, <4>2, HoldsObjects
    <3> QED
      BY <3>1 DEF VecContents
  <2>2. VecLifetimes
    <3>1. ASSUME ~odd, NEW o \in Vectors
          PROVE  Objects(vec[o]) = 0 .. vec[o].count - 1
      <4>1. VecHolds(vec[o], vseq[o])
        BY <3>1 DEF VecInv, AllHold
      <4>2. vec[o].count = Len(vseq[o])
        BY <4>1 DEF VecHolds
      <4> QED
        BY <4>1, <4>2, HoldsObjects
    <3> QED
      BY <3>1 DEF VecLifetimes, VecInv
  <2> QED
    BY <2>1, <2>2 DEF VecSound, VecInv
<1> QED
  BY VecBegins, <1>1, <1>2, PTL DEF VecSpec

-----------------------------------------------------------------------------
(* Walks along links *)

\* A non-empty set of naturals has a least element.
LEMMA LeastNat ==
    ASSUME NEW S, S \subseteq Nat, S # {}
    PROVE  \E m \in S : \A n \in S : m <= n
<1>1. PICK m \in S : \A n \in S : ~(<<n, m>> \in OpToRel(<, Nat))
  BY NatLessThanWellFounded, WFMin
<1>2. \A n \in S : ~(n < m)
  BY <1>1 DEF OpToRel
<1> QED BY <1>2

\* The i-th node of s, or what a walk ends with.
NodeAt(s, i, e) == IF i <= Len(s) THEN s[i] ELSE e

Among(x, s) == \E i \in 1 .. Len(s) : s[i] = x

\* The links from n on lead through the nodes of s, each once, to e.
Spelled(link, n, e, s) ==
    /\ n = NodeAt(s, 1, e)
    /\ \A i \in 1 .. Len(s) : s[i] # e /\ link[s[i]] = NodeAt(s, i + 1, e)
    /\ \A i, j \in 1 .. Len(s) : s[i] = s[j] => i = j

\* s with id in front of it; s without its k-th node.
InFront(id, s) == [i \in 1 .. Len(s) + 1 |-> IF i = 1 THEN id ELSE s[i - 1]]
Dropped(s, k) == [i \in 1 .. Len(s) - 1 |-> IF i < k THEN s[i] ELSE s[i + 1]]

LEMMA InFrontFacts ==
    ASSUME NEW S, NEW s \in Seq(S), NEW id \in S
    PROVE  /\ InFront(id, s) \in Seq(S) /\ Len(InFront(id, s)) = Len(s) + 1
           /\ InFront(id, s)[1] = id
           /\ \A i \in 1 .. Len(s) : InFront(id, s)[i + 1] = s[i]
           /\ \A x : Among(x, InFront(id, s)) <=> x = id \/ Among(x, s)
<1>1. PICK n \in Nat : n = Len(s)
  OBVIOUS
<1>2. PICK t : t = InFront(id, s)
  OBVIOUS
<1>3. t = [i \in 1 .. n + 1 |-> IF i = 1 THEN id ELSE s[i - 1]]
  BY <1>1, <1>2 DEF InFront
<1>4. t \in [1 .. n + 1 -> S]
  <2>1. ASSUME NEW i \in 1 .. n + 1 PROVE (IF i = 1 THEN id ELSE s[i - 1]) \in S
    <3>1. i # 1 => i - 1 \in 1 .. Len(s)
      BY <1>1
    <3> QED BY <3>1
  <2> QED BY <1>3, <2>1
<1>5. t \in Seq(S) /\ Len(t) = n + 1
  BY <1>4
<1>6. t[1] = id /\ \A i \in 1 .. n : t[i + 1] = s[i]
  <2>1. \A i \in 1 .. n + 1 : t[i] = IF i = 1 THEN id ELSE s[i - 1]
    BY <1>3
  <2>2. ASSUME NEW i \in 1 .. n PROVE t[i + 1] = s[i]
    <3>1. i + 1 \in 1 .. n + 1 /\ i + 1 # 1 /\ (i + 1) - 1 = i
      OBVIOUS
    <3> QED BY <2>1, <3>1
  <2> QED BY <2>1, <2>2
<1>7. ASSUME NEW x PROVE Among(x, t) <=> x = id \/ Among(x, s)
  <2>1. ASSUME Among(x, t), x # id PROVE Among(x, s)
    <3>1. PICK i \in 1 .. n + 1 : t[i] = x
      BY <1>5, <2>1 DEF Among
    <3>2. i # 1
      BY <1>6, <2>1, <3>1
    <3>3. PICK j \in 1 .. n : i = j + 1
      <4>1. i - 1 \in 1 .. n /\ i = (i - 1) + 1
        BY <3>2
      <4> QED BY <4>1
    <3> QED BY <1>1, <1>6, <3>1, <3>3 DEF Among
  <2>2. ASSUME x = id PROVE Among(x, t)
    <3>1. 1 \in 1 .. Len(t)
      BY <1>5
    <3> QED BY <1>6, <2>2, <3>1 DEF Among
  <2>3. ASSUME Among(x, s) PROVE Among(x, t)
    <3>1. PICK i \in 1 .. n : s[i] = x
      BY <1>1, <2>3 DEF Among
    <3>2. i + 1 \in 1 .. Len(t) /\ t[i + 1] = x
      BY <1>5, <1>6, <3>1
    <3> QED BY <3>2 DEF Among
  <2> QED BY <2>1, <2>2, <2>3
<1> QED BY <1>1, <1>2, <1>5, <1>6, <1>7

LEMMA DroppedFacts ==
    ASSUME NEW S, NEW s \in Seq(S), NEW k \in 1 .. Len(s),
           \A i, j \in 1 .. Len(s) : s[i] = s[j] => i = j
    PROVE  /\ Dropped(s, k) \in Seq(S) /\ Len(Dropped(s, k)) = Len(s) - 1
           /\ \A i \in 1 .. Len(s) - 1 : Dropped(s, k)[i] = IF i < k THEN s[i] ELSE s[i + 1]
           /\ \A x : Among(x, Dropped(s, k)) <=> Among(x, s) /\ x # s[k]
<1>1. PICK n \in Nat : n + 1 = Len(s)
  <2>1. Len(s) \in Nat /\ Len(s) # 0
    OBVIOUS
  <2> QED BY <2>1
<1>2. PICK t : t = Dropped(s, k)
  OBVIOUS
<1>3. t = [i \in 1 .. n |-> IF i < k THEN s[i] ELSE s[i + 1]]
  <2>1. Len(s) - 1 = n
    BY <1>1
  <2> QED BY <1>2, <2>1 DEF Dropped
<1>4. t \in [1 .. n -> S]
  <2>1. ASSUME NEW i \in 1 .. n PROVE (IF i < k THEN s[i] ELSE s[i + 1]) \in S
    <3>1. i \in 1 .. Len(s) /\ i + 1 \in 1 .. Len(s)
      BY <1>1
    <3> QED BY <3>1
  <2> QED BY <1>3, <2>1
<1>5. t \in Seq(S) /\ Len(t) = n
  BY <1>4
<1>6. \A i \in 1 .. n : t[i] = IF i < k THEN s[i] ELSE s[i + 1]
  BY <1>3
<1>7. ASSUME NEW x PROVE Among(x, t) <=> Among(x, s) /\ x # s[k]
  <2>1. ASSUME Among(x, t) PROVE Among(x, s) /\ x # s[k]
    <3>1. PICK i \in 1 .. n : t[i] = x
      BY <1>5, <2>1 DEF Among
    <3>2. PICK j \in 1 .. n + 1 : j = IF i < k THEN i ELSE i + 1
      <4>1. i \in 1 .. n + 1 /\ i + 1 \in 1 .. n + 1
        OBVIOUS
      <4> QED BY <4>1
    <3>3. s[j] = x /\ j # k
      BY <1>6, <3>1, <3>2
    <3> QED BY <1>1, <3>3 DEF Among
  <2>2. ASSUME Among(x, s), x # s[k] PROVE Among(x, t)
    <3>1. PICK j \in 1 .. n + 1 : s[j] = x
      BY <1>1, <2>2 DEF Among
    <3>2. j # k /\ k \in 1 .. n + 1
      BY <1>1, <2>2, <3>1
    <3>3. CASE j < k
      <4>1. j \in 1 .. n /\ t[j] = x
        BY <1>6, <3>1, <3>2, <3>3
      <4> QED BY <1>5, <4>1 DEF Among
    <3>4. CASE j > k
      <4>1. j - 1 \in 1 .. n /\ ~(j - 1 < k) /\ (j - 1) + 1 = j
        BY <3>2, <3>4
      <4>2. t[j - 1] = x
        BY <1>6, <3>1, <4>1
      <4> QED BY <1>5, <4>1, <4>2 DEF Among
    <3> QED BY <3>2, <3>3, <3>4
  <2> QED BY <2>1, <2>2
<1>8. Len(s) - 1 = n
  BY <1>1
<1> QED BY <1>2, <1>5, <1>6, <1>7, <1>8

\* The same links spell the same nodes.
LEMMA SpelledStill ==
    ASSUME NEW link, NEW new, NEW n, NEW e, NEW s, Spelled(link, n, e, s),
           \A x : Among(x, s) => new[x] = link[x]
    PROVE  Spelled(new, n, e, s)
BY DEF Spelled, Among

LEMMA SpelledFront ==
    ASSUME NEW S, NEW link, NEW new, NEW n, NEW e, NEW s \in Seq(S), NEW id \in S,
           Spelled(link, n, e, s), id # e, ~Among(id, s), new[id] = n,
           \A x : Among(x, s) => new[x] = link[x]
    PROVE  Spelled(new, id, e, InFront(id, s))
<1>1. PICK t : /\ t = InFront(id, s) /\ t \in Seq(S) /\ Len(t) = Len(s) + 1 /\ t[1] = id
                /\ \A i \in 1 .. Len(s) : t[i + 1] = s[i]
  <2>1. /\ InFront(id, s) \in Seq(S) /\ Len(InFront(id, s)) = Len(s) + 1
        /\ InFront(id, s)[1] = id /\ \A i \in 1 .. Len(s) : InFront(id, s)[i + 1] = s[i]
    BY InFrontFacts
  <2> QED BY <2>1
<1>2. PICK m \in Nat : m = Len(s)
  OBVIOUS
<1>3. Len(t) = m + 1 /\ t[1] = id /\ \A i \in 1 .. m : t[i + 1] = s[i]
  BY <1>1, <1>2
<1>4. id = NodeAt(t, 1, e)
  BY <1>3 DEF NodeAt
<1>5. ASSUME NEW i \in 1 .. m + 1 PROVE t[i] # e /\ new[t[i]] = NodeAt(t, i + 1, e)
  <2>1. CASE i = 1
    <3>1. NodeAt(t, 2, e) = NodeAt(s, 1, e)
      <4>1. CASE m = 0
        BY <1>2, <1>3, <4>1 DEF NodeAt
      <4>2. CASE m # 0
        <5>1. 1 \in 1 .. m /\ 1 + 1 = 2 /\ 2 <= m + 1
          BY <4>2
        <5> QED BY <1>2, <1>3, <5>1 DEF NodeAt
      <4> QED BY <4>1, <4>2
    <3> QED BY <1>3, <2>1, <3>1 DEF Spelled
  <2>2. CASE i # 1
    <3>1. PICK j \in 1 .. m : i = j + 1
      <4>1. i - 1 \in 1 .. m /\ i = (i - 1) + 1
        BY <2>2
      <4> QED BY <4>1
    <3>2. t[i] = s[j]
      BY <1>3, <3>1
    <3>3. NodeAt(t, i + 1, e) = NodeAt(s, j + 1, e)
      <4>1. CASE j = m
        BY <1>2, <1>3, <3>1, <4>1 DEF NodeAt
      <4>2. CASE j # m
        <5>1. j + 1 \in 1 .. m /\ i + 1 = (j + 1) + 1 /\ i + 1 <= m + 1 /\ j + 1 <= m
          BY <3>1, <4>2
        <5> QED BY <1>2, <1>3, <5>1 DEF NodeAt
      <4> QED BY <4>1, <4>2
    <3>4. s[j] # e /\ link[s[j]] = NodeAt(s, j + 1, e) /\ new[s[j]] = link[s[j]]
      BY <1>2 DEF Spelled, Among
    <3> QED BY <3>2, <3>3, <3>4
  <2> QED BY <2>1, <2>2
<1>6. ASSUME NEW i \in 1 .. m + 1, NEW j \in 1 .. m + 1, t[i] = t[j] PROVE i = j
  <2>1. ASSUME NEW k \in 1 .. m + 1, k # 1 PROVE t[k] # id /\ k - 1 \in 1 .. m /\ t[k] = s[k - 1]
    <3>1. k - 1 \in 1 .. m /\ (k - 1) + 1 = k
      BY <2>1
    <3>2. t[k] = s[k - 1]
      BY <1>3, <3>1
    <3> QED BY <1>2, <3>1, <3>2 DEF Among
  <2>2. CASE i = 1 \/ j = 1
    BY <1>3, <1>6, <2>1, <2>2
  <2>3. CASE i # 1 /\ j # 1
    <3>1. i - 1 \in 1 .. m /\ j - 1 \in 1 .. m /\ s[i - 1] = s[j - 1]
      BY <1>6, <2>1, <2>3
    <3>2. i - 1 = j - 1
      BY <1>2, <3>1 DEF Spelled
    <3> QED BY <3>2
  <2> QED BY <2>2, <2>3
<1> QED BY <1>1, <1>3, <1>4, <1>5, <1>6 DEF Spelled

\* A node is taken out: the first, or one whose predecessor is linked past it.
LEMMA SpelledDropped ==
    ASSUME NEW S, NEW link, NEW new, NEW n, NEW m, NEW e, NEW s \in Seq(S), NEW k \in 1 .. Len(s),
           Spelled(link, n, e, s),
           m = IF k = 1 THEN link[s[1]] ELSE n,
           k # 1 => new[s[k - 1]] = link[s[k]],
           \A i \in 1 .. Len(s) : i # k /\ i # k - 1 => new[s[i]] = link[s[i]]
    PROVE  Spelled(new, m, e, Dropped(s, k))
<1>1. PICK t \in Seq(S) : t = Dropped(s, k)
  BY DroppedFacts DEF Spelled
<1>2. PICK l \in Nat : l + 1 = Len(s)
  <2>1. Len(s) \in Nat /\ Len(s) # 0
    OBVIOUS
  <2> QED BY <2>1
<1>3. Len(t) = l /\ \A i \in 1 .. l : t[i] = IF i < k THEN s[i] ELSE s[i + 1]
  <2>1. \A i, j \in 1 .. Len(s) : s[i] = s[j] => i = j
    BY DEF Spelled
  <2>2. /\ Len(Dropped(s, k)) = Len(s) - 1
        /\ \A i \in 1 .. Len(s) - 1 : Dropped(s, k)[i] = IF i < k THEN s[i] ELSE s[i + 1]
    BY <2>1, DroppedFacts
  <2>3. Len(s) - 1 = l
    BY <1>2
  <2> QED BY <1>1, <2>2, <2>3
<1>4. /\ n = NodeAt(s, 1, e)
      /\ \A i \in 1 .. l + 1 : s[i] # e /\ link[s[i]] = NodeAt(s, i + 1, e)
      /\ \A i, j \in 1 .. l + 1 : s[i] = s[j] => i = j
  BY <1>2 DEF Spelled
<1>5. k \in 1 .. l + 1 /\ k \in Nat
  BY <1>2
<1>6. m = NodeAt(t, 1, e)
  <2>1. CASE k = 1
    <3>1. m = NodeAt(s, 2, e)
      <4>1. 1 \in 1 .. l + 1 /\ 1 + 1 = 2
        OBVIOUS
      <4> QED BY <1>4, <2>1, <4>1
    <3>2. CASE l = 0
      <4>1. Len(t) = 0
        BY <1>3, <3>2
      <4>2. Len(s) = 1
        BY <1>2, <3>2
      <4> QED BY <3>1, <4>1, <4>2 DEF NodeAt
    <3>3. CASE l # 0
      <4>1. 1 \in 1 .. l /\ 2 <= Len(s) /\ 1 + 1 = 2 /\ 1 <= Len(t)
        BY <1>2, <1>3, <3>3
      <4> QED BY <1>3, <2>1, <3>1, <4>1 DEF NodeAt
    <3> QED BY <3>2, <3>3
  <2>2. CASE k # 1
    <3>1. 1 \in 1 .. l /\ 1 < k /\ 1 <= Len(s) /\ 1 <= Len(t)
      BY <1>2, <1>3, <1>5, <2>2
    <3> QED BY <1>3, <1>4, <2>2, <3>1 DEF NodeAt
  <2> QED BY <2>1, <2>2
<1>7. ASSUME NEW i \in 1 .. l PROVE t[i] # e /\ new[t[i]] = NodeAt(t, i + 1, e)
  <2>1. i \in 1 .. l + 1 /\ i + 1 \in 1 .. l + 1 /\ i \in Nat
    OBVIOUS
  <2>2. CASE i + 1 < k
    <3>1. t[i] = s[i] /\ i + 1 \in 1 .. l /\ i # k /\ i # k - 1
      BY <1>3, <1>5, <2>1, <2>2
    <3>2. t[i + 1] = s[i + 1] /\ i + 1 <= Len(t) /\ i + 1 <= Len(s)
      BY <1>2, <1>3, <2>2, <3>1
    <3>3. NodeAt(t, i + 1, e) = NodeAt(s, i + 1, e)
      BY <3>2 DEF NodeAt
    <3>4. new[s[i]] = link[s[i]]
      BY <1>2, <2>1, <3>1
    <3> QED BY <1>4, <2>1, <3>1, <3>3, <3>4
  <2>3. CASE i + 1 = k
    <3>1. t[i] = s[i] /\ k # 1 /\ k - 1 = i
      BY <1>3, <2>1, <2>3
    <3>2. new[s[i]] = NodeAt(s, k + 1, e)
      BY <1>4, <1>5, <3>1
    <3>3. NodeAt(t, k, e) = NodeAt(s, k + 1, e)
      <4>1. CASE k = l + 1
        BY <1>2, <1>3, <4>1 DEF NodeAt
      <4>2. CASE k # l + 1
        <5>1. k \in 1 .. l /\ ~(k < k) /\ k <= Len(t) /\ k + 1 <= Len(s)
          BY <1>2, <1>3, <1>5, <4>2
        <5> QED BY <1>3, <5>1 DEF NodeAt
      <4> QED BY <4>1, <4>2
    <3> QED BY <1>4, <2>1, <2>3, <3>1, <3>2, <3>3
  <2>4. CASE i + 1 > k
    <3>1. t[i] = s[i + 1] /\ i + 1 # k /\ i + 1 # k - 1
      BY <1>3, <1>5, <2>1, <2>4
    <3>2. NodeAt(t, i + 1, e) = NodeAt(s, (i + 1) + 1, e)
      <4>1. CASE i = l
        BY <1>2, <1>3, <4>1 DEF NodeAt
      <4>2. CASE i # l
        <5>1. i + 1 \in 1 .. l /\ ~(i + 1 < k) /\ i + 1 <= Len(t) /\ (i + 1) + 1 <= Len(s)
          BY <1>2, <1>3, <1>5, <2>4, <4>2
        <5> QED BY <1>3, <5>1 DEF NodeAt
      <4> QED BY <4>1, <4>2
    <3>3. new[s[i + 1]] = link[s[i + 1]]
      BY <1>2, <2>1, <3>1
    <3> QED BY <1>4, <2>1, <3>1, <3>2, <3>3
  <2> QED BY <1>5, <2>1, <2>2, <2>3, <2>4
<1>8. ASSUME NEW i \in 1 .. l, NEW j \in 1 .. l, t[i] = t[j] PROVE i = j
  <2>1. PICK a \in 1 .. l + 1, b \in 1 .. l + 1 :
            a = (IF i < k THEN i ELSE i + 1) /\ b = (IF j < k THEN j ELSE j + 1)
    <3>1. \A x \in 1 .. l : x \in 1 .. l + 1 /\ x + 1 \in 1 .. l + 1
      OBVIOUS
    <3> QED BY <3>1
  <2>2. s[a] = s[b]
    BY <1>3, <1>8, <2>1
  <2>3. a = b
    BY <1>4, <2>2
  <2> QED BY <1>5, <2>1, <2>3
<1> QED BY <1>1, <1>3, <1>6, <1>7, <1>8 DEF Spelled

\* Distinct nodes are no more than there are.
LEMMA SpelledFits ==
    ASSUME NEW N \in Nat, NEW S, IsFiniteSet(S), Cardinality(S) <= N,
           NEW s \in Seq(S), \A i, j \in 1 .. Len(s) : s[i] = s[j] => i = j
    PROVE  Len(s) <= N
<1> DEFINE f == [i \in 1 .. Len(s) |-> s[i]]
<1>1. f \in Injection(1 .. Len(s), S)
  BY DEF Injection, IsInjective
<1>2. Cardinality(1 .. Len(s)) <= Cardinality(S)
  BY <1>1, FS_Injection
<1>3. Cardinality(1 .. Len(s)) = Len(s)
  <2>1. PICK n \in Nat : n = Len(s)
    OBVIOUS
  <2>2. Cardinality(1 .. n) = IF 1 > n THEN 0 ELSE n - 1 + 1
    BY FS_Interval
  <2> QED BY <2>1, <2>2
<1>4. Cardinality(S) \in Nat
  BY FS_CardinalityType
<1> QED BY <1>2, <1>3, <1>4

Body(N, link, n, e, at) ==
    [k \in 0 .. N + 1 |-> IF k = 0 THEN n ELSE IF at[k - 1] = e THEN e ELSE link[at[k - 1]]]
TheWalk(N, link, n, e) == CHOOSE f : f = Body(N, link, n, e, f)

\* What the walks of ZHashMap and ZList compute: the nodes the links spell.
LEMMA WalkSpells ==
    ASSUME NEW N \in Nat, NEW S, NEW link, NEW n, NEW e, NEW s \in Seq(S), Len(s) <= N,
           Spelled(link, n, e, s),
           NEW at, at = TheWalk(N, link, n, e)
    PROVE  [k \in 1 .. Cardinality({k \in 0 .. N : at[k] # e}) |-> at[k - 1]] = s
<1>1. PICK m \in Nat : m = Len(s) /\ m <= N
  OBVIOUS
<1>2. PICK g : g = [k \in 0 .. N + 1 |-> NodeAt(s, k + 1, e)]
  OBVIOUS
<1>3. \A k \in 0 .. N + 1 : g[k] = NodeAt(s, k + 1, e)
  BY <1>2
<1>4. g = Body(N, link, n, e, g)
  <2>1. ASSUME NEW k \in 0 .. N + 1
        PROVE  g[k] = IF k = 0 THEN n ELSE IF g[k - 1] = e THEN e ELSE link[g[k - 1]]
    <3>1. CASE k = 0
      BY <1>3, <3>1 DEF Spelled
    <3>2. CASE k # 0
      <4>1. k - 1 \in 0 .. N + 1 /\ (k - 1) + 1 = k /\ g[k - 1] = NodeAt(s, k, e)
        <5>1. k - 1 \in 0 .. N + 1 /\ (k - 1) + 1 = k
          BY <3>2
        <5> QED BY <1>3, <5>1
      <4>2. CASE k <= m
        <5>1. k \in 1 .. Len(s) /\ g[k - 1] = s[k]
          BY <1>1, <3>2, <4>1, <4>2 DEF NodeAt
        <5> QED BY <1>3, <3>2, <5>1 DEF Spelled
      <4>3. CASE ~(k <= m)
        <5>1. ~(k <= Len(s)) /\ ~(k + 1 <= Len(s))
          BY <1>1, <4>3
        <5>2. g[k - 1] = e /\ g[k] = e
          BY <1>3, <4>1, <5>1 DEF NodeAt
        <5> QED BY <3>2, <5>2
      <4> QED BY <4>2, <4>3
    <3> QED BY <3>1, <3>2
  <2> QED BY <1>2, <2>1 DEF Body
<1>5. at = Body(N, link, n, e, at)
  BY <1>4 DEF TheWalk
<1>6. \A k \in 0 .. N + 1 :
         at[k] = IF k = 0 THEN n ELSE IF at[k - 1] = e THEN e ELSE link[at[k - 1]]
  BY <1>5 DEF Body
<1>7. \A k \in 0 .. N + 1 :
         g[k] = IF k = 0 THEN n ELSE IF g[k - 1] = e THEN e ELSE link[g[k - 1]]
  BY <1>4 DEF Body
<1> DEFINE Bad == {k \in 0 .. N + 1 : at[k] # g[k]}
<1>8. ASSUME Bad # {} PROVE FALSE
  <2>1. PICK k \in Bad : \A j \in Bad : k <= j
    <3>1. Bad \subseteq Nat
      OBVIOUS
    <3> QED BY <1>8, <3>1, LeastNat
  <2>2. k \in 0 .. N + 1 /\ at[k] # g[k]
    BY <2>1
  <2>3. k # 0
    BY <1>6, <1>7, <2>2
  <2>4. k - 1 \in 0 .. N + 1 /\ ~(k <= k - 1)
    BY <2>2, <2>3
  <2>5. at[k - 1] = g[k - 1]
    BY <2>1, <2>4
  <2> QED BY <1>6, <1>7, <2>2, <2>3, <2>5
<1>9. \A k \in 0 .. N + 1 : at[k] = NodeAt(s, k + 1, e)
  BY <1>3, <1>8
<1>10. {k \in 0 .. N : at[k] # e} = 0 .. m - 1
  <2>1. ASSUME NEW k \in 0 .. N PROVE at[k] # e <=> k \in 0 .. m - 1
    <3>1. k \in 0 .. N + 1 /\ at[k] = NodeAt(s, k + 1, e)
      BY <1>9
    <3>2. CASE k + 1 <= m
      <4>1. k + 1 \in 1 .. Len(s) /\ k + 1 <= Len(s)
        BY <1>1, <3>2
      <4>2. at[k] = s[k + 1] /\ s[k + 1] # e
        BY <3>1, <4>1 DEF NodeAt, Spelled
      <4> QED BY <3>2, <4>2
    <3>3. CASE ~(k + 1 <= m)
      BY <1>1, <3>1, <3>3 DEF NodeAt
    <3> QED BY <3>2, <3>3
  <2>2. 0 .. m - 1 \subseteq 0 .. N
    BY <1>1
  <2> QED BY <2>1, <2>2
<1>11. Cardinality(0 .. m - 1) = m
  <2>1. m - 1 \in Int /\ 0 \in Int
    OBVIOUS
  <2>2. Cardinality(0 .. m - 1) = IF 0 > m - 1 THEN 0 ELSE (m - 1) - 0 + 1
    BY <2>1, FS_Interval
  <2> QED BY <2>2
<1>12. [k \in 1 .. m |-> at[k - 1]] = s
  <2>1. ASSUME NEW k \in 1 .. m PROVE at[k - 1] = s[k]
    <3>1. k - 1 \in 0 .. N + 1 /\ (k - 1) + 1 = k /\ k <= Len(s)
      BY <1>1
    <3> QED BY <1>9, <3>1 DEF NodeAt
  <2>2. s = [k \in 1 .. m |-> s[k]]
    BY <1>1
  <2> QED BY <2>1, <2>2
<1> QED BY <1>10, <1>11, <1>12

-----------------------------------------------------------------------------
(* zhash_map: what its tables say *)

Node == 1 .. NODE_COUNT
Buckets == 0 .. HASH_COUNT - 1

MapType(m) ==
    m \in [buckets : [Buckets -> Pool], next : [Pool -> Pool],
           hash_id : [Pool -> 0 .. HASH_COUNT], val : [Pool -> (Keys \X Mapped) \cup {<<>>}],
           first : Nat, exploit : 0 .. NODE_COUNT, count : Int]

\* The nodes that hold a key.
Used(m) == {n \in Node : m.hash_id[n] # HASH_COUNT}

\* C[h] is the chain of bucket h, F the list of the freed nodes: each node below
\* the offset is in the one that its hash_id names, and nowhere else.
Chained(m, C, F) ==
    /\ C \in [Buckets -> Seq(Node)] /\ F \in Seq(Node)
    /\ \A h \in Buckets : Spelled(m.next, m.buckets[h], FREE_POOL, C[h])
    /\ Spelled(m.next, m.next[FREE_POOL], FREE_POOL, F)
    /\ \A n \in Node : \A h \in Buckets : Among(n, C[h]) <=> m.hash_id[n] = h
    /\ \A n \in Node : Among(n, F) <=> n <= m.exploit /\ m.hash_id[n] = HASH_COUNT
    /\ \A n \in Node : n > m.exploit => m.hash_id[n] = HASH_COUNT
    /\ m.hash_id[FREE_POOL] = HASH_COUNT

\* The nodes in use hold the keys of M, each in the chain of its bucket.
Keeps(m, M) ==
    /\ DOMAIN M \subseteq Keys
    /\ \A n \in Used(m) : /\ m.val[n][1] \in DOMAIN M
                          /\ m.val[n] = <<m.val[n][1], M[m.val[n][1]]>>
                          /\ m.hash_id[n] = BucketOf(m.val[n][1])
    /\ \A n, o \in Used(m) : m.val[n][1] = m.val[o][1] => n = o
    /\ \A key \in DOMAIN M : \E n \in Used(m) : m.val[n][1] = key
    /\ M \in [DOMAIN M -> Mapped]
    /\ m.count = Cardinality(Used(m))

\* first_valid_node_id_: the lowest node in use.
FirstIs(m) ==
    /\ Used(m) = {} => m.first \in {FREE_POOL, INVALID_NODE_ID}
    /\ Used(m) # {} => m.first \in Used(m) /\ \A n \in Used(m) : m.first <= n

Table(m, M) ==
    MapType(m) /\ (\E C, F : Chained(m, C, F)) /\ Keeps(m, M) /\ FirstIs(m)

MapInv == Table(map, mmap) /\ (thrown => map.count = NODE_COUNT)

LEMMA MapSets ==
    /\ NODE_COUNT \in Nat \ {0} /\ HASH_COUNT \in Nat /\ HASH_COUNT = 2 * NODE_COUNT
    /\ FREE_POOL = 0 /\ INVALID_NODE_ID = NODE_COUNT + 1
    /\ Node \subseteq Nat /\ Node \subseteq Pool /\ 0 \in Pool /\ 0 \notin Node
    /\ INVALID_NODE_ID \notin Node
    /\ Pool = Node \cup {0} /\ HASH_COUNT \notin Buckets
    /\ 0 .. HASH_COUNT = Buckets \cup {HASH_COUNT}
    /\ \A key \in Keys : BucketOf(key) \in Buckets
<1>1. NODE_COUNT \in Nat \ {0}
  BY MapAssumption
<1>2. HASH_COUNT = NODE_COUNT * 2 /\ HASH_COUNT \in Nat /\ HASH_COUNT > 0
  BY <1>1 DEF HASH_COUNT
<1>3. \A key \in Keys : BucketOf(key) \in Buckets
  <2>1. \A x \in Nat : x % HASH_COUNT \in 0 .. HASH_COUNT - 1
    BY <1>2
  <2> QED BY <2>1, MapAssumption DEF BucketOf, Buckets
<1> QED BY <1>1, <1>2, <1>3 DEF FREE_POOL, INVALID_NODE_ID, Node, Pool, Buckets

LEMMA NodeCount == IsFiniteSet(Node) /\ Cardinality(Node) = NODE_COUNT
<1>1. Cardinality(1 .. NODE_COUNT) = IF 1 > NODE_COUNT THEN 0 ELSE NODE_COUNT - 1 + 1
  BY MapSets, FS_Interval
<1>2. IsFiniteSet(1 .. NODE_COUNT)
  BY MapSets, FS_Interval
<1> QED BY <1>1, <1>2, MapSets DEF Node

LEMMA UsedCount ==
    ASSUME NEW m
    PROVE  /\ IsFiniteSet(Used(m)) /\ Cardinality(Used(m)) \in Nat
           /\ Cardinality(Used(m)) <= NODE_COUNT
           /\ Cardinality(Used(m)) = NODE_COUNT <=> Used(m) = Node
<1>1. Used(m) \in SUBSET Node
  BY DEF Used
<1>2. IsFiniteSet(Used(m)) /\ Cardinality(Used(m)) <= Cardinality(Node)
      /\ (Cardinality(Node) = Cardinality(Used(m)) => Node = Used(m))
  BY <1>1, NodeCount, FS_Subset
<1>3. Cardinality(Used(m)) \in Nat
  BY <1>2, FS_CardinalityType
<1> QED BY <1>2, <1>3, NodeCount

\* The keys that are held are as many as the nodes that hold them.
LEMMA KeysCount ==
    ASSUME NEW m, NEW M, Keeps(m, M)
    PROVE  IsFiniteSet(DOMAIN M) /\ Cardinality(DOMAIN M) = Cardinality(Used(m))
<1> DEFINE f == [n \in Used(m) |-> m.val[n][1]]
<1>1. f \in Injection(Used(m), DOMAIN M)
  BY DEF Keeps, Injection, IsInjective
<1>2. f \in Surjection(Used(m), DOMAIN M)
  BY DEF Keeps, Surjection
<1>3. /\ IsFiniteSet(DOMAIN M) /\ Cardinality(DOMAIN M) <= Cardinality(Used(m))
      /\ (Cardinality(DOMAIN M) = Cardinality(Used(m)) <=> f \in Injection(Used(m), DOMAIN M))
  BY <1>2, UsedCount, FS_Surjection
<1> QED BY <1>1, <1>3

LEMMA FullIs ==
    ASSUME NEW m, NEW M, Table(m, M)
    PROVE  MapFull(m) <=> Cardinality(DOMAIN M) = NODE_COUNT
<1>1. PICK C, F : Chained(m, C, F)
  BY DEF Table
<1>2. m.next[0] = NodeAt(F, 1, 0) /\ F \in Seq(Node)
      /\ \A i \in 1 .. Len(F) : F[i] # 0
  BY <1>1, MapSets DEF Chained, Spelled
<1>3. m.next[0] = 0 <=> Len(F) = 0
  <2>1. CASE Len(F) = 0
    BY <1>2, <2>1 DEF NodeAt
  <2>2. CASE Len(F) # 0
    <3>1. 1 \in 1 .. Len(F)
      BY <1>2, <2>2
    <3> QED BY <1>2, <2>2, <3>1 DEF NodeAt
  <2> QED BY <2>1, <2>2
<1>4. m.exploit \in 0 .. NODE_COUNT
  BY DEF Table, MapType
<1>5. MapFull(m) => Used(m) = Node
  <2> SUFFICES ASSUME MapFull(m), NEW n \in Node PROVE m.hash_id[n] # HASH_COUNT
    BY DEF Used
  <2>1. m.exploit = NODE_COUNT /\ Len(F) = 0
    BY <1>3, <1>4, MapSets DEF MapFull
  <2>2. ~Among(n, F) /\ n <= m.exploit
    BY <2>1, MapSets DEF Among, Node
  <2> QED BY <1>1, <2>2 DEF Chained
<1>6. Used(m) = Node => MapFull(m)
  <2> SUFFICES ASSUME Used(m) = Node PROVE MapFull(m)
    OBVIOUS
  <2>1. NODE_COUNT \in Node
    BY MapSets DEF Node
  <2>2. ~(NODE_COUNT > m.exploit)
    BY <1>1, <2>1 DEF Chained, Used
  <2>3. Len(F) = 0
    <3> SUFFICES ASSUME Len(F) # 0 PROVE FALSE
      OBVIOUS
    <3>1. 1 \in 1 .. Len(F) /\ F[1] \in Node
      BY <1>2
    <3>2. Among(F[1], F)
      BY <3>1 DEF Among
    <3> QED BY <1>1, <3>1, <3>2 DEF Chained, Used
  <2> QED BY <1>3, <1>4, <2>2, <2>3, MapSets DEF MapFull
<1> QED BY <1>5, <1>6, UsedCount, KeysCount DEF Table

LEMMA ChainFromIs ==
    ASSUME NEW m, NEW n, NEW s \in Seq(Node), Spelled(m.next, n, FREE_POOL, s)
    PROVE  ChainFrom(m, n) = s /\ Len(s) <= NODE_COUNT
<1>1. \A i, j \in 1 .. Len(s) : s[i] = s[j] => i = j
  BY DEF Spelled
<1>2. Len(s) <= NODE_COUNT
  <2>1. NODE_COUNT \in Nat /\ Cardinality(Node) <= NODE_COUNT /\ IsFiniteSet(Node)
    BY MapSets, NodeCount
  <2> QED BY <1>1, <2>1, SpelledFits
<1>3. PICK at : at = TheWalk(NODE_COUNT, m.next, n, FREE_POOL)
  OBVIOUS
<1>4. [k \in 1 .. Cardinality({k \in 0 .. NODE_COUNT : at[k] # FREE_POOL}) |-> at[k - 1]] = s
  <2>1. PICK link, e, N : link = m.next /\ e = FREE_POOL /\ N = NODE_COUNT /\ N \in Nat
    BY MapSets
  <2>2. at = TheWalk(N, link, n, e)
    BY <1>3, <2>1
  <2>3. N \in Nat /\ Spelled(link, n, e, s) /\ Len(s) <= N
    BY <1>2, <2>1
  <2>4. [k \in 1 .. Cardinality({k \in 0 .. N : at[k] # e}) |-> at[k - 1]] = s
    BY <2>2, <2>3, WalkSpells
  <2> QED BY <2>1, <2>4
<1>5. ChainFrom(m, n)
        = [k \in 1 .. Cardinality({k \in 0 .. NODE_COUNT : at[k] # FREE_POOL}) |-> at[k - 1]]
  BY <1>3 DEF ChainFrom, Body, TheWalk
<1> QED BY <1>2, <1>4, <1>5

LEMMA ChainIs ==
    ASSUME NEW m, NEW C, NEW F, Chained(m, C, F), NEW h \in Buckets
    PROVE  Chain(m, h) = C[h] /\ C[h] \in Seq(Node) /\ Len(C[h]) <= NODE_COUNT
<1>1. C[h] \in Seq(Node) /\ Spelled(m.next, m.buckets[h], FREE_POOL, C[h])
  BY DEF Chained
<1> QED BY <1>1, ChainFromIs DEF Chain

\* find(): the node that holds the key.
LEMMA FindIs ==
    ASSUME NEW m, NEW M, Table(m, M), NEW key \in Keys
    PROVE  /\ key \in DOMAIN M => Find(m, key) \in Used(m) /\ m.val[Find(m, key)][1] = key
           /\ key \notin DOMAIN M => Find(m, key) = INVALID_NODE_ID
<1>1. PICK C, F : Chained(m, C, F)
  BY DEF Table
<1>2. PICK h \in Buckets, c \in Seq(Node) : h = BucketOf(key) /\ c = C[h] /\ c = Chain(m, h)
  BY <1>1, MapSets, ChainIs
<1>3. PICK hit : hit = {k \in DOMAIN c : m.val[c[k]][1] = key}
  OBVIOUS
<1>4. Find(m, key) = IF hit = {} THEN INVALID_NODE_ID
                     ELSE c[CHOOSE k \in hit : \A j \in hit : k <= j]
  BY <1>2, <1>3 DEF Find
<1>5. DOMAIN c = 1 .. Len(c)
  OBVIOUS
<1>6. \A n \in Node : Among(n, c) <=> m.hash_id[n] = h
  <2>1. \A n \in Node : \A g \in Buckets : Among(n, C[g]) <=> m.hash_id[n] = g
    BY <1>1 DEF Chained
  <2>2. \A n \in Node : Among(n, C[h]) <=> m.hash_id[n] = h
    BY <2>1
  <2> QED BY <1>2, <2>2
<1>7. ASSUME NEW k \in hit PROVE c[k] \in Used(m) /\ m.val[c[k]][1] = key
  <2>1. k \in 1 .. Len(c) /\ m.val[c[k]][1] = key /\ c[k] \in Node
    BY <1>3, <1>5
  <2>2. Among(c[k], c)
    BY <2>1 DEF Among
  <2>3. m.hash_id[c[k]] = h
    BY <1>6, <2>1, <2>2
  <2> QED BY <2>1, <2>3, MapSets DEF Used
<1>8. CASE key \in DOMAIN M
  <2>1. PICK n \in Used(m) : m.val[n][1] = key
    BY <1>8 DEF Table, Keeps
  <2>2. m.hash_id[n] = h /\ n \in Node
    BY <1>2, <2>1 DEF Table, Keeps, Used
  <2>3. Among(n, c)
    BY <1>6, <2>2
  <2>4. PICK k \in 1 .. Len(c) : c[k] = n
    BY <2>3 DEF Among
  <2>5. k \in hit
    BY <1>3, <1>5, <2>1, <2>4
  <2>6. hit \subseteq Nat /\ hit # {}
    BY <1>3, <1>5, <2>5
  <2>7. (CHOOSE i \in hit : \A j \in hit : i <= j) \in hit
    BY <2>6, LeastNat
  <2> QED BY <1>4, <1>7, <1>8, <2>6, <2>7
<1>9. CASE key \notin DOMAIN M
  <2>1. hit = {}
    BY <1>7, <1>9 DEF Table, Keeps
  <2> QED BY <1>4, <1>9, <2>1
<1> QED BY <1>8, <1>9

-----------------------------------------------------------------------------
(* zhash_map: a node taken and linked in front of its bucket *)

LEMMA WithIs ==
    ASSUME NEW M, M \in [DOMAIN M -> Mapped], NEW key, NEW v \in Mapped
    PROVE  /\ DOMAIN With(M, key, v) = DOMAIN M \cup {key}
           /\ With(M, key, v) \in [DOMAIN With(M, key, v) -> Mapped]
           /\ With(M, key, v)[key] = v
           /\ \A x \in DOMAIN M : x # key => With(M, key, v)[x] = M[x]
BY DEF With

\* The node that is taken: a freed one or the first above the offset.
LEMMA PopIdIs ==
    ASSUME NEW m, MapType(m), ~MapFull(m), NEW C, NEW F, Chained(m, C, F)
    PROVE  /\ PopId(m) \in Node /\ m.hash_id[PopId(m)] = HASH_COUNT
           /\ Len(F) # 0 => m.next[0] # 0 /\ PopId(m) = F[1]
           /\ Len(F) = 0 => m.next[0] = 0 /\ PopId(m) = m.exploit + 1
<1>1. m.next[0] = NodeAt(F, 1, 0) /\ F \in Seq(Node) /\ \A i \in 1 .. Len(F) : F[i] # 0
  BY MapSets DEF Chained, Spelled
<1>2. CASE Len(F) # 0
  <2>1. 1 \in 1 .. Len(F)
    BY <1>1, <1>2
  <2>2. m.next[0] = F[1] /\ F[1] # 0 /\ F[1] \in Node /\ Among(F[1], F)
    BY <1>1, <2>1 DEF NodeAt, Among
  <2>3. m.hash_id[F[1]] = HASH_COUNT
    BY <2>2 DEF Chained
  <2> QED BY <1>2, <2>2, <2>3, MapSets DEF PopId
<1>3. CASE Len(F) = 0
  <2>1. m.next[0] = 0
    BY <1>1, <1>3 DEF NodeAt
  <2>2. m.exploit < NODE_COUNT /\ m.exploit \in Nat
    BY <2>1, MapSets DEF MapFull, MapType
  <2>3. m.exploit + 1 \in Node /\ m.exploit + 1 > m.exploit
    BY <2>2, MapSets DEF Node
  <2>4. m.hash_id[m.exploit + 1] = HASH_COUNT
    BY <2>3 DEF Chained
  <2> QED BY <1>3, <2>1, <2>3, <2>4, MapSets DEF PopId
<1> QED BY <1>2, <1>3

\* What pop_free and insert write.
Taken(m, r, id, h, key, v) ==
    /\ \A n \in Pool : r.val[n] = IF n = id THEN <<key, v>> ELSE m.val[n]
    /\ \A n \in Pool : r.hash_id[n] = IF n = id THEN h ELSE m.hash_id[n]
    /\ \A n \in Node : n # id => r.next[n] = m.next[n]
    /\ r.next[id] = m.buckets[h]
    /\ r.next[0] = IF m.next[0] # 0 THEN m.next[m.next[0]] ELSE 0
    /\ \A g \in Buckets : r.buckets[g] = IF g = h THEN id ELSE m.buckets[g]
    /\ r.first = IF m.first = 0 \/ id < m.first THEN id ELSE m.first
    /\ r.exploit = IF m.next[0] # 0 THEN m.exploit ELSE m.exploit + 1
    /\ r.count = m.count + 1

LEMMA LinkIs ==
    ASSUME NEW m, MapType(m), ~MapFull(m), NEW key \in Keys, NEW v \in Mapped,
           PopId(m) \in Node
    PROVE  MapType(Link(m, key, v)) /\ Taken(m, Link(m, key, v), PopId(m), BucketOf(key), key, v)
<1>1. PICK h \in Buckets : h = BucketOf(key)
  BY MapSets
<1>2. PICK id \in Node : id = PopId(m)
  OBVIOUS
<1>3. PICK r : r = Link(m, key, v)
  OBVIOUS
<1>4. PICK p : p = PopFree(m)
  OBVIOUS
<1>5. p = [m EXCEPT !.count = @ + 1,
                    !.first = IF @ = 0 \/ id < @ THEN id ELSE @,
                    !.next[0] = IF @ # 0 THEN m.next[@] ELSE @,
                    !.exploit = IF m.next[0] # 0 THEN @ ELSE @ + 1]
  BY <1>2, <1>4, MapSets DEF PopFree
<1>6. r = [p EXCEPT !.val[id] = <<key, v>>, !.hash_id[id] = h,
                    !.next[id] = m.buckets[h], !.buckets[h] = id]
  BY <1>1, <1>2, <1>3, <1>4 DEF Link
<1>7. m \in [buckets : [Buckets -> Pool], next : [Pool -> Pool],
             hash_id : [Pool -> 0 .. HASH_COUNT], val : [Pool -> (Keys \X Mapped) \cup {<<>>}],
             first : Nat, exploit : 0 .. NODE_COUNT, count : Int]
  BY DEF MapType
<1>8. /\ p.buckets = m.buckets /\ p.hash_id = m.hash_id /\ p.val = m.val
      /\ p.count = m.count + 1
      /\ p.first = (IF m.first = 0 \/ id < m.first THEN id ELSE m.first)
      /\ p.next = [m.next EXCEPT ![0] = IF m.next[0] # 0 THEN m.next[m.next[0]] ELSE 0]
      /\ p.exploit = (IF m.next[0] # 0 THEN m.exploit ELSE m.exploit + 1)
  BY <1>5, <1>7, MapSets
<1>9. p.exploit \in 0 .. NODE_COUNT
  <2>1. m.next[0] = 0 => m.exploit < NODE_COUNT
    BY <1>7, MapSets DEF MapFull
  <2> QED BY <1>7, <1>8, <2>1, MapSets
<1>10. p \in [buckets : [Buckets -> Pool], next : [Pool -> Pool],
             hash_id : [Pool -> 0 .. HASH_COUNT], val : [Pool -> (Keys \X Mapped) \cup {<<>>}],
             first : Nat, exploit : 0 .. NODE_COUNT, count : Int]
  <2>1. p.next \in [Pool -> Pool] /\ p.first \in Nat /\ p.count \in Int
    <3>1. m.next \in [Pool -> Pool] /\ 0 \in Pool /\ id \in Nat /\ m.first \in Nat /\ m.count \in Int
      BY <1>7, MapSets
    <3>2. (IF m.next[0] # 0 THEN m.next[m.next[0]] ELSE 0) \in Pool
      BY <3>1
    <3>3. p.next \in [Pool -> Pool]
      BY <1>8, <3>1, <3>2
    <3> QED BY <1>8, <3>1, <3>3
  <2>2. p = [buckets |-> p.buckets, next |-> p.next, hash_id |-> p.hash_id, val |-> p.val,
             first |-> p.first, exploit |-> p.exploit, count |-> p.count]
    BY <1>5, <1>7
  <2> QED BY <1>7, <1>8, <1>9, <2>1, <2>2
<1>11. /\ r.val = [m.val EXCEPT ![id] = <<key, v>>]
       /\ r.hash_id = [m.hash_id EXCEPT ![id] = h]
       /\ r.next = [p.next EXCEPT ![id] = m.buckets[h]]
       /\ r.buckets = [m.buckets EXCEPT ![h] = id]
       /\ r.first = p.first /\ r.exploit = p.exploit /\ r.count = p.count
  BY <1>6, <1>8, <1>10
<1>12. MapType(r)
  <2>1. /\ r.val \in [Pool -> (Keys \X Mapped) \cup {<<>>}]
        /\ r.hash_id \in [Pool -> 0 .. HASH_COUNT]
        /\ r.next \in [Pool -> Pool] /\ r.buckets \in [Buckets -> Pool]
    <3>1. /\ m.val \in [Pool -> (Keys \X Mapped) \cup {<<>>}] /\ m.hash_id \in [Pool -> 0 .. HASH_COUNT]
          /\ p.next \in [Pool -> Pool] /\ m.buckets \in [Buckets -> Pool] /\ id \in Pool
          /\ h \in 0 .. HASH_COUNT
      BY <1>7, <1>10, MapSets
    <3>2. r.val \in [Pool -> (Keys \X Mapped) \cup {<<>>}] /\ r.hash_id \in [Pool -> 0 .. HASH_COUNT]
      BY <1>11, <3>1
    <3>3. m.buckets[h] \in Pool
      BY <3>1
    <3> QED BY <1>11, <3>1, <3>2, <3>3
  <2>2. r = [buckets |-> r.buckets, next |-> r.next, hash_id |-> r.hash_id, val |-> r.val,
             first |-> r.first, exploit |-> r.exploit, count |-> r.count]
    BY <1>6, <1>10
  <2> QED BY <1>10, <1>11, <2>1, <2>2 DEF MapType
<1>13. Taken(m, r, id, h, key, v)
  <2>1. id \in Pool /\ 0 \in Pool /\ id # 0 /\ Node \subseteq Pool
    BY MapSets
  <2>2. \A n \in Pool : r.val[n] = IF n = id THEN <<key, v>> ELSE m.val[n]
    BY <1>7, <1>11, <2>1
  <2>3. \A n \in Pool : r.hash_id[n] = IF n = id THEN h ELSE m.hash_id[n]
    BY <1>7, <1>11, <2>1
  <2>4. p.next \in [Pool -> Pool] /\ m.next \in [Pool -> Pool]
    BY <1>7, <1>10
  <2>5. r.next[id] = m.buckets[h] /\ \A n \in Pool : n # id => r.next[n] = p.next[n]
    BY <1>11, <2>1, <2>4
  <2>6. \A n \in Pool : p.next[n] = IF n = 0 THEN IF m.next[0] # 0 THEN m.next[m.next[0]] ELSE 0
                                    ELSE m.next[n]
    BY <1>8, <2>1, <2>4
  <2>7. (\A n \in Node : n # id => r.next[n] = m.next[n])
        /\ r.next[0] = IF m.next[0] # 0 THEN m.next[m.next[0]] ELSE 0
    BY <2>1, <2>5, <2>6, MapSets
  <2>8. \A g \in Buckets : r.buckets[g] = IF g = h THEN id ELSE m.buckets[g]
    BY <1>7, <1>11
  <2> QED BY <1>8, <1>11, <2>2, <2>3, <2>5, <2>7, <2>8 DEF Taken
<1> QED BY <1>1, <1>2, <1>3, <1>12, <1>13

LEMMA TakenChained ==
    ASSUME NEW m, NEW r, NEW C, NEW F, NEW key, NEW v, NEW h \in Buckets, NEW id \in Node,
           MapType(m), Chained(m, C, F), Taken(m, r, id, h, key, v), m.hash_id[id] = HASH_COUNT,
           Len(F) # 0 => m.next[0] # 0 /\ id = F[1],
           Len(F) = 0 => m.next[0] = 0 /\ id = m.exploit + 1
    PROVE  \E c, f : Chained(r, c, f)
<1>1. PICK c : c = [C EXCEPT ![h] = InFront(id, C[h])]
  OBVIOUS
<1>2. PICK f : f = IF Len(F) = 0 THEN F ELSE Dropped(F, 1)
  OBVIOUS
<1>3. /\ C \in [Buckets -> Seq(Node)] /\ F \in Seq(Node)
      /\ \A g \in Buckets : Spelled(m.next, m.buckets[g], 0, C[g])
      /\ Spelled(m.next, m.next[0], 0, F)
      /\ \A n \in Node : \A g \in Buckets : Among(n, C[g]) <=> m.hash_id[n] = g
      /\ \A n \in Node : Among(n, F) <=> n <= m.exploit /\ m.hash_id[n] = HASH_COUNT
      /\ \A n \in Node : n > m.exploit => m.hash_id[n] = HASH_COUNT
      /\ m.hash_id[0] = HASH_COUNT
  BY MapSets DEF Chained
<1>4. \A g \in Buckets : C[g] \in Seq(Node)
  BY <1>3
<1>5. \A g \in Buckets : g # HASH_COUNT
  BY MapSets
<1>6. \A g \in Buckets : ~Among(id, C[g])
  BY <1>3, <1>5
<1>7. \A g \in Buckets : \A x : Among(x, C[g]) => x \in Node /\ x # id
  BY <1>4, <1>6 DEF Among
<1>8. \A n \in Node : n # id => r.next[n] = m.next[n]
  BY DEF Taken
<1>9. \A g \in Buckets : c[g] = IF g = h THEN InFront(id, C[h]) ELSE C[g]
  BY <1>1, <1>3
<1>10. c \in [Buckets -> Seq(Node)]
  <2>1. InFront(id, C[h]) \in Seq(Node)
    BY <1>4, InFrontFacts
  <2> QED BY <1>1, <1>3, <2>1
<1>11. ASSUME NEW g \in Buckets PROVE Spelled(r.next, r.buckets[g], 0, c[g])
  <2>1. PICK s, link, new, n :
           s \in Seq(Node) /\ s = C[g] /\ link = m.next /\ new = r.next /\ n = m.buckets[g]
    BY <1>4
  <2>2. s \in Seq(Node) /\ Spelled(link, n, 0, s) /\ \A x : Among(x, s) => new[x] = link[x]
    BY <1>3, <1>7, <1>8, <2>1
  <2>3. CASE g = h
    <3>1. id # 0 /\ ~Among(id, s) /\ new[id] = n
      BY <1>6, <2>1, <2>3, MapSets DEF Taken
    <3>2. Spelled(new, id, 0, InFront(id, s))
      BY <2>2, <3>1, SpelledFront
    <3>3. r.buckets[g] = id
      BY <2>3 DEF Taken
    <3> QED BY <1>9, <2>1, <2>3, <3>2, <3>3
  <2>4. CASE g # h
    <3>1. Spelled(new, n, 0, s)
      BY <2>2, SpelledStill
    <3>2. r.buckets[g] = n
      BY <2>1, <2>4 DEF Taken
    <3> QED BY <1>9, <2>1, <2>4, <3>1, <3>2
  <2> QED BY <2>3, <2>4
<1>12. f \in Seq(Node) /\ Spelled(r.next, r.next[0], 0, f)
       /\ \A x : Among(x, f) <=> Among(x, F) /\ x # id
  <2>1. CASE Len(F) = 0
    <3>1. r.next[0] = 0 /\ f = F
      BY <1>2, <2>1 DEF Taken
    <3>2. Spelled(r.next, 0, 0, F)
      BY <1>3, <2>1 DEF Spelled, NodeAt
    <3>3. \A x : ~Among(x, F)
      BY <2>1 DEF Among
    <3> QED BY <1>3, <3>1, <3>2, <3>3
  <2>2. CASE Len(F) # 0
    <3>1. PICK one \in 1 .. Len(F) : one = 1
      BY <1>3, <2>2
    <3>2. m.next[0] # 0 /\ id = F[1] /\ f = Dropped(F, one) /\ m.next[0] = NodeAt(F, 1, 0)
      BY <1>2, <1>3, <2>2, <3>1 DEF Spelled
    <3>3. r.next[0] = m.next[F[1]]
      BY <2>2, <3>1, <3>2 DEF Taken, NodeAt
    <3>4. \A i, j \in 1 .. Len(F) : F[i] = F[j] => i = j
      BY <1>3 DEF Spelled
    <3>5. /\ Dropped(F, one) \in Seq(Node)
          /\ \A x : Among(x, Dropped(F, one)) <=> Among(x, F) /\ x # F[one]
      BY <1>3, <3>4, DroppedFacts
    <3>6. PICK link, new, n, b : link = m.next /\ new = r.next /\ n = m.next[0] /\ b = r.next[0]
      OBVIOUS
    <3>7. /\ Spelled(link, n, 0, F) /\ b = IF one = 1 THEN link[F[1]] ELSE n
          /\ one # 1 => new[F[one - 1]] = link[F[one]]
      BY <1>3, <3>1, <3>3, <3>6
    <3>8. ASSUME NEW i \in 1 .. Len(F), i # one PROVE new[F[i]] = link[F[i]]
      <4>1. F[i] \in Node /\ F[i] # id
        BY <1>3, <3>1, <3>2, <3>4, <3>8
      <4> QED BY <1>8, <3>6, <4>1
    <3>9. \A i \in 1 .. Len(F) : i # one /\ i # one - 1 => new[F[i]] = link[F[i]]
      BY <3>8
    <3>10. Spelled(new, b, 0, Dropped(F, one))
      BY <1>3, <3>7, <3>9, SpelledDropped
    <3> QED BY <3>1, <3>2, <3>5, <3>6, <3>10
  <2> QED BY <2>1, <2>2
<1>13. \A n \in Node : r.hash_id[n] = IF n = id THEN h ELSE m.hash_id[n]
  BY MapSets DEF Taken
<1>14. ASSUME NEW n \in Node, NEW g \in Buckets PROVE Among(n, c[g]) <=> r.hash_id[n] = g
  <2>1. Among(n, InFront(id, C[h])) <=> n = id \/ Among(n, C[h])
    <3>1. PICK s : s \in Seq(Node) /\ s = C[h]
      BY <1>4
    <3>2. s \in Seq(Node)
      BY <3>1
    <3>3. \A x : Among(x, InFront(id, s)) <=> x = id \/ Among(x, s)
      BY <3>2, InFrontFacts
    <3> QED BY <3>1, <3>3
  <2>2. Among(n, C[g]) <=> m.hash_id[n] = g
    BY <1>3
  <2>3. n = id => m.hash_id[n] # g
    BY <1>5
  <2>4. CASE g = h
    BY <1>9, <1>13, <2>1, <2>2, <2>4
  <2>5. CASE g # h
    BY <1>9, <1>13, <2>2, <2>3, <2>5
  <2> QED BY <2>4, <2>5
<1>15. m.exploit \in Nat /\ id \in Nat /\ Node \subseteq Nat
  BY MapSets DEF MapType
<1>16. r.exploit = IF Len(F) # 0 THEN m.exploit ELSE m.exploit + 1
  BY DEF Taken
<1>17. id <= r.exploit
  <2>1. CASE Len(F) # 0
    <3>1. Among(id, F)
      BY <1>3, <2>1 DEF Among
    <3> QED BY <1>3, <1>16, <2>1, <3>1
  <2>2. CASE Len(F) = 0
    BY <1>15, <1>16, <2>2
  <2> QED BY <2>1, <2>2
<1>18. \A n \in Node : n # id => (n <= r.exploit <=> n <= m.exploit)
  BY <1>15, <1>16
<1>19. ASSUME NEW n \in Node
       PROVE  Among(n, f) <=> n <= r.exploit /\ r.hash_id[n] = HASH_COUNT
  <2>1. Among(n, f) <=> Among(n, F) /\ n # id
    BY <1>12
  <2>2. CASE n = id
    BY <1>5, <1>13, <2>1, <2>2
  <2>3. CASE n # id
    <3>1. Among(n, F) <=> n <= m.exploit /\ m.hash_id[n] = HASH_COUNT
      BY <1>3
    <3>2. n <= r.exploit <=> n <= m.exploit
      BY <1>18, <2>3
    <3>3. r.hash_id[n] = m.hash_id[n]
      BY <1>13, <2>3
    <3>4. Among(n, f) <=> n <= m.exploit /\ m.hash_id[n] = HASH_COUNT
      BY <2>1, <2>3, <3>1
    <3>5. (n <= m.exploit /\ m.hash_id[n] = HASH_COUNT)
            <=> (n <= r.exploit /\ r.hash_id[n] = HASH_COUNT)
      BY <3>2, <3>3
    <3> QED BY <3>4, <3>5
  <2> QED BY <2>2, <2>3
<1>20. ASSUME NEW n \in Node, n > r.exploit PROVE r.hash_id[n] = HASH_COUNT
  <2>1. n \in Nat /\ r.exploit \in Nat /\ r.exploit >= m.exploit
    <3>1. n \in Nat
      BY <1>15
    <3>2. m.exploit \in Nat /\ (r.exploit = m.exploit \/ r.exploit = m.exploit + 1)
      BY <1>15, <1>16, Zenon
    <3> QED BY <3>1, <3>2
  <2>2. n # id /\ n > m.exploit
    BY <1>15, <1>17, <1>20, <2>1
  <2> QED BY <1>3, <1>13, <2>2
<1>21. r.hash_id[0] = HASH_COUNT
  BY <1>3, MapSets DEF Taken
<1> QED BY <1>10, <1>11, <1>12, <1>14, <1>19, <1>20, <1>21, MapSets DEF Chained

LEMMA LinkKeeps ==
    ASSUME NEW m, NEW M, Table(m, M), ~MapFull(m), NEW key \in Keys \ DOMAIN M, NEW v \in Mapped
    PROVE  Table(Link(m, key, v), With(M, key, v))
<1>1. PICK C, F : Chained(m, C, F)
  BY DEF Table
<1>2. PICK id, r, h, W : id = PopId(m) /\ r = Link(m, key, v) /\ h = BucketOf(key) /\ W = With(M, key, v)
  OBVIOUS
<1>3. MapType(m) /\ Keeps(m, M) /\ FirstIs(m)
  BY DEF Table
<1>4. /\ id \in Node /\ m.hash_id[id] = HASH_COUNT
      /\ Len(F) # 0 => m.next[0] # 0 /\ id = F[1]
      /\ Len(F) = 0 => m.next[0] = 0 /\ id = m.exploit + 1
  BY <1>1, <1>2, <1>3, PopIdIs
<1>5. h \in Buckets /\ h # HASH_COUNT
  BY <1>2, MapSets
<1>6. MapType(r) /\ Taken(m, r, id, h, key, v)
  BY <1>2, <1>3, <1>4, LinkIs
<1>7. \E c, f : Chained(r, c, f)
  BY <1>1, <1>3, <1>4, <1>5, <1>6, TakenChained
<1>8. \A n \in Node : /\ r.hash_id[n] = IF n = id THEN h ELSE m.hash_id[n]
                      /\ r.val[n] = IF n = id THEN <<key, v>> ELSE m.val[n]
  BY <1>6, MapSets DEF Taken
<1>9. Used(r) = Used(m) \cup {id} /\ id \notin Used(m)
  BY <1>4, <1>5, <1>8 DEF Used
<1>10. Keeps(r, W)
  <2>1. /\ DOMAIN M \subseteq Keys /\ M \in [DOMAIN M -> Mapped]
        /\ \A n \in Used(m) : /\ m.val[n][1] \in DOMAIN M
                              /\ m.val[n] = <<m.val[n][1], M[m.val[n][1]]>>
                              /\ m.hash_id[n] = BucketOf(m.val[n][1])
        /\ \A n, o \in Used(m) : m.val[n][1] = m.val[o][1] => n = o
        /\ \A k \in DOMAIN M : \E n \in Used(m) : m.val[n][1] = k
        /\ m.count = Cardinality(Used(m))
    BY <1>3 DEF Keeps
  <2>2. /\ DOMAIN W = DOMAIN M \cup {key} /\ W \in [DOMAIN W -> Mapped] /\ W[key] = v
        /\ \A x \in DOMAIN M : x # key => W[x] = M[x]
    <3>1. M \in [DOMAIN M -> Mapped] /\ v \in Mapped
      BY <2>1
    <3>2. /\ DOMAIN With(M, key, v) = DOMAIN M \cup {key}
          /\ With(M, key, v) \in [DOMAIN With(M, key, v) -> Mapped] /\ With(M, key, v)[key] = v
          /\ \A x \in DOMAIN M : x # key => With(M, key, v)[x] = M[x]
      BY <3>1 DEF With
    <3> QED BY <1>2, <3>2
  <2>3. Used(m) \subseteq Node
    BY DEF Used
  <2>4. \A n \in Used(m) : n # id /\ r.val[n] = m.val[n] /\ r.hash_id[n] = m.hash_id[n]
    BY <1>8, <1>9, <2>3
  <2>5. r.val[id] = <<key, v>> /\ r.val[id][1] = key /\ r.hash_id[id] = h
    BY <1>4, <1>8
  <2>6. \A n \in Used(m) : r.val[n][1] # key
    BY <2>1, <2>4
  <2>7. ASSUME NEW n \in Used(r)
        PROVE  /\ r.val[n][1] \in DOMAIN W /\ r.val[n] = <<r.val[n][1], W[r.val[n][1]]>>
               /\ r.hash_id[n] = BucketOf(r.val[n][1])
    <3>1. CASE n = id
      BY <1>2, <2>2, <2>5, <3>1
    <3>2. CASE n \in Used(m)
      BY <2>1, <2>2, <2>4, <2>6, <3>2
    <3> QED BY <1>9, <3>1, <3>2
  <2>8. \A n, o \in Used(r) : r.val[n][1] = r.val[o][1] => n = o
    BY <1>9, <2>1, <2>4, <2>5, <2>6
  <2>9. \A k \in DOMAIN W : \E n \in Used(r) : r.val[n][1] = k
    BY <1>9, <2>1, <2>2, <2>4, <2>5
  <2>10. r.count = Cardinality(Used(r))
    <3>1. Cardinality(Used(r)) = Cardinality(Used(m)) + 1
      BY <1>9, UsedCount, FS_AddElement
    <3> QED BY <1>6, <2>1, <3>1 DEF Taken
  <2> QED BY <2>1, <2>2, <2>7, <2>8, <2>9, <2>10 DEF Keeps
<1>11. FirstIs(r)
  <2>1. r.first = IF m.first = 0 \/ id < m.first THEN id ELSE m.first
    BY <1>6 DEF Taken
  <2>2. Used(m) \subseteq Node /\ Node \subseteq Nat /\ id \in Nat /\ id <= NODE_COUNT /\ 0 \notin Node
        /\ NODE_COUNT \in Nat
    BY <1>4, MapSets DEF Used, Node
  <2>3. CASE Used(m) = {}
    <3>1. r.first = id
      BY <2>1, <2>2, <2>3, <1>3, MapSets DEF FirstIs
    <3> QED BY <1>9, <2>2, <2>3, <3>1 DEF FirstIs
  <2>4. CASE Used(m) # {}
    <3>1. m.first \in Used(m) /\ \A n \in Used(m) : m.first <= n
      BY <1>3, <2>4 DEF FirstIs
    <3>2. m.first \in Nat /\ m.first # 0 /\ \A n \in Used(m) : n \in Nat
      BY <2>2, <3>1
    <3>3. CASE id < m.first
      <4>1. r.first = id
        BY <2>1, <3>3
      <4>2. \A n \in Used(m) : id <= n
        BY <2>2, <3>1, <3>2, <3>3
      <4> QED BY <1>9, <2>2, <4>1, <4>2 DEF FirstIs
    <3>4. CASE ~(id < m.first)
      <4>1. r.first = m.first /\ m.first <= id
        BY <2>1, <2>2, <3>2, <3>4
      <4> QED BY <1>9, <3>1, <4>1 DEF FirstIs
    <3> QED BY <3>3, <3>4
  <2> QED BY <2>3, <2>4
<1> QED BY <1>2, <1>6, <1>7, <1>10, <1>11 DEF Table

-----------------------------------------------------------------------------
(* zhash_map: a node unlinked and pushed on the free list *)

\* What erase and push_free write for the node at place k of chain c.
FreedNode(m, r, id, h, c, k) ==
    /\ \A n \in Node : n # id => r.val[n] = m.val[n]
    /\ \A n \in Pool : r.hash_id[n] = IF n = id THEN HASH_COUNT ELSE m.hash_id[n]
    /\ r.next[0] = id /\ r.next[id] = m.next[0]
    /\ k # 1 => r.next[c[k - 1]] = m.next[id]
    /\ \A n \in Node : n # id /\ (k # 1 => n # c[k - 1]) => r.next[n] = m.next[n]
    /\ \A g \in Buckets : r.buckets[g] = IF g = h /\ k = 1 THEN m.next[id] ELSE m.buckets[g]
    /\ r.first = IF id = m.first THEN NextB(r, id + 1) ELSE m.first
    /\ r.exploit = m.exploit
    /\ r.count = m.count - 1

\* The first node in use from n on is no node between.
LEMMA NextBIs ==
    ASSUME NEW m, MapType(m), NEW n \in Nat, m.hash_id[0] = HASH_COUNT,
           \A i \in Node : i > m.exploit => m.hash_id[i] = HASH_COUNT
    PROVE  LET in_use == {i \in Used(m) : n <= i}
           IN /\ in_use = {} => NextB(m, n) = INVALID_NODE_ID
              /\ in_use # {} => NextB(m, n) \in in_use /\ \A i \in in_use : NextB(m, n) <= i
<1>1. m.exploit \in Nat /\ m.exploit <= NODE_COUNT /\ NODE_COUNT \in Nat
  BY MapSets DEF MapType
<1>2. PICK in : in = {i \in n .. m.exploit : m.hash_id[i] # HASH_COUNT}
  OBVIOUS
<1>3. in = {i \in Used(m) : n <= i}
  <2>1. ASSUME NEW i \in in PROVE i \in Used(m) /\ n <= i
    <3>1. i \in Node
      BY <1>1, <1>2, MapSets DEF Node
    <3> QED BY <1>1, <1>2, <3>1 DEF Used
  <2>2. ASSUME NEW i \in Used(m), n <= i PROVE i \in in
    <3>1. i \in Nat /\ i \in Node
      BY MapSets DEF Used
    <3>2. i <= m.exploit
      BY <1>1, <3>1 DEF Used
    <3> QED BY <1>1, <1>2, <2>2, <3>1, <3>2 DEF Used
  <2> QED BY <2>1, <2>2
<1>4. NextB(m, n) = IF in = {} THEN INVALID_NODE_ID ELSE CHOOSE i \in in : \A j \in in : i <= j
  BY <1>2 DEF NextB
<1>5. in \subseteq Nat
  BY <1>1, <1>2
<1>6. in # {} => NextB(m, n) \in in /\ \A i \in in : NextB(m, n) <= i
  <2> SUFFICES ASSUME in # {} PROVE NextB(m, n) \in in /\ \A i \in in : NextB(m, n) <= i
    OBVIOUS
  <2>1. \E i \in in : \A j \in in : i <= j
    BY <1>5, LeastNat
  <2> QED BY <1>4, <2>1
<1> QED BY <1>3, <1>4, <1>6

LEMMA NextBIsNat ==
    ASSUME NEW m, MapType(m), NEW n \in Nat
    PROVE  NextB(m, n) \in Nat
<1>1. m.exploit \in Nat /\ INVALID_NODE_ID \in Nat
  BY MapSets DEF MapType
<1>2. PICK in : in = {i \in n .. m.exploit : m.hash_id[i] # HASH_COUNT}
  OBVIOUS
<1>3. in \subseteq Nat
  BY <1>1, <1>2
<1>4. NextB(m, n) = IF in = {} THEN INVALID_NODE_ID ELSE CHOOSE i \in in : \A j \in in : i <= j
  BY <1>2 DEF NextB
<1>5. CASE in # {}
  <2>1. \E i \in in : \A j \in in : i <= j
    BY <1>3, <1>5, LeastNat
  <2> QED BY <1>3, <1>4, <1>5, <2>1
<1> QED BY <1>1, <1>4, <1>5

LEMMA FreeIs ==
    ASSUME NEW m, NEW C, NEW F, MapType(m), Chained(m, C, F), NEW id \in Used(m)
    PROVE  LET r == PushFree(Unlink(m, id), id)
               h == m.hash_id[id]
           IN \E k \in 1 .. Len(C[h]) :
                /\ h \in Buckets /\ C[h][k] = id
                /\ MapType(r) /\ FreedNode(m, r, id, h, C[h], k)
<1>1. id \in Node /\ m.hash_id[id] # HASH_COUNT /\ id \in Pool /\ id # 0 /\ id \in Nat
  BY MapSets DEF Used
<1>2. m \in [buckets : [Buckets -> Pool], next : [Pool -> Pool],
             hash_id : [Pool -> 0 .. HASH_COUNT], val : [Pool -> (Keys \X Mapped) \cup {<<>>}],
             first : Nat, exploit : 0 .. NODE_COUNT, count : Int]
  BY DEF MapType
<1>3. PICK h \in Buckets : h = m.hash_id[id]
  BY <1>1, <1>2, MapSets
<1>4. PICK c \in Seq(Node) : c = C[h] /\ c = Chain(m, h)
  BY ChainIs
<1>5. Among(id, c) /\ Spelled(m.next, m.buckets[h], 0, c)
  <2>1. /\ \A n \in Node : \A g \in Buckets : Among(n, C[g]) <=> m.hash_id[n] = g
        /\ \A g \in Buckets : Spelled(m.next, m.buckets[g], FREE_POOL, C[g])
    BY DEF Chained
  <2>2. Among(id, C[h])
    BY <1>1, <1>3, <2>1
  <2> QED BY <1>4, <2>1, <2>2, MapSets, ZenonT(60)
<1>6. PICK k \in 1 .. Len(c) : c[k] = id
  BY <1>5 DEF Among
<1>7. DOMAIN c = 1 .. Len(c)
  OBVIOUS
<1>8. k = CHOOSE j \in DOMAIN c : c[j] = id
  <2>1. \A j \in DOMAIN c : c[j] = id => j = k
    BY <1>5, <1>6, <1>7 DEF Spelled
  <2> QED BY <1>6, <1>7, <2>1
<1>9. PICK u : u = Unlink(m, id)
  OBVIOUS
<1>10. u = IF k = 1 THEN [m EXCEPT !.buckets[h] = m.next[id]]
           ELSE [m EXCEPT !.next[c[k - 1]] = m.next[id]]
  BY <1>3, <1>4, <1>8, <1>9 DEF Unlink
<1>11. k # 1 => c[k - 1] \in Node /\ c[k - 1] # id
  <2> SUFFICES ASSUME k # 1 PROVE c[k - 1] \in Node /\ c[k - 1] # id
    OBVIOUS
  <2>1. k - 1 \in 1 .. Len(c) /\ k - 1 # k
    OBVIOUS
  <2> QED BY <1>5, <1>6, <2>1 DEF Spelled
<1>12. /\ u.hash_id = m.hash_id /\ u.val = m.val /\ u.first = m.first
       /\ u.exploit = m.exploit /\ u.count = m.count
       /\ u.buckets = (IF k = 1 THEN [m.buckets EXCEPT ![h] = m.next[id]] ELSE m.buckets)
       /\ u.next = (IF k = 1 THEN m.next ELSE [m.next EXCEPT ![c[k - 1]] = m.next[id]])
  BY <1>2, <1>10
<1>13. u.buckets \in [Buckets -> Pool] /\ u.next \in [Pool -> Pool]
  <2>1. m.next[id] \in Pool /\ m.buckets \in [Buckets -> Pool] /\ m.next \in [Pool -> Pool]
    BY <1>1, <1>2
  <2> QED BY <1>12, <2>1
<1>14. u = [buckets |-> u.buckets, next |-> u.next, hash_id |-> u.hash_id, val |-> u.val,
            first |-> u.first, exploit |-> u.exploit, count |-> u.count]
  BY <1>2, <1>10
<1>15. PICK f : f = [u EXCEPT !.hash_id[id] = HASH_COUNT, !.val[id] = <<>>,
                              !.next = [@ EXCEPT ![id] = u.next[0], ![0] = id],
                              !.count = @ - 1]
  OBVIOUS
<1>16. /\ f.hash_id = [m.hash_id EXCEPT ![id] = HASH_COUNT] /\ f.val = [m.val EXCEPT ![id] = <<>>]
       /\ f.next = [u.next EXCEPT ![id] = u.next[0], ![0] = id]
       /\ f.count = m.count - 1 /\ f.buckets = u.buckets /\ f.first = m.first
       /\ f.exploit = m.exploit
       /\ f = [buckets |-> f.buckets, next |-> f.next, hash_id |-> f.hash_id, val |-> f.val,
               first |-> f.first, exploit |-> f.exploit, count |-> f.count]
  BY <1>12, <1>14, <1>15
<1>17. PICK r : r = PushFree(u, id)
  OBVIOUS
<1>18. r = [f EXCEPT !.first = IF id = @ THEN NextB(f, id + 1) ELSE @]
  BY <1>15, <1>17, MapSets DEF PushFree
<1>19. /\ r.hash_id = f.hash_id /\ r.val = f.val /\ r.next = f.next /\ r.count = f.count
       /\ r.buckets = f.buckets /\ r.exploit = f.exploit
       /\ r.first = (IF id = m.first THEN NextB(f, id + 1) ELSE m.first)
       /\ r = [buckets |-> r.buckets, next |-> r.next, hash_id |-> r.hash_id, val |-> r.val,
               first |-> r.first, exploit |-> r.exploit, count |-> r.count]
  BY <1>16, <1>18
<1>20. NextB(f, id + 1) = NextB(r, id + 1)
  BY <1>19 DEF NextB
<1>21. MapType(f)
  <2>1. f.hash_id \in [Pool -> 0 .. HASH_COUNT]
    <3>1. m.hash_id \in [Pool -> 0 .. HASH_COUNT] /\ HASH_COUNT \in 0 .. HASH_COUNT
      BY <1>2, MapSets
    <3> QED BY <1>16, <3>1
  <2>2. f.val \in [Pool -> (Keys \X Mapped) \cup {<<>>}]
    <3>1. m.val \in [Pool -> (Keys \X Mapped) \cup {<<>>}]
      BY <1>2
    <3> QED BY <1>16, <3>1
  <2>3. f.next \in [Pool -> Pool]
    <3>1. 0 \in Pool /\ id \in Pool
      BY <1>1, MapSets
    <3>2. u.next[0] \in Pool
      BY <1>13, <3>1
    <3> QED BY <1>13, <1>16, <3>1, <3>2
  <2>4. f.count \in Int /\ f.first \in Nat /\ f.exploit \in 0 .. NODE_COUNT
    BY <1>2, <1>16
  <2> QED BY <1>13, <1>16, <2>1, <2>2, <2>3, <2>4 DEF MapType
<1>22. MapType(r)
  <2>1. id + 1 \in Nat
    BY <1>1
  <2>2. NextB(f, id + 1) \in Nat
    BY <1>21, <2>1, NextBIsNat
  <2>3. r.first \in Nat
    BY <1>2, <1>19, <2>2
  <2> QED BY <1>19, <1>21, <2>3 DEF MapType
<1>23. FreedNode(m, r, id, h, c, k)
  <2>1. m.val \in [Pool -> (Keys \X Mapped) \cup {<<>>}] /\ m.hash_id \in [Pool -> 0 .. HASH_COUNT]
        /\ m.next \in [Pool -> Pool] /\ m.buckets \in [Buckets -> Pool]
    BY <1>2
  <2>2. 0 \in Pool /\ Node \subseteq Pool /\ 0 \notin Node
    BY MapSets
  <2>3. \A n \in Node : n # id => r.val[n] = m.val[n]
    BY <1>16, <1>19, <2>1, <2>2
  <2>4. \A n \in Pool : r.hash_id[n] = IF n = id THEN HASH_COUNT ELSE m.hash_id[n]
    BY <1>16, <1>19, <2>1
  <2>5. r.next[0] = id /\ r.next[id] = u.next[0]
        /\ \A n \in Node : n # id => r.next[n] = u.next[n]
    BY <1>1, <1>13, <1>16, <1>19, <2>2
  <2>6. k = 1 => u.next = m.next
    BY <1>12
  <2>7. ASSUME k # 1
        PROVE  /\ u.next[c[k - 1]] = m.next[id]
               /\ \A n \in Pool : n # c[k - 1] => u.next[n] = m.next[n]
    BY <1>11, <1>12, <2>1, <2>2, <2>7
  <2>8. r.next[id] = m.next[0]
    BY <1>11, <2>2, <2>5, <2>6, <2>7
  <2>9. k # 1 => r.next[c[k - 1]] = m.next[id]
    BY <1>11, <2>5, <2>7
  <2>10. \A n \in Node : n # id /\ (k # 1 => n # c[k - 1]) => r.next[n] = m.next[n]
    BY <2>2, <2>5, <2>6, <2>7
  <2>11. \A g \in Buckets : r.buckets[g] = IF g = h /\ k = 1 THEN m.next[id] ELSE m.buckets[g]
    BY <1>12, <1>16, <1>19, <2>1
  <2> QED BY <1>16, <1>19, <1>20, <2>3, <2>4, <2>5, <2>8, <2>9, <2>10, <2>11 DEF FreedNode
<1> QED BY <1>3, <1>4, <1>6, <1>9, <1>17, <1>22, <1>23

LEMMA FreedChained ==
    ASSUME NEW m, NEW r, NEW C, NEW F, NEW h \in Buckets, NEW id \in Node, NEW k \in 1 .. Len(C[h]),
           MapType(m), Chained(m, C, F), m.hash_id[id] = h, C[h][k] = id, FreedNode(m, r, id, h, C[h], k)
    PROVE  \E c, f : Chained(r, c, f)
<1>1. PICK c : c = [C EXCEPT ![h] = Dropped(C[h], k)]
  OBVIOUS
<1>2. PICK f : f = InFront(id, F)
  OBVIOUS
<1>3. /\ C \in [Buckets -> Seq(Node)] /\ F \in Seq(Node)
      /\ \A g \in Buckets : Spelled(m.next, m.buckets[g], 0, C[g])
      /\ Spelled(m.next, m.next[0], 0, F)
      /\ \A n \in Node : \A g \in Buckets : Among(n, C[g]) <=> m.hash_id[n] = g
      /\ \A n \in Node : Among(n, F) <=> n <= m.exploit /\ m.hash_id[n] = HASH_COUNT
      /\ \A n \in Node : n > m.exploit => m.hash_id[n] = HASH_COUNT
      /\ m.hash_id[0] = HASH_COUNT
  BY MapSets DEF Chained
<1>4. \A g \in Buckets : C[g] \in Seq(Node)
  BY <1>3
<1>5. h # HASH_COUNT /\ id # 0
  BY MapSets
<1>6. PICK s : s = C[h] /\ s \in Seq(Node)
  BY <1>4
<1>7. s \in Seq(Node) /\ k \in 1 .. Len(s) /\ s[k] = id /\ Spelled(m.next, m.buckets[h], 0, s)
      /\ \A i, j \in 1 .. Len(s) : s[i] = s[j] => i = j
  BY <1>3, <1>6 DEF Spelled
<1>8. FreedNode(m, r, id, h, s, k)
  BY <1>6
<1>9. PICK d : d = Dropped(s, k)
  OBVIOUS
<1>10. d \in Seq(Node) /\ \A x : Among(x, d) <=> Among(x, s) /\ x # id
  <2>1. Dropped(s, k) \in Seq(Node) /\ \A x : Among(x, Dropped(s, k)) <=> Among(x, s) /\ x # s[k]
    BY <1>7, DroppedFacts
  <2> QED BY <1>7, <1>9, <2>1
<1>11. \A g \in Buckets : c[g] = IF g = h THEN d ELSE C[g]
  BY <1>1, <1>3, <1>6, <1>9
<1>12. c \in [Buckets -> Seq(Node)]
  BY <1>1, <1>3, <1>6, <1>9, <1>10
<1>13. k # 1 => s[k - 1] \in Node /\ Among(s[k - 1], s)
  <2> SUFFICES ASSUME k # 1 PROVE s[k - 1] \in Node /\ Among(s[k - 1], s)
    OBVIOUS
  <2>1. k - 1 \in 1 .. Len(s)
    BY <1>7
  <2> QED BY <1>7, <2>1 DEF Among
<1>14. \A x : Among(x, s) => x \in Node /\ m.hash_id[x] = h
  <2>1. \A x : Among(x, s) => x \in Node
    BY <1>7 DEF Among
  <2> QED BY <1>3, <1>6, <2>1
<1>15. \A n \in Node : n # id /\ (k # 1 => n # s[k - 1]) => r.next[n] = m.next[n]
  BY <1>8 DEF FreedNode
<1>16. \A x \in Node : m.hash_id[x] # h => r.next[x] = m.next[x]
  BY <1>13, <1>14, <1>15
<1>17. ASSUME NEW g \in Buckets, g # h PROVE Spelled(r.next, r.buckets[g], 0, c[g])
  <2>1. \A x : Among(x, C[g]) => x \in Node
    BY <1>4 DEF Among
  <2>2. \A x : Among(x, C[g]) => r.next[x] = m.next[x]
    BY <1>3, <1>16, <1>17, <2>1
  <2>3. PICK t, link, new, n : t = C[g] /\ link = m.next /\ new = r.next /\ n = m.buckets[g]
    OBVIOUS
  <2>4. Spelled(link, n, 0, t) /\ \A x : Among(x, t) => new[x] = link[x]
    BY <1>3, <2>2, <2>3
  <2>5. Spelled(new, n, 0, t)
    BY <2>4, SpelledStill
  <2>6. r.buckets[g] = m.buckets[g]
    BY <1>8, <1>17 DEF FreedNode
  <2> QED BY <1>11, <1>17, <2>3, <2>5, <2>6
<1>18. Spelled(r.next, r.buckets[h], 0, d)
  <2>1. PICK link, new, n, b : link = m.next /\ new = r.next /\ n = m.buckets[h] /\ b = r.buckets[h]
    OBVIOUS
  <2>2. Spelled(link, n, 0, s) /\ s \in Seq(Node) /\ k \in 1 .. Len(s)
    BY <1>7, <2>1
  <2>3. b = IF k = 1 THEN link[s[1]] ELSE n
    BY <1>7, <1>8, <2>1 DEF FreedNode
  <2>4. k # 1 => new[s[k - 1]] = link[s[k]]
    BY <1>7, <1>8, <2>1 DEF FreedNode
  <2>5. ASSUME NEW i \in 1 .. Len(s), i # k, i # k - 1 PROVE new[s[i]] = link[s[i]]
    <3>1. s[i] \in Node /\ s[i] # id
      BY <1>7, <2>5
    <3>2. k # 1 => s[i] # s[k - 1]
      <4> SUFFICES ASSUME k # 1 PROVE s[i] # s[k - 1]
        OBVIOUS
      <4>1. k - 1 \in 1 .. Len(s)
        BY <1>7
      <4> QED BY <1>7, <2>5, <4>1
    <3> QED BY <1>15, <2>1, <3>1, <3>2
  <2>6. \A i \in 1 .. Len(s) : i # k /\ i # k - 1 => new[s[i]] = link[s[i]]
    BY <2>5
  <2>7. Spelled(new, b, 0, Dropped(s, k))
    BY <2>2, <2>3, <2>4, <2>6, SpelledDropped
  <2> QED BY <1>9, <2>1, <2>7
<1>19. f \in Seq(Node) /\ Spelled(r.next, r.next[0], 0, f)
       /\ \A x : Among(x, f) <=> x = id \/ Among(x, F)
  <2>1. PICK link, new, n : link = m.next /\ new = r.next /\ n = m.next[0]
    OBVIOUS
  <2>2. \A x : Among(x, F) => x \in Node /\ m.hash_id[x] = HASH_COUNT
    <3>1. \A x : Among(x, F) => x \in Node
      BY <1>3 DEF Among
    <3> QED BY <1>3, <3>1
  <2>3. \A x : Among(x, F) => new[x] = link[x]
    BY <1>5, <1>16, <2>1, <2>2
  <2>4. ~Among(id, F)
    BY <1>5, <2>2
  <2>5. Spelled(link, n, 0, F) /\ id # 0 /\ new[id] = n /\ F \in Seq(Node)
    BY <1>3, <1>5, <1>8, <2>1 DEF FreedNode
  <2>6. Spelled(new, id, 0, InFront(id, F))
    BY <2>3, <2>4, <2>5, SpelledFront
  <2>7. InFront(id, F) \in Seq(Node) /\ \A x : Among(x, InFront(id, F)) <=> x = id \/ Among(x, F)
    BY <2>5, InFrontFacts
  <2>8. r.next[0] = id
    BY <1>8 DEF FreedNode
  <2> QED BY <1>2, <2>1, <2>6, <2>7, <2>8
<1>20. r.exploit = m.exploit /\ id <= m.exploit
  <2>1. ~(id > m.exploit)
    BY <1>3, <1>5
  <2>2. id \in Nat /\ m.exploit \in Nat
    BY MapSets DEF MapType
  <2> QED BY <1>8, <2>1, <2>2 DEF FreedNode
<1>21. \A n \in Pool : r.hash_id[n] = IF n = id THEN HASH_COUNT ELSE m.hash_id[n]
  BY <1>8 DEF FreedNode
<1>22. Node \subseteq Pool /\ 0 \in Pool /\ \A g \in Buckets : g # HASH_COUNT
  BY MapSets
<1>23. ASSUME NEW n \in Node, NEW g \in Buckets PROVE Among(n, c[g]) <=> r.hash_id[n] = g
  <2>1. Among(n, C[g]) <=> m.hash_id[n] = g
    BY <1>3
  <2>2. r.hash_id[n] = IF n = id THEN HASH_COUNT ELSE m.hash_id[n]
    BY <1>21, <1>22
  <2>3. CASE g = h
    BY <1>6, <1>10, <1>11, <1>22, <2>1, <2>2, <2>3
  <2>4. CASE g # h
    BY <1>11, <1>22, <2>1, <2>2, <2>4
  <2> QED BY <2>3, <2>4
<1>24. \A g \in Buckets : Spelled(r.next, r.buckets[g], 0, c[g])
  BY <1>11, <1>17, <1>18
<1>25. \A n \in Node : Among(n, f) <=> n <= r.exploit /\ r.hash_id[n] = HASH_COUNT
  BY <1>3, <1>19, <1>20, <1>21, <1>22
<1>26. \A n \in Node : n > r.exploit => r.hash_id[n] = HASH_COUNT
  BY <1>3, <1>20, <1>21, <1>22
<1>27. r.hash_id[0] = HASH_COUNT
  BY <1>3, <1>21, <1>22
<1> QED BY <1>12, <1>19, <1>23, <1>24, <1>25, <1>26, <1>27, MapSets DEF Chained

LEMMA FreeKeeps ==
    ASSUME NEW m, NEW M, Table(m, M), NEW id \in Used(m)
    PROVE  Table(PushFree(Unlink(m, id), id), Without(M, m.val[id][1]))
<1>1. PICK C, F : Chained(m, C, F)
  BY DEF Table
<1>2. PICK r, key, W, h : /\ r = PushFree(Unlink(m, id), id) /\ key = m.val[id][1]
                          /\ W = Without(M, key) /\ h = m.hash_id[id]
  OBVIOUS
<1>3. MapType(m) /\ Keeps(m, M) /\ FirstIs(m)
  BY DEF Table
<1>4. PICK k \in 1 .. Len(C[h]) :
          h \in Buckets /\ C[h][k] = id /\ MapType(r) /\ FreedNode(m, r, id, h, C[h], k)
  BY <1>1, <1>2, <1>3, FreeIs
<1>5. id \in Node /\ Used(m) \subseteq Node /\ Node \subseteq Pool /\ Node \subseteq Nat
  BY MapSets DEF Used
<1>6. \E c, f : Chained(r, c, f)
  BY <1>1, <1>2, <1>3, <1>4, <1>5, FreedChained
<1>7. /\ \A n \in Node : n # id => r.val[n] = m.val[n]
      /\ \A n \in Node : r.hash_id[n] = IF n = id THEN HASH_COUNT ELSE m.hash_id[n]
      /\ r.first = IF id = m.first THEN NextB(r, id + 1) ELSE m.first
      /\ r.count = m.count - 1
  BY <1>4, <1>5 DEF FreedNode
<1>8. Used(r) = Used(m) \ {id}
  BY <1>7 DEF Used
<1>9. Keeps(r, W)
  <2>1. /\ DOMAIN M \subseteq Keys /\ M \in [DOMAIN M -> Mapped]
        /\ \A n \in Used(m) : /\ m.val[n][1] \in DOMAIN M
                              /\ m.val[n] = <<m.val[n][1], M[m.val[n][1]]>>
                              /\ m.hash_id[n] = BucketOf(m.val[n][1])
        /\ \A n, o \in Used(m) : m.val[n][1] = m.val[o][1] => n = o
        /\ \A x \in DOMAIN M : \E n \in Used(m) : m.val[n][1] = x
        /\ m.count = Cardinality(Used(m))
    BY <1>3 DEF Keeps
  <2>2. /\ DOMAIN W = DOMAIN M \ {key} /\ W \in [DOMAIN W -> Mapped]
        /\ \A x \in DOMAIN W : W[x] = M[x]
    BY <1>2, <2>1 DEF Without
  <2>3. \A n \in Used(r) : /\ n \in Used(m) /\ n # id
                           /\ r.val[n] = m.val[n] /\ r.hash_id[n] = m.hash_id[n]
    BY <1>5, <1>7, <1>8
  <2>4. \A n \in Used(r) : r.val[n][1] # key
    BY <1>2, <2>1, <2>3
  <2>5. ASSUME NEW n \in Used(r)
        PROVE  /\ r.val[n][1] \in DOMAIN W /\ r.val[n] = <<r.val[n][1], W[r.val[n][1]]>>
               /\ r.hash_id[n] = BucketOf(r.val[n][1])
    BY <2>1, <2>2, <2>3, <2>4
  <2>6. \A n, o \in Used(r) : r.val[n][1] = r.val[o][1] => n = o
    BY <2>1, <2>3
  <2>7. ASSUME NEW x \in DOMAIN W PROVE \E n \in Used(r) : r.val[n][1] = x
    <3>1. PICK n \in Used(m) : m.val[n][1] = x
      BY <2>1, <2>2
    <3>2. n \in Used(r)
      BY <1>2, <1>8, <2>2, <3>1
    <3> QED BY <2>3, <3>1, <3>2
  <2>8. r.count = Cardinality(Used(r))
    <3>1. Cardinality(Used(m) \ {id}) = Cardinality(Used(m)) - 1
      BY UsedCount, FS_RemoveElement
    <3> QED BY <1>7, <1>8, <2>1, <3>1
  <2> QED BY <2>1, <2>2, <2>5, <2>6, <2>7, <2>8 DEF Keeps
<1>10. FirstIs(r)
  <2>1. m.first \in Used(m) /\ \A n \in Used(m) : m.first <= n
    BY <1>3 DEF FirstIs
  <2>2. CASE id # m.first
    BY <1>7, <1>8, <2>1, <2>2 DEF FirstIs
  <2>3. CASE id = m.first
    <3>1. r.first = NextB(r, id + 1)
      BY <1>7, <2>3
    <3>2. id + 1 \in Nat
      BY <1>5
    <3>3. /\ r.hash_id[0] = HASH_COUNT
          /\ \A i \in Node : i > r.exploit => r.hash_id[i] = HASH_COUNT
      BY <1>6, MapSets DEF Chained
    <3>4. {i \in Used(r) : id + 1 <= i} = Used(r)
      <4>1. ASSUME NEW i \in Used(r) PROVE id + 1 <= i
        <5>1. i \in Nat /\ id \in Nat /\ id <= i /\ i # id
          BY <1>5, <1>8, <2>1, <2>3
        <5> QED BY <5>1
      <4> QED BY <4>1
    <3>5. PICK n \in Nat : n = id + 1
      BY <3>2
    <3>6. /\ {i \in Used(r) : n <= i} = {} => NextB(r, n) = INVALID_NODE_ID
          /\ {i \in Used(r) : n <= i} # {} =>
               NextB(r, n) \in {i \in Used(r) : n <= i} /\ \A i \in {i \in Used(r) : n <= i} : NextB(r, n) <= i
      BY <1>4, <3>3, <3>5, NextBIs
    <3> QED BY <3>1, <3>4, <3>5, <3>6 DEF FirstIs
  <2> QED BY <2>2, <2>3
<1> QED BY <1>2, <1>4, <1>6, <1>9, <1>10 DEF Table

-----------------------------------------------------------------------------
(* zhash_map: an empty map, and a value written in place *)

LEMMA ResetTable == Table(Reset, <<>>)
<1>1. PICK r : r = Reset
  OBVIOUS
<1>2. /\ r.buckets = [h \in Buckets |-> 0] /\ r.next = [n \in Pool |-> 0]
      /\ r.hash_id = [n \in Pool |-> HASH_COUNT] /\ r.val = [n \in Pool |-> <<>>]
      /\ r.first = 0 /\ r.exploit = 0 /\ r.count = 0
  BY <1>1, MapSets DEF Reset, Buckets
<1>3. MapType(r)
  <2>1. 0 \in Pool /\ HASH_COUNT \in 0 .. HASH_COUNT /\ 0 \in Nat /\ 0 \in 0 .. NODE_COUNT /\ 0 \in Int
    BY MapSets
  <2>2. r = [buckets |-> r.buckets, next |-> r.next, hash_id |-> r.hash_id, val |-> r.val,
             first |-> r.first, exploit |-> r.exploit, count |-> r.count]
    BY <1>1 DEF Reset
  <2>3. /\ r.buckets \in [Buckets -> Pool] /\ r.next \in [Pool -> Pool]
        /\ r.hash_id \in [Pool -> 0 .. HASH_COUNT] /\ r.val \in [Pool -> (Keys \X Mapped) \cup {<<>>}]
    BY <1>2, <2>1
  <2> QED BY <1>2, <2>1, <2>2, <2>3 DEF MapType
<1>4. Used(r) = {}
  BY <1>2, MapSets DEF Used
<1>5. Chained(r, [h \in Buckets |-> <<>>], <<>>)
  <2>1. PICK C, F : C = [h \in Buckets |-> <<>>] /\ F = <<>>
    OBVIOUS
  <2>2. C \in [Buckets -> Seq(Node)] /\ F \in Seq(Node)
    BY <2>1
  <2>3. \A h \in Buckets : C[h] = <<>>
    BY <2>1
  <2>4. \A h \in Buckets : Spelled(r.next, r.buckets[h], 0, C[h])
    BY <1>2, <2>3 DEF Spelled, NodeAt
  <2>5. r.next[0] = 0 /\ r.hash_id[0] = HASH_COUNT
    BY <1>2, MapSets
  <2>6. Spelled(r.next, r.next[0], 0, F)
    BY <2>1, <2>5 DEF Spelled, NodeAt
  <2>7. \A x : ~Among(x, F) /\ \A h \in Buckets : ~Among(x, C[h])
    BY <2>1, <2>3 DEF Among
  <2>8. \A n \in Node : r.hash_id[n] = HASH_COUNT /\ ~(n <= r.exploit)
    BY <1>2, MapSets DEF Node
  <2>9. \A h \in Buckets : h # HASH_COUNT
    BY MapSets
  <2> QED BY <2>1, <2>2, <2>4, <2>5, <2>6, <2>7, <2>8, <2>9, MapSets DEF Chained
<1>6. Keeps(r, <<>>)
  <2>1. PICK e : e = <<>>
    OBVIOUS
  <2>2. DOMAIN e = {} /\ e \in [DOMAIN e -> Mapped]
    BY <2>1
  <2>3. Cardinality(Used(r)) = 0
    BY <1>4, FS_EmptySet
  <2> QED BY <1>2, <1>4, <2>1, <2>2, <2>3 DEF Keeps
<1>7. FirstIs(r)
  BY <1>2, <1>4, MapSets DEF FirstIs
<1> QED BY <1>1, <1>3, <1>5, <1>6, <1>7 DEF Table

LEMMA PutKeeps ==
    ASSUME NEW m, NEW M, Table(m, M), NEW id \in Used(m), NEW key, key = m.val[id][1], NEW v \in Mapped
    PROVE  Table([m EXCEPT !.val[id][2] = v], With(M, key, v))
<1>1. PICK r, W : r = [m EXCEPT !.val[id][2] = v] /\ W = With(M, key, v)
  OBVIOUS
<1>2. PICK C, F : Chained(m, C, F)
  BY DEF Table
<1>3. m \in [buckets : [Buckets -> Pool], next : [Pool -> Pool],
             hash_id : [Pool -> 0 .. HASH_COUNT], val : [Pool -> (Keys \X Mapped) \cup {<<>>}],
             first : Nat, exploit : 0 .. NODE_COUNT, count : Int]
  BY DEF Table, MapType
<1>4. /\ DOMAIN M \subseteq Keys /\ M \in [DOMAIN M -> Mapped]
      /\ \A n \in Used(m) : /\ m.val[n][1] \in DOMAIN M
                            /\ m.val[n] = <<m.val[n][1], M[m.val[n][1]]>>
                            /\ m.hash_id[n] = BucketOf(m.val[n][1])
      /\ \A n, o \in Used(m) : m.val[n][1] = m.val[o][1] => n = o
      /\ \A x \in DOMAIN M : \E n \in Used(m) : m.val[n][1] = x
      /\ m.count = Cardinality(Used(m))
  BY DEF Table, Keeps
<1>5. key \in DOMAIN M /\ key \in Keys /\ M[key] \in Mapped /\ m.val[id] = <<key, M[key]>>
  BY <1>4
<1>6. id \in Pool /\ Used(m) \subseteq Pool
  BY MapSets DEF Used
<1>7. /\ r.buckets = m.buckets /\ r.next = m.next /\ r.hash_id = m.hash_id
      /\ r.first = m.first /\ r.exploit = m.exploit /\ r.count = m.count
      /\ r.val = [m.val EXCEPT ![id] = [@ EXCEPT ![2] = v]]
      /\ r = [buckets |-> r.buckets, next |-> r.next, hash_id |-> r.hash_id, val |-> r.val,
              first |-> r.first, exploit |-> r.exploit, count |-> r.count]
  BY <1>1, <1>3
<1>8. [m.val[id] EXCEPT ![2] = v] = <<key, v>>
  BY <1>5
<1>9. r.val = [m.val EXCEPT ![id] = <<key, v>>]
  BY <1>7, <1>8
<1>10. r.val \in [Pool -> (Keys \X Mapped) \cup {<<>>}]
  <2>1. m.val \in [Pool -> (Keys \X Mapped) \cup {<<>>}]
    BY <1>3
  <2>2. <<key, v>> \in (Keys \X Mapped) \cup {<<>>}
    BY <1>5
  <2> QED BY <1>9, <2>1, <2>2
<1>11. MapType(r)
  BY <1>3, <1>7, <1>10 DEF MapType
<1>12. Chained(r, C, F)
  BY <1>2, <1>7 DEF Chained
<1>13. Used(r) = Used(m)
  BY <1>7 DEF Used
<1>14. \A n \in Pool : r.val[n] = IF n = id THEN <<key, v>> ELSE m.val[n]
  BY <1>3, <1>9
<1>15. Keeps(r, W)
  <2>1. DOMAIN W = DOMAIN M /\ W \in [DOMAIN W -> Mapped] /\ W[key] = v
        /\ \A x \in DOMAIN M : x # key => W[x] = M[x]
    BY <1>1, <1>4, <1>5 DEF With
  <2>2. \A n \in Used(m) : r.val[n][1] = m.val[n][1] /\ (n # id => m.val[n][1] # key)
    BY <1>4, <1>5, <1>6, <1>14
  <2>3. ASSUME NEW n \in Used(m) PROVE r.val[n] = <<r.val[n][1], W[r.val[n][1]]>>
    <3>1. CASE n = id
      BY <1>6, <1>14, <2>1, <3>1
    <3>2. CASE n # id
      BY <1>4, <1>6, <1>14, <2>1, <2>2, <3>2
    <3> QED BY <3>1, <3>2
  <2> QED BY <1>4, <1>7, <1>13, <2>1, <2>2, <2>3 DEF Keeps
<1>16. FirstIs(r)
  BY <1>7, <1>13 DEF Table, FirstIs
<1> QED BY <1>1, <1>11, <1>12, <1>15, <1>16 DEF Table

-----------------------------------------------------------------------------
(* zhash_map: every call keeps the invariant *)

LEMMA InsertKeeps ==
    ASSUME MapInv, NEW key \in Keys, NEW v \in Mapped, MapInsert(key, v)
    PROVE  MapInv'
<1>1. Table(map, mmap) /\ thrown' = FALSE
  BY DEF MapInv, MapInsert
<1>2. DOMAIN mmap \subseteq Keys
  BY <1>1 DEF Table, Keeps
<1>3. MapFull(map) <=> Cardinality(DOMAIN mmap) = NODE_COUNT
  BY <1>1, FullIs
<1>4. Holds(mmap, key) <=> Find(map, key) # INVALID_NODE_ID
  <2>1. /\ key \in DOMAIN mmap => Find(map, key) \in Used(map)
        /\ key \notin DOMAIN mmap => Find(map, key) = INVALID_NODE_ID
    BY <1>1, FindIs
  <2> QED BY <2>1, MapSets DEF Holds, Used
<1>5. CASE Holds(mmap, key) \/ MapFull(map)
  BY <1>1, <1>3, <1>4, <1>5 DEF MapInsert, MapInv
<1>6. CASE ~(Holds(mmap, key) \/ MapFull(map))
  <2>1. map' = Link(map, key, v) /\ mmap' = With(mmap, key, v)
    BY <1>3, <1>4, <1>6 DEF MapInsert
  <2>2. Table(Link(map, key, v), With(mmap, key, v))
    BY <1>1, <1>6, LinkKeeps DEF Holds
  <2> QED BY <1>1, <2>1, <2>2 DEF MapInv
<1> QED BY <1>5, <1>6

LEMMA EraseKeeps ==
    ASSUME MapInv, NEW key \in Keys, MapErase(key)
    PROVE  MapInv'
<1>1. Table(map, mmap) /\ thrown' = FALSE /\ mmap' = Without(mmap, key)
  BY DEF MapInv, MapErase
<1>2. PICK id : id = Find(map, key)
  OBVIOUS
<1>3. /\ key \in DOMAIN mmap => id \in Used(map) /\ map.val[id][1] = key
      /\ key \notin DOMAIN mmap => id = INVALID_NODE_ID
  BY <1>1, <1>2, FindIs
<1>4. map' = IF id = INVALID_NODE_ID THEN map ELSE PushFree(Unlink(map, id), id)
  BY <1>2 DEF MapErase
<1>5. CASE key \in DOMAIN mmap
  <2>1. id # INVALID_NODE_ID
    BY <1>3, <1>5, MapSets DEF Used
  <2>2. Table(PushFree(Unlink(map, id), id), Without(mmap, map.val[id][1]))
    BY <1>1, <1>3, <1>5, FreeKeeps
  <2> QED BY <1>1, <1>3, <1>4, <1>5, <2>1, <2>2 DEF MapInv
<1>6. CASE key \notin DOMAIN mmap
  <2>1. mmap = [x \in DOMAIN mmap |-> mmap[x]]
    BY <1>1 DEF Table, Keeps
  <2>2. DOMAIN mmap \ {key} = DOMAIN mmap
    BY <1>6
  <2>3. Without(mmap, key) = mmap
    BY <2>1, <2>2 DEF Without
  <2> QED BY <1>1, <1>3, <1>4, <1>6, <2>3 DEF MapInv
<1> QED BY <1>5, <1>6

LEMMA EraseNodeKeeps ==
    ASSUME MapInv, NEW id \in Pool, MapEraseNode(id)
    PROVE  MapInv'
<1>1. Table(map, mmap) /\ thrown' = FALSE
  BY DEF MapInv, MapEraseNode
<1>2. PICK gone : gone = (id = FREE_POOL \/ id > map.exploit \/ map.hash_id[id] >= HASH_COUNT)
  OBVIOUS
<1>3. /\ map' = IF gone THEN map ELSE PushFree(Unlink(map, id), id)
      /\ mmap' = IF gone THEN mmap ELSE Without(mmap, map.val[id][1])
  BY <1>2 DEF MapEraseNode
<1>4. CASE gone
  BY <1>1, <1>3, <1>4 DEF MapInv
<1>5. CASE ~gone
  <2>1. id \in Node /\ HASH_COUNT \in Nat
    BY <1>2, <1>5, MapSets
  <2>2. map.hash_id[id] # HASH_COUNT
    <3>1. ~(map.hash_id[id] >= HASH_COUNT)
      BY <1>2, <1>5
    <3> QED BY <2>1, <3>1
  <2>3. Table(PushFree(Unlink(map, id), id), Without(mmap, map.val[id][1]))
    BY <1>1, <2>1, <2>2, FreeKeeps DEF Used
  <2> QED BY <1>1, <1>3, <1>5, <2>3 DEF MapInv
<1> QED BY <1>4, <1>5

\* map[key] = v of a key that is held.
LEMMA PutHeld ==
    ASSUME NEW m, NEW M, Table(m, M), NEW key \in Keys, key \in DOMAIN M, NEW v \in Mapped
    PROVE  Table([m EXCEPT !.val[Find(m, key)][2] = v], With(M, key, v))
<1>1. PICK id : id = Find(m, key)
  OBVIOUS
<1>2. id \in Used(m) /\ m.val[id][1] = key
  BY <1>1, FindIs
<1>3. Table([m EXCEPT !.val[id][2] = v], With(M, key, v))
  BY <1>2, PutKeeps
<1> QED BY <1>1, <1>3

LEMMA PutKeepsInv ==
    ASSUME MapInv, NEW key \in Keys, NEW v \in Mapped, MapPut(key, v)
    PROVE  MapInv'
<1>1. Table(map, mmap)
  BY DEF MapInv
<1>2. DOMAIN mmap \subseteq Keys /\ mmap \in [DOMAIN mmap -> Mapped]
      /\ map.count = Cardinality(Used(map)) /\ Keeps(map, mmap)
  BY <1>1 DEF Table, Keeps
<1>3. MapFull(map) <=> Cardinality(DOMAIN mmap) = NODE_COUNT
  BY <1>1, FullIs
<1>4. Holds(mmap, key) <=> Find(map, key) # INVALID_NODE_ID
  <2>1. /\ key \in DOMAIN mmap => Find(map, key) \in Used(map)
        /\ key \notin DOMAIN mmap => Find(map, key) = INVALID_NODE_ID
    BY <1>1, FindIs
  <2> QED BY <2>1, MapSets DEF Holds, Used
<1>5. PICK m, full :
         /\ m = IF Find(map, key) # INVALID_NODE_ID THEN map ELSE Link(map, key, Default)
         /\ full = (Find(map, key) = INVALID_NODE_ID /\ MapFull(map))
  OBVIOUS
<1>6. /\ thrown' = (Find(map, key) = INVALID_NODE_ID /\ MapFull(map))
      /\ map' = IF full THEN map ELSE [m EXCEPT !.val[Find(m, key)][2] = v]
      /\ mmap' = IF ~Holds(mmap, key) /\ Cardinality(DOMAIN mmap) = NODE_COUNT THEN mmap
                 ELSE With(mmap, key, v)
  BY <1>5 DEF MapPut
<1>7. CASE full
  <2>1. map' = map /\ mmap' = mmap
    BY <1>3, <1>4, <1>5, <1>6, <1>7
  <2>2. map.count = NODE_COUNT
    BY <1>2, <1>3, <1>5, <1>7, KeysCount
  <2> QED BY <1>1, <2>1, <2>2 DEF MapInv
<1>8. CASE ~full
  <2>1. ~thrown' /\ map' = [m EXCEPT !.val[Find(m, key)][2] = v] /\ mmap' = With(mmap, key, v)
    BY <1>3, <1>4, <1>5, <1>6, <1>8
  <2>2. CASE Holds(mmap, key)
    <3>1. m = map
      BY <1>4, <1>5, <2>2
    <3>2. Table([m EXCEPT !.val[Find(m, key)][2] = v], With(mmap, key, v))
      BY <1>1, <2>2, <3>1, PutHeld DEF Holds
    <3> QED BY <2>1, <3>2 DEF MapInv
  <2>3. CASE ~Holds(mmap, key)
    <3>1. ~MapFull(map) /\ m = Link(map, key, Default) /\ key \in Keys \ DOMAIN mmap
          /\ Default \in Mapped
      BY <1>4, <1>5, <1>8, <2>3, MapAssumption DEF Holds
    <3>2. PICK W : W = With(mmap, key, Default)
      OBVIOUS
    <3>3. Table(m, W)
      BY <1>1, <3>1, <3>2, LinkKeeps
    <3>4. key \in DOMAIN W
      BY <3>2 DEF With
    <3>5. Table([m EXCEPT !.val[Find(m, key)][2] = v], With(W, key, v))
      BY <3>3, <3>4, PutHeld
    <3>6. With(W, key, v) = With(mmap, key, v)
      <4>1. DOMAIN W = DOMAIN mmap \cup {key} /\ \A x \in DOMAIN mmap : x # key => W[x] = mmap[x]
        BY <3>2 DEF With
      <4>2. DOMAIN W \cup {key} = DOMAIN mmap \cup {key}
        BY <4>1
      <4> QED BY <4>1, <4>2 DEF With
    <3> QED BY <2>1, <3>5, <3>6 DEF MapInv
  <2> QED BY <2>2, <2>3
<1> QED BY <1>7, <1>8

LEMMA MapInvInit == MapInit => MapInv
BY ResetTable DEF MapInit, MapInv

LEMMA MapInvNext == MapInv /\ [MapNext]_mvars => MapInv'
<1> SUFFICES ASSUME MapInv, [MapNext]_mvars PROVE MapInv'
  OBVIOUS
<1>1. ASSUME NEW key \in Keys, NEW v \in Mapped, MapInsert(key, v) PROVE MapInv'
  BY <1>1, InsertKeeps
<1>2. ASSUME NEW key \in Keys, NEW v \in Mapped, MapPut(key, v) PROVE MapInv'
  BY <1>2, PutKeepsInv
<1>3. ASSUME NEW key \in Keys, MapErase(key) PROVE MapInv'
  BY <1>3, EraseKeeps
<1>4. ASSUME NEW id \in Pool, MapEraseNode(id) PROVE MapInv'
  BY <1>4, EraseNodeKeeps
<1>5. CASE MapClear
  BY <1>5, ResetTable DEF MapClear, MapInv
<1>6. CASE UNCHANGED mvars
  BY <1>6 DEF mvars, MapInv
<1> QED BY <1>1, <1>2, <1>3, <1>4, <1>5, <1>6 DEF MapNext

-----------------------------------------------------------------------------
(* zhash_map: what the invariant says of a map *)

\* u begins with x and goes on with F.
Runs(N, x, F, u) == u[0] = x /\ \A d \in 0 .. N - 1 : u[d + 1] = F[u[d]]

\* A function on 0 .. N may be defined by a first value and a step.
LEMMA RunExists ==
    ASSUME NEW N \in Nat, NEW X, NEW x \in X, NEW F \in [X -> X]
    PROVE  \E u \in [0 .. N -> X] : Runs(N, x, F, u)
<1> DEFINE Bad == {k \in Nat : ~\E u \in [0 .. k -> X] : Runs(k, x, F, u)}
<1>1. ASSUME Bad # {} PROVE FALSE
  <2>1. PICK k \in Bad : \A j \in Bad : k <= j
    <3>1. Bad \subseteq Nat
      OBVIOUS
    <3> QED BY <1>1, <3>1, LeastNat
  <2>2. k \in Nat /\ ~\E u \in [0 .. k -> X] : Runs(k, x, F, u)
    OBVIOUS
  <2>3. k # 0
    <3>1. PICK u : u = [d \in 0 .. 0 |-> x]
      OBVIOUS
    <3>2. u \in [0 .. 0 -> X] /\ Runs(0, x, F, u)
      BY <3>1 DEF Runs
    <3> QED BY <2>2, <3>2
  <2>4. PICK l \in Nat : k = l + 1
    <3>1. k - 1 \in Nat /\ k = (k - 1) + 1
      BY <2>2, <2>3
    <3> QED BY <3>1
  <2>5. l \notin Bad
    <3>1. ~(k <= l)
      BY <2>4
    <3> HIDE DEF Bad
    <3> QED BY <2>1, <3>1
  <2>6. PICK u \in [0 .. l -> X] : Runs(l, x, F, u)
    BY <2>5
  <2>7. PICK v : v = [d \in 0 .. k |-> IF d = k THEN F[u[l]] ELSE u[d]]
    OBVIOUS
  <2>8. u[l] \in X /\ \A d \in 0 .. k : d # k => d \in 0 .. l
    BY <2>4
  <2>9. v \in [0 .. k -> X]
    BY <2>7, <2>8
  <2>10. v[0] = x /\ v[k] = F[u[l]] /\ \A d \in 0 .. l : v[d] = u[d]
    BY <2>4, <2>6, <2>7 DEF Runs
  <2>11. ASSUME NEW d \in 0 .. k - 1 PROVE v[d + 1] = F[v[d]]
    <3>1. d \in 0 .. l
      BY <2>4
    <3>2. CASE d = l
      BY <2>4, <2>10, <3>1, <3>2
    <3>3. CASE d # l
      <4>1. d \in 0 .. l - 1 /\ d + 1 \in 0 .. l
        BY <3>1, <3>3
      <4> QED BY <2>6, <2>10, <3>1, <4>1 DEF Runs
    <3> QED BY <3>2, <3>3
  <2> QED BY <2>2, <2>9, <2>10, <2>11 DEF Runs
<1>2. N \notin Bad
  BY <1>1
<1> QED BY <1>2

\* The id that next_b finds behind n.
Behind(m, n) == IF n = INVALID_NODE_ID THEN INVALID_NODE_ID ELSE NextB(m, n + 1)

LEMMA BehindIs ==
    ASSUME NEW m, NEW M, Table(m, M), NEW n \in Used(m) \cup {INVALID_NODE_ID}
    PROVE  /\ Behind(m, n) \in Used(m) \cup {INVALID_NODE_ID}
           /\ n # INVALID_NODE_ID => Behind(m, n) > n /\ \A i \in Used(m) : n < i => Behind(m, n) <= i
<1>1. MapType(m) /\ m.hash_id[0] = HASH_COUNT
      /\ \A i \in Node : i > m.exploit => m.hash_id[i] = HASH_COUNT
  BY MapSets DEF Table, Chained
<1>2. CASE n = INVALID_NODE_ID
  BY <1>2 DEF Behind
<1>3. CASE n # INVALID_NODE_ID
  <2>1. n \in Used(m) /\ n \in Node /\ n \in Nat /\ Used(m) \subseteq Nat /\ n <= NODE_COUNT
        /\ NODE_COUNT \in Nat
    BY <1>3, MapSets DEF Used, Node
  <2>2. PICK k, in, b : k \in Nat /\ k = n + 1 /\ in = {i \in Used(m) : k <= i} /\ b = NextB(m, k)
    <3>1. n + 1 \in Nat
      BY <2>1
    <3> QED BY <3>1
  <2>3. (in = {} => b = INVALID_NODE_ID) /\ (in # {} => b \in in /\ \A i \in in : b <= i)
    BY <1>1, <2>2, NextBIs
  <2>4. Behind(m, n) = b
    BY <1>3, <2>2 DEF Behind
  <2>5. \A i \in Used(m) : n < i => i \in in
    BY <2>1, <2>2
  <2>6. CASE in = {}
    <3>1. b = NODE_COUNT + 1 /\ b > n
      BY <2>1, <2>3, <2>6, MapSets
    <3> QED BY <2>3, <2>4, <2>5, <2>6, <3>1
  <2>7. CASE in # {}
    <3>1. b \in Used(m) /\ b >= n + 1
      BY <2>2, <2>3, <2>7
    <3>2. b > n
      BY <2>1, <3>1
    <3> QED BY <2>3, <2>4, <2>5, <2>7, <3>1, <3>2
  <2> QED BY <2>6, <2>7
<1> QED BY <1>2, <1>3

LEMMA BeginIs ==
    ASSUME NEW m, NEW M, Table(m, M)
    PROVE  /\ NextB(m, m.first) \in Used(m) \cup {INVALID_NODE_ID}
           /\ \A i \in Used(m) : NextB(m, m.first) <= i
<1>1. MapType(m) /\ m.hash_id[0] = HASH_COUNT /\ FirstIs(m)
      /\ \A i \in Node : i > m.exploit => m.hash_id[i] = HASH_COUNT
  BY MapSets DEF Table, Chained
<1>2. PICK n, in, b : n \in Nat /\ n = m.first /\ in = {i \in Used(m) : n <= i} /\ b = NextB(m, n)
  BY <1>1 DEF MapType
<1>3. (in = {} => b = INVALID_NODE_ID) /\ (in # {} => b \in in /\ \A i \in in : b <= i)
  BY <1>1, <1>2, NextBIs
<1>4. in = Used(m)
  BY <1>1, <1>2 DEF FirstIs
<1> QED BY <1>2, <1>3, <1>4

\* Iterating reaches the nodes in use, all of them.
LEMMA IteratedIs ==
    ASSUME NEW m, NEW M, Table(m, M)
    PROVE  Iterated(m) = Used(m)
<1>1. PICK X : X = Used(m) \cup {INVALID_NODE_ID}
  OBVIOUS
<1>2. PICK x : x = NextB(m, m.first)
  OBVIOUS
<1>3. PICK F : F = [n \in X |-> Behind(m, n)]
  OBVIOUS
<1>4. F \in [X -> X]
  <2>1. \A n \in X : Behind(m, n) \in X
    BY <1>1, BehindIs
  <2> QED BY <1>3, <2>1
<1>5. x \in X /\ \A i \in Used(m) : x <= i
  BY <1>1, <1>2, BeginIs
<1>6. NODE_COUNT \in Nat /\ INVALID_NODE_ID = NODE_COUNT + 1 /\ Used(m) \subseteq Node /\ Node = 1 .. NODE_COUNT
  BY MapSets DEF Used, Node
<1>7. X \subseteq Nat /\ X \subseteq 1 .. NODE_COUNT + 1
  BY <1>1, <1>6
<1>8. PICK u \in [0 .. NODE_COUNT -> X] : Runs(NODE_COUNT, x, F, u)
  BY <1>4, <1>5, <1>6, RunExists
<1> DEFINE Step(i) == LET rest == {j \in i + 1 .. m.exploit : m.hash_id[j] < HASH_COUNT}
                      IN IF rest = {} THEN INVALID_NODE_ID
                         ELSE CHOOSE j \in rest : \A k \in rest : j <= k
           Next(f) == [k \in 0 .. NODE_COUNT |->
                         IF k = 0 THEN NextB(m, m.first)
                         ELSE IF f[k - 1] = INVALID_NODE_ID THEN INVALID_NODE_ID ELSE Step(f[k - 1])]
           Visit == CHOOSE f : f = Next(f)
<1>9. ASSUME NEW n \in X, n # INVALID_NODE_ID PROVE Step(n) = Behind(m, n)
  <2>1. m.hash_id \in [Pool -> 0 .. HASH_COUNT] /\ m.exploit \in 0 .. NODE_COUNT /\ HASH_COUNT \in Nat
        /\ n \in Nat
    BY <1>7, <1>9, MapSets DEF Table, MapType
  <2>2. ASSUME NEW j \in n + 1 .. m.exploit PROVE m.hash_id[j] < HASH_COUNT <=> m.hash_id[j] # HASH_COUNT
    <3>1. j \in Pool
      BY <2>1, <1>6 DEF Pool
    <3>2. m.hash_id[j] \in 0 .. HASH_COUNT
      BY <2>1, <3>1
    <3> QED BY <2>1, <3>2
  <2>3. {j \in n + 1 .. m.exploit : m.hash_id[j] < HASH_COUNT}
          = {j \in n + 1 .. m.exploit : m.hash_id[j] # HASH_COUNT}
    BY <2>2
  <2>4. PICK rest : /\ rest = {j \in n + 1 .. m.exploit : m.hash_id[j] < HASH_COUNT}
                    /\ rest = {j \in n + 1 .. m.exploit : m.hash_id[j] # HASH_COUNT}
    BY <2>3
  <2>5. Step(n) = IF rest = {} THEN INVALID_NODE_ID ELSE CHOOSE j \in rest : \A k \in rest : j <= k
    BY <2>4
  <2>6. NextB(m, n + 1)
          = IF rest = {} THEN INVALID_NODE_ID ELSE CHOOSE j \in rest : \A k \in rest : j <= k
    <3>1. PICK a : a = n + 1
      OBVIOUS
    <3>2. rest = {j \in a .. m.exploit : m.hash_id[j] # HASH_COUNT}
      BY <2>4, <3>1
    <3>3. NextB(m, a)
            = IF rest = {} THEN INVALID_NODE_ID ELSE CHOOSE j \in rest : \A k \in rest : j <= k
      BY <3>2 DEF NextB
    <3> QED BY <3>1, <3>3
  <2> QED BY <1>9, <2>5, <2>6 DEF Behind
<1>10. u = Next(u)
  <2> HIDE DEF Step
  <2>1. ASSUME NEW k \in 0 .. NODE_COUNT
        PROVE  u[k] = IF k = 0 THEN NextB(m, m.first)
                      ELSE IF u[k - 1] = INVALID_NODE_ID THEN INVALID_NODE_ID ELSE Step(u[k - 1])
    <3>1. CASE k = 0
      BY <1>2, <1>8, <3>1 DEF Runs
    <3>2. CASE k # 0
      <4>1. k - 1 \in 0 .. NODE_COUNT - 1 /\ (k - 1) + 1 = k /\ k - 1 \in 0 .. NODE_COUNT
        BY <1>6, <3>2
      <4>2. u[k] = F[u[k - 1]] /\ u[k - 1] \in X
        BY <1>8, <4>1 DEF Runs
      <4>3. u[k] = Behind(m, u[k - 1])
        BY <1>3, <4>2
      <4> QED BY <1>9, <3>2, <4>2, <4>3 DEF Behind
    <3> QED BY <3>1, <3>2
  <2> QED BY <1>8, <2>1
<1>11. PICK at : at = Visit
  OBVIOUS
<1>12. at = Next(at)
  <2> HIDE DEF Next
  <2> QED BY <1>10, <1>11
<1>13. Iterated(m) = {at[k] : k \in 0 .. NODE_COUNT} \ {INVALID_NODE_ID}
  BY <1>11 DEF Iterated
<1> HIDE DEF Visit, Step
<1>14. at[0] = x /\ \A k \in 0 .. NODE_COUNT : k # 0 =>
          at[k] = IF at[k - 1] = INVALID_NODE_ID THEN INVALID_NODE_ID ELSE Step(at[k - 1])
  BY <1>2, <1>6, <1>12
<1> HIDE DEF Next
<1> DEFINE Good(k) == /\ at[k] \in X /\ at[k] >= k + 1
                      /\ \A n \in Used(m) : (\E j \in 0 .. k : at[j] = n) \/ at[k] <= n
           Bad == {k \in 0 .. NODE_COUNT : ~Good(k)}
<1>15. ASSUME Bad # {} PROVE FALSE
  <2>1. PICK k \in Bad : \A j \in Bad : k <= j
    <3>1. Bad \subseteq Nat
      OBVIOUS
    <3> QED BY <1>15, <3>1, LeastNat
  <2>2. k \in 0 .. NODE_COUNT /\ ~Good(k)
    OBVIOUS
  <2>3. k # 0
    <3>1. at[0] \in X /\ at[0] >= 0 + 1
      BY <1>5, <1>7, <1>14
    <3> QED BY <1>5, <1>14, <2>2, <3>1
  <2>4. PICK l \in 0 .. NODE_COUNT : k = l + 1 /\ l = k - 1
    <3>1. k - 1 \in 0 .. NODE_COUNT /\ k = (k - 1) + 1
      BY <1>6, <2>2, <2>3
    <3> QED BY <3>1
  <2>5. Good(l)
    <3>1. ~(k <= l)
      BY <2>4
    <3>2. l \notin Bad
      <4> HIDE DEF Bad
      <4> QED BY <2>1, <3>1
    <3> QED BY <3>2
  <2>6. at[l] \in X /\ at[l] >= l + 1 /\ at[k] = Behind(m, at[l])
    <3>1. at[l] \in X /\ at[l] >= l + 1
      BY <2>5
    <3>2. at[k] = IF at[l] = INVALID_NODE_ID THEN INVALID_NODE_ID ELSE Step(at[l])
      BY <1>14, <2>2, <2>3, <2>4
    <3> QED BY <1>9, <3>1, <3>2 DEF Behind
  <2>7. PICK a, b : a = at[l] /\ b = at[k]
    OBVIOUS
  <2>8. /\ a \in X /\ b \in X /\ a \in Nat /\ b \in Nat /\ b = Behind(m, a)
        /\ a # INVALID_NODE_ID => b > a /\ \A i \in Used(m) : a < i => b <= i
    <3>1. a \in Used(m) \cup {INVALID_NODE_ID} /\ b = Behind(m, a)
      BY <1>1, <2>6, <2>7
    <3>2. /\ Behind(m, a) \in Used(m) \cup {INVALID_NODE_ID}
          /\ a # INVALID_NODE_ID => Behind(m, a) > a /\ \A i \in Used(m) : a < i => Behind(m, a) <= i
      BY <3>1, BehindIs
    <3> QED BY <1>1, <1>7, <3>1, <3>2
  <2>9. b >= k + 1
    <3>1. CASE a = INVALID_NODE_ID
      BY <1>6, <2>2, <2>8, <3>1 DEF Behind
    <3>2. CASE a # INVALID_NODE_ID
      BY <2>4, <2>6, <2>7, <2>8, <3>2
    <3> QED BY <3>1, <3>2
  <2>10. ASSUME NEW n \in Used(m) PROVE (\E j \in 0 .. k : at[j] = n) \/ b <= n
    <3>1. n \in Nat /\ n < INVALID_NODE_ID
      BY <1>6
    <3>2. (\E j \in 0 .. l : at[j] = n) \/ a <= n
      BY <2>5, <2>7
    <3>3. CASE \E j \in 0 .. l : at[j] = n
      <4>1. PICK j \in 0 .. l : at[j] = n
        BY <3>3
      <4>2. j \in 0 .. k
        BY <2>4
      <4> QED BY <4>1, <4>2
    <3>4. CASE a = n
      <4>1. l \in 0 .. k
        BY <2>4
      <4> QED BY <2>7, <3>4, <4>1
    <3>5. CASE a < n
      BY <1>6, <2>8, <3>1, <3>5
    <3> QED BY <2>8, <3>1, <3>2, <3>3, <3>4, <3>5
  <2> QED BY <2>2, <2>7, <2>8, <2>9, <2>10
<1>16. \A k \in 0 .. NODE_COUNT : Good(k)
  BY <1>15
<1>17. \A k \in 0 .. NODE_COUNT : at[k] \in X
  BY <1>16
<1>18. ASSUME NEW n \in Used(m) PROVE \E j \in 0 .. NODE_COUNT : at[j] = n
  <2>1. NODE_COUNT \in 0 .. NODE_COUNT
    BY <1>6
  <2>2. Good(NODE_COUNT)
    BY <1>16, <2>1
  <2>3. at[NODE_COUNT] >= NODE_COUNT + 1 /\ at[NODE_COUNT] \in X
    BY <2>2
  <2>4. n \in Nat /\ n <= NODE_COUNT /\ at[NODE_COUNT] \in Nat
    <3>1. n \in 1 .. NODE_COUNT
      BY <1>6
    <3>2. at[NODE_COUNT] \in Nat
      BY <1>7, <2>3
    <3> QED BY <1>6, <3>1, <3>2
  <2>5. ~(at[NODE_COUNT] <= n)
    BY <1>6, <2>3, <2>4
  <2> QED BY <2>2, <2>5
<1>19. INVALID_NODE_ID \notin Used(m)
  BY MapSets DEF Used
<1> HIDE DEF Good, Bad
<1>20. \A n : n \in Iterated(m) <=> n \in Used(m)
  BY <1>1, <1>13, <1>17, <1>18, <1>19
<1> QED BY <1>20

LEMMA ContentsHold == MapInv => MapContents
<1> SUFFICES ASSUME MapInv PROVE MapContents
  OBVIOUS
<1>1. Table(map, mmap) /\ (thrown => map.count = NODE_COUNT)
  BY DEF MapInv
<1>2. Keeps(map, mmap)
  BY <1>1 DEF Table
<1>3. ASSUME NEW key \in Keys
      PROVE  /\ Holds(mmap, key) <=> Find(map, key) # INVALID_NODE_ID
             /\ Holds(mmap, key) => map.val[Find(map, key)] = <<key, mmap[key]>>
  <2>1. /\ key \in DOMAIN mmap => Find(map, key) \in Used(map) /\ map.val[Find(map, key)][1] = key
        /\ key \notin DOMAIN mmap => Find(map, key) = INVALID_NODE_ID
    BY <1>1, FindIs
  <2>2. INVALID_NODE_ID \notin Used(map)
    BY MapSets DEF Used
  <2> QED BY <1>2, <2>1, <2>2 DEF Holds, Keeps
<1>4. map.count = Cardinality(DOMAIN mmap)
  BY <1>2, KeysCount DEF Keeps
<1> QED BY <1>1, <1>3, <1>4 DEF MapContents

LEMMA IteratesHold == MapInv => MapIterates
<1> SUFFICES ASSUME MapInv PROVE MapIterates
  OBVIOUS
<1>1. Table(map, mmap) /\ Keeps(map, mmap)
  BY DEF MapInv, Table
<1>2. Iterated(map) = Used(map)
  BY <1>1, IteratedIs
<1>3. {map.val[n][1] : n \in Used(map)} = DOMAIN mmap
  <2>1. \A n \in Used(map) : map.val[n][1] \in DOMAIN mmap
    BY <1>1 DEF Keeps
  <2>2. \A key \in DOMAIN mmap : \E n \in Used(map) : map.val[n][1] = key
    BY <1>1 DEF Keeps
  <2> QED BY <2>1, <2>2
<1> QED BY <1>1, <1>2, <1>3 DEF MapIterates, Keeps

LEMMA NodesHold == MapInv => MapNodes
<1> SUFFICES ASSUME MapInv PROVE MapNodes
  OBVIOUS
<1>1. PICK C, F : Chained(map, C, F)
  BY DEF MapInv, Table
<1>2. PICK free : free = ChainFrom(map, map.next[FREE_POOL])
  OBVIOUS
<1>3. free = F /\ F \in Seq(Node) /\ \A i, j \in 1 .. Len(F) : F[i] = F[j] => i = j
  <2>1. F \in Seq(Node) /\ Spelled(map.next, map.next[FREE_POOL], FREE_POOL, F)
    BY <1>1 DEF Chained
  <2>2. ChainFrom(map, map.next[FREE_POOL]) = F
    BY <2>1, ChainFromIs
  <2> QED BY <1>2, <2>1, <2>2 DEF Spelled
<1>4. \A h \in Buckets : Chain(map, h) = C[h] /\ C[h] \in Seq(Node) /\ Len(C[h]) <= NODE_COUNT
  BY <1>1, ChainIs
<1>5. \A h \in Buckets : \A i, j \in 1 .. Len(C[h]) : C[h][i] = C[h][j] => i = j
  BY <1>1 DEF Chained, Spelled
<1>6. /\ \A n \in Node : \A h \in Buckets : Among(n, C[h]) <=> map.hash_id[n] = h
      /\ \A n \in Node : Among(n, F) <=> n <= map.exploit /\ map.hash_id[n] = HASH_COUNT
      /\ \A n \in Node : n > map.exploit => map.hash_id[n] = HASH_COUNT
      /\ map.hash_id \in [Pool -> 0 .. HASH_COUNT] /\ map.exploit \in Nat
  BY <1>1, MapSets DEF Chained, MapInv, Table, MapType
<1> DEFINE InFree(n) == {k \in DOMAIN free : free[k] = n}
           InChains(n) == {p \in Buckets \X (1 .. NODE_COUNT) :
                             /\ p[2] \in DOMAIN Chain(map, p[1])
                             /\ Chain(map, p[1])[p[2]] = n}
<1>7. ASSUME NEW n \in Node
      PROVE  Cardinality(InFree(n)) + Cardinality(InChains(n)) = IF n <= map.exploit THEN 1 ELSE 0
  <2>1. Cardinality(InFree(n)) = IF Among(n, F) THEN 1 ELSE 0
    <3>1. CASE Among(n, F)
      <4>1. PICK k \in 1 .. Len(F) : F[k] = n
        BY <3>1 DEF Among
      <4>2. InFree(n) = {k}
        BY <1>3, <4>1
      <4> QED BY <3>1, <4>2, FS_Singleton
    <3>2. CASE ~Among(n, F)
      <4>1. InFree(n) = {}
        BY <1>3, <3>2 DEF Among
      <4> QED BY <3>2, <4>1, FS_EmptySet
    <3> QED BY <3>1, <3>2
  <2>2. PICK h : h = map.hash_id[n]
    OBVIOUS
  <2>3. Cardinality(InChains(n)) = IF h \in Buckets THEN 1 ELSE 0
    <3>1. CASE h \in Buckets
      <4>1. PICK k \in 1 .. Len(C[h]) : C[h][k] = n
        BY <1>6, <2>2, <3>1 DEF Among
      <4>2. k \in 1 .. NODE_COUNT /\ k \in DOMAIN C[h]
        BY <1>4, <3>1, MapSets
      <4>3. <<h, k>> \in InChains(n)
        BY <1>4, <3>1, <4>1, <4>2
      <4>4. ASSUME NEW p \in InChains(n) PROVE p = <<h, k>>
        <5>1. PICK g \in Buckets, i \in 1 .. NODE_COUNT : p = <<g, i>>
          OBVIOUS
        <5>2. i \in DOMAIN C[g] /\ C[g][i] = n
          BY <1>4, <5>1
        <5>3. i \in 1 .. Len(C[g])
          BY <1>4, <5>2
        <5>4. g = h
          BY <1>6, <2>2, <5>2, <5>3 DEF Among
        <5> QED BY <1>5, <4>1, <5>1, <5>2, <5>3, <5>4
      <4>5. InChains(n) = {<<h, k>>}
        BY <4>3, <4>4
      <4> QED BY <3>1, <4>5, FS_Singleton
    <3>2. CASE h \notin Buckets
      <4>1. ASSUME NEW p \in InChains(n) PROVE FALSE
        <5>1. PICK g \in Buckets, i \in 1 .. NODE_COUNT : p = <<g, i>>
          OBVIOUS
        <5>2. i \in DOMAIN C[g] /\ C[g][i] = n
          BY <1>4, <5>1
        <5>3. i \in 1 .. Len(C[g])
          BY <1>4, <5>2
        <5> QED BY <1>6, <2>2, <3>2, <5>2, <5>3 DEF Among
      <4>2. InChains(n) = {}
        BY <4>1
      <4> QED BY <3>2, <4>2, FS_EmptySet
    <3> QED BY <3>1, <3>2
  <2>4. h \in Buckets <=> h # HASH_COUNT
    BY <1>6, <2>2, MapSets
  <2>5. n \in Nat
    BY MapSets
  <2> QED BY <1>6, <2>1, <2>2, <2>3, <2>4, <2>5
<1>8. ASSUME NEW n \in Node, NEW h \in Buckets, \E k \in DOMAIN Chain(map, h) : Chain(map, h)[k] = n
      PROVE  map.hash_id[n] = h
  <2>1. Among(n, C[h])
    BY <1>4, <1>8 DEF Among
  <2> QED BY <1>6, <2>1
<1>9. ASSUME NEW n \in Node, \E k \in DOMAIN free : free[k] = n
      PROVE  map.hash_id[n] = HASH_COUNT
  <2>1. Among(n, F)
    BY <1>3, <1>9 DEF Among
  <2> QED BY <1>6, <2>1
<1> QED BY <1>2, <1>7, <1>8, <1>9 DEF MapNodes, Node, Buckets

(* A zhash_map finds, counts and iterates over exactly the keys put in and *)
(* not erased, and each of its nodes is in one bucket's chain or in the    *)
(* free list, for every number of nodes, all keys and every hash.          *)
THEOREM MapIsSound == MapSpec => []MapSound
<1>1. MapInv => MapSound
  BY ContentsHold, IteratesHold, NodesHold DEF MapSound
<1> QED BY <1>1, MapInvInit, MapInvNext, PTL DEF MapSpec

-----------------------------------------------------------------------------
(* Places in a sequence *)

\* s with x at place k.
Inserted(s, k, x) ==
    [i \in 1 .. Len(s) + 1 |-> IF i < k THEN s[i] ELSE IF i = k THEN x ELSE s[i - 1]]

LEMMA InsertedFacts ==
    ASSUME NEW S, NEW s \in Seq(S), NEW k \in 1 .. Len(s) + 1, NEW x \in S
    PROVE  /\ Inserted(s, k, x) \in Seq(S) /\ Len(Inserted(s, k, x)) = Len(s) + 1
           /\ \A i \in 1 .. Len(s) + 1 :
                Inserted(s, k, x)[i] = IF i < k THEN s[i] ELSE IF i = k THEN x ELSE s[i - 1]
           /\ \A y : Among(y, Inserted(s, k, x)) <=> y = x \/ Among(y, s)
<1>1. PICK n \in Nat : n = Len(s)
  OBVIOUS
<1>2. PICK t : t = Inserted(s, k, x)
  OBVIOUS
<1>3. t = [i \in 1 .. n + 1 |-> IF i < k THEN s[i] ELSE IF i = k THEN x ELSE s[i - 1]]
  BY <1>1, <1>2 DEF Inserted
<1>4. k \in 1 .. n + 1
  BY <1>1
<1>5. t \in [1 .. n + 1 -> S]
  <2>1. ASSUME NEW i \in 1 .. n + 1
        PROVE  (IF i < k THEN s[i] ELSE IF i = k THEN x ELSE s[i - 1]) \in S
    <3>1. (i < k => i \in 1 .. Len(s)) /\ (~(i < k) /\ i # k => i - 1 \in 1 .. Len(s))
      BY <1>1, <1>4
    <3> QED BY <3>1
  <2> QED BY <1>3, <2>1
<1>6. t \in Seq(S) /\ Len(t) = n + 1
  BY <1>5
<1>7. \A i \in 1 .. n + 1 : t[i] = IF i < k THEN s[i] ELSE IF i = k THEN x ELSE s[i - 1]
  BY <1>3
<1>8. ASSUME NEW y PROVE Among(y, t) <=> y = x \/ Among(y, s)
  <2>1. ASSUME Among(y, t), y # x PROVE Among(y, s)
    <3>1. PICK i \in 1 .. n + 1 : t[i] = y
      BY <1>6, <2>1 DEF Among
    <3>2. i # k
      BY <1>7, <2>1, <3>1
    <3>3. PICK j : j = IF i < k THEN i ELSE i - 1
      OBVIOUS
    <3>4. j \in 1 .. n /\ s[j] = y
      BY <1>4, <1>7, <3>1, <3>2, <3>3
    <3> QED BY <1>1, <3>4 DEF Among
  <2>2. ASSUME y = x PROVE Among(y, t)
    BY <1>4, <1>6, <1>7, <2>2 DEF Among
  <2>3. ASSUME Among(y, s) PROVE Among(y, t)
    <3>1. PICK j \in 1 .. n : s[j] = y
      BY <1>1, <2>3 DEF Among
    <3>2. PICK i \in 1 .. n + 1 : i = IF j < k THEN j ELSE j + 1
      <4>1. j \in 1 .. n + 1 /\ j + 1 \in 1 .. n + 1
        OBVIOUS
      <4> QED BY <4>1
    <3>3. t[i] = s[j]
      BY <1>4, <1>7, <3>2
    <3> QED BY <1>6, <3>1, <3>3 DEF Among
  <2> QED BY <2>1, <2>2, <2>3
<1> QED BY <1>1, <1>2, <1>6, <1>7, <1>8

\* What stands at a place of s, and END_ID before and behind it.
Ring(s, i) == IF i \in 1 .. Len(s) THEN s[i] ELSE END_ID

LEMMA RingInserted ==
    ASSUME NEW S, NEW s \in Seq(S), NEW k \in 1 .. Len(s) + 1, NEW x \in S, NEW i \in Int
    PROVE  Ring(Inserted(s, k, x), i) = IF i < k THEN Ring(s, i) ELSE IF i = k THEN x ELSE Ring(s, i - 1)
<1>1. /\ Len(Inserted(s, k, x)) = Len(s) + 1
      /\ \A j \in 1 .. Len(s) + 1 :
           Inserted(s, k, x)[j] = IF j < k THEN s[j] ELSE IF j = k THEN x ELSE s[j - 1]
  BY InsertedFacts, SMTT(60)
<1>2. PICK n \in Nat : n = Len(s)
  OBVIOUS
<1>3. PICK t : t = Inserted(s, k, x)
  OBVIOUS
<1>4. /\ t = Inserted(s, k, x) /\ n = Len(s) /\ n \in Nat /\ Len(t) = n + 1
      /\ \A j \in 1 .. n + 1 : t[j] = IF j < k THEN s[j] ELSE IF j = k THEN x ELSE s[j - 1]
  BY <1>1, <1>2, <1>3
<1>5. k \in 1 .. n + 1
  BY <1>4
<1>6. CASE i \in 1 .. n + 1
  <2>1. (i < k => i \in 1 .. n) /\ (~(i < k) /\ i # k => i - 1 \in 1 .. n)
    BY <1>4, <1>5, <1>6
  <2> QED BY <1>4, <1>6, <2>1 DEF Ring
<1>7. CASE i \notin 1 .. n + 1
  <2>1. i # k /\ i \notin 1 .. n /\ (~(i < k) => i - 1 \notin 1 .. n)
    BY <1>4, <1>5, <1>7
  <2> QED BY <1>4, <1>7, <2>1 DEF Ring
<1> QED BY <1>6, <1>7

LEMMA RingDropped ==
    ASSUME NEW S, NEW s \in Seq(S), NEW k \in 1 .. Len(s),
           \A i, j \in 1 .. Len(s) : s[i] = s[j] => i = j, NEW i \in Int
    PROVE  Ring(Dropped(s, k), i) = IF i < k THEN Ring(s, i) ELSE Ring(s, i + 1)
<1>1. PICK t, n : /\ t = Dropped(s, k) /\ n + 1 = Len(s) /\ n \in Nat /\ Len(t) = n
                  /\ \A j \in 1 .. n : t[j] = IF j < k THEN s[j] ELSE s[j + 1]
  <2>1. /\ Len(Dropped(s, k)) = Len(s) - 1
        /\ \A j \in 1 .. Len(s) - 1 : Dropped(s, k)[j] = IF j < k THEN s[j] ELSE s[j + 1]
    BY DroppedFacts
  <2>2. PICK n \in Nat : n = Len(s) - 1 /\ n + 1 = Len(s)
    <3>1. Len(s) \in Nat /\ Len(s) # 0
      OBVIOUS
    <3> QED BY <3>1
  <2> QED BY <2>1, <2>2
<1>2. k \in 1 .. n + 1
  BY <1>1
<1>3. CASE i \in 1 .. n
  <2>1. i \in 1 .. n + 1 /\ i + 1 \in 1 .. n + 1
    BY <1>1, <1>3
  <2> QED BY <1>1, <1>3, <2>1 DEF Ring
<1>4. CASE i \notin 1 .. n
  <2>1. (i < k => i \notin 1 .. n + 1) /\ (~(i < k) => i + 1 \notin 1 .. n + 1)
    BY <1>1, <1>2, <1>4
  <2> QED BY <1>1, <1>4, <2>1 DEF Ring
<1> QED BY <1>3, <1>4

-----------------------------------------------------------------------------
(* zlist: nodes that are linked forward and backward *)

(* next_ leads through s from the head to the end node, front_ back; no    *)
(* node is met twice.                                                      *)
Doubly(nx, fr, hd, s) ==
    /\ hd = Ring(s, 1)
    /\ \A i \in 1 .. Len(s) : nx[Ring(s, i)] = Ring(s, i + 1)
    /\ \A i \in 1 .. Len(s) + 1 : fr[Ring(s, i)] = Ring(s, i - 1)
    /\ \A i, j \in 1 .. Len(s) + 1 : Ring(s, i) = Ring(s, j) => i = j

LEMMA DoublyInsert ==
    ASSUME NEW nx, NEW fr, NEW hd, NEW s \in Seq(Nodes), NEW k \in 1 .. Len(s) + 1, NEW id \in Nodes,
           Doubly(nx, fr, hd, s), ~Among(id, s), id # END_ID,
           NEW pos, pos = Ring(s, k), NEW nx2, NEW fr2,
           nx2[id] = pos, k # 1 => nx2[fr[pos]] = id,
           \A n : n \in Nodes /\ n # id /\ (k # 1 => n # fr[pos]) => nx2[n] = nx[n],
           fr2[id] = fr[pos], fr2[pos] = id,
           \A n : n \in Nodes \cup {END_ID} /\ n # id /\ n # pos => fr2[n] = fr[n]
    PROVE  Doubly(nx2, fr2, IF k = 1 THEN id ELSE hd, Inserted(s, k, id))
<1>1. Len(Inserted(s, k, id)) = Len(s) + 1
  <2>1. PICK n \in Nat : n = Len(s)
    OBVIOUS
  <2>2. Inserted(s, k, id) = [i \in 1 .. n + 1 |->
                               IF i < k THEN s[i] ELSE IF i = k THEN id ELSE s[i - 1]]
    BY ONLY <2>1 DEF Inserted
  <2>3. Len(Inserted(s, k, id)) = n + 1
    BY ONLY <2>1, <2>2
  <2> QED BY <2>1, <2>3
<1>2. PICK t : t = Inserted(s, k, id)
  OBVIOUS
<1>3. PICK m \in Nat : m = Len(s)
  OBVIOUS
<1>4. Len(t) = m + 1
  BY <1>1, <1>2, <1>3
<1>5. \A i \in Int : Ring(t, i) = IF i < k THEN Ring(s, i) ELSE IF i = k THEN id ELSE Ring(s, i - 1)
  BY <1>2, RingInserted
<1>6. /\ hd = Ring(s, 1)
      /\ \A i \in 1 .. m : nx[Ring(s, i)] = Ring(s, i + 1)
      /\ \A i \in 1 .. m + 1 : fr[Ring(s, i)] = Ring(s, i - 1)
      /\ \A i, j \in 1 .. m + 1 : Ring(s, i) = Ring(s, j) => i = j
  BY <1>3 DEF Doubly
<1>7. k \in 1 .. m + 1 /\ k \in Int
  BY <1>3
<1>8. \A i \in Int : Ring(s, i) # id /\ Ring(s, i) \in Nodes \cup {END_ID}
  BY <1>3 DEF Ring, Among
<1>9. \A i \in 1 .. m : Ring(s, i) \in Nodes
  BY <1>3 DEF Ring
<1>10. fr[pos] = Ring(s, k - 1)
  BY <1>6, <1>7
<1>11. (IF k = 1 THEN id ELSE hd) = Ring(t, 1)
  BY <1>5, <1>6, <1>7
<1>12. ASSUME NEW i \in 1 .. m + 1 PROVE nx2[Ring(t, i)] = Ring(t, i + 1)
  <2>1. CASE i + 1 < k
    <3>1. Ring(t, i) = Ring(s, i) /\ Ring(t, i + 1) = Ring(s, i + 1) /\ i \in 1 .. m
          /\ i # k - 1 /\ k - 1 \in 1 .. m
      BY <1>5, <1>7, <2>1
    <3>2. Ring(s, i) # Ring(s, k - 1)
      BY <1>6, <3>1
    <3> QED BY <1>6, <1>8, <1>9, <1>10, <3>1, <3>2
  <2>2. CASE i + 1 = k
    <3>1. Ring(t, i) = Ring(s, k - 1) /\ Ring(t, i + 1) = id /\ k # 1
      BY <1>5, <1>7, <2>2
    <3> QED BY <1>10, <3>1
  <2>3. CASE i = k
    <3>1. Ring(t, i) = id /\ Ring(t, i + 1) = Ring(s, k)
      BY <1>5, <1>7, <2>3
    <3> QED BY <3>1
  <2>4. CASE i > k
    <3>1. PICK j \in 1 .. m : i = j + 1
      <4>1. i - 1 \in 1 .. m /\ i = (i - 1) + 1
        BY <1>7, <2>4
      <4> QED BY <4>1
    <3>2. Ring(t, i) = Ring(s, j) /\ Ring(t, i + 1) = Ring(s, j + 1)
      BY <1>5, <1>7, <2>4, <3>1
    <3>3. k # 1 => Ring(s, j) # Ring(s, k - 1)
      <4>1. k # 1 => k - 1 \in 1 .. m + 1 /\ j # k - 1
        BY <1>7, <2>4, <3>1
      <4> QED BY <1>6, <4>1
    <3> QED BY <1>6, <1>8, <1>9, <1>10, <3>2, <3>3
  <2> QED BY <1>7, <2>1, <2>2, <2>3, <2>4
<1>13. ASSUME NEW i \in 1 .. m + 2 PROVE fr2[Ring(t, i)] = Ring(t, i - 1)
  <2>1. CASE i < k
    <3>1. Ring(t, i) = Ring(s, i) /\ Ring(t, i - 1) = Ring(s, i - 1) /\ i \in 1 .. m + 1 /\ i # k
      BY <1>5, <1>7, <2>1
    <3>2. Ring(s, i) # pos
      BY <1>6, <1>7, <3>1
    <3> QED BY <1>6, <1>8, <3>1, <3>2
  <2>2. CASE i = k
    <3>1. Ring(t, i) = id /\ Ring(t, i - 1) = Ring(s, k - 1)
      BY <1>5, <1>7, <2>2
    <3> QED BY <1>10, <3>1
  <2>3. CASE i = k + 1
    <3>1. Ring(t, i) = Ring(s, k) /\ Ring(t, i - 1) = id
      BY <1>5, <1>7, <2>3
    <3> QED BY <3>1
  <2>4. CASE i > k + 1
    <3>1. PICK j \in 1 .. m + 1 : i = j + 1 /\ j # k
      <4>1. i - 1 \in 1 .. m + 1 /\ i = (i - 1) + 1 /\ i - 1 # k
        BY <1>7, <2>4
      <4> QED BY <4>1
    <3>2. Ring(t, i) = Ring(s, j) /\ Ring(t, i - 1) = Ring(s, j - 1)
      BY <1>5, <1>7, <2>4, <3>1
    <3>3. Ring(s, j) # pos
      BY <1>6, <1>7, <3>1
    <3> QED BY <1>6, <1>8, <3>2, <3>3
  <2> QED BY <1>7, <2>1, <2>2, <2>3, <2>4
<1>14. ASSUME NEW i \in 1 .. m + 2, NEW j \in 1 .. m + 2, Ring(t, i) = Ring(t, j) PROVE i = j
  <2>1. ASSUME NEW x \in 1 .. m + 2, x # k
        PROVE  /\ Ring(t, x) = Ring(s, IF x < k THEN x ELSE x - 1) /\ Ring(t, x) # id
               /\ (IF x < k THEN x ELSE x - 1) \in 1 .. m + 1
    BY <1>5, <1>7, <1>8, <2>1
  <2>2. CASE i = k \/ j = k
    BY <1>5, <1>7, <1>14, <2>1, <2>2
  <2>3. CASE i # k /\ j # k
    <3>1. PICK a \in 1 .. m + 1, b \in 1 .. m + 1 :
              a = (IF i < k THEN i ELSE i - 1) /\ b = (IF j < k THEN j ELSE j - 1)
      BY <2>1, <2>3
    <3>2. Ring(s, a) = Ring(s, b)
      BY <1>14, <2>1, <2>3, <3>1
    <3>3. a = b
      BY <1>6, <3>2
    <3> QED BY <1>7, <2>3, <3>1, <3>3
  <2> QED BY <2>2, <2>3
<1>15. (m + 1) + 1 = m + 2
  BY <1>3
<1> QED BY <1>2, <1>4, <1>11, <1>12, <1>13, <1>14, <1>15 DEF Doubly

LEMMA DoublyDrop ==
    ASSUME NEW nx, NEW fr, NEW hd, NEW s \in Seq(Nodes), NEW k \in 1 .. Len(s), NEW id, id = s[k],
           END_ID \notin Nodes, Doubly(nx, fr, hd, s), NEW nx2, NEW fr2,
           k # 1 => nx2[fr[id]] = nx[id],
           \A n : n \in Nodes /\ n # id /\ (k # 1 => n # fr[id]) => nx2[n] = nx[n],
           fr2[nx[id]] = fr[id],
           \A n : n \in Nodes \cup {END_ID} /\ n # id /\ n # nx[id] => fr2[n] = fr[n]
    PROVE  Doubly(nx2, fr2, IF k = 1 THEN nx[id] ELSE hd, Dropped(s, k))
<1>1. PICK t : t = Dropped(s, k)
  OBVIOUS
<1>2. PICK m \in Nat : m + 1 = Len(s) /\ Len(s) - 1 = m
  <2>1. Len(s) \in Nat /\ Len(s) # 0
    OBVIOUS
  <2> QED BY <2>1
<1>3. \A i, j \in 1 .. Len(s) : s[i] = s[j] => i = j
  <2>1. \A i, j \in 1 .. Len(s) + 1 : Ring(s, i) = Ring(s, j) => i = j
    BY DEF Doubly
  <2>2. \A i \in 1 .. Len(s) : i \in 1 .. Len(s) + 1 /\ Ring(s, i) = s[i]
    BY <1>2 DEF Ring
  <2> QED BY <2>1, <2>2
<1>4. Len(t) = m
  <2>1. Len(Dropped(s, k)) = Len(s) - 1
    BY <1>3, DroppedFacts
  <2> QED BY <1>1, <1>2, <2>1
<1>5. \A i \in Int : Ring(t, i) = IF i < k THEN Ring(s, i) ELSE Ring(s, i + 1)
  BY <1>1, <1>3, RingDropped
<1>6. /\ hd = Ring(s, 1)
      /\ \A i \in 1 .. m + 1 : nx[Ring(s, i)] = Ring(s, i + 1)
      /\ \A i \in 1 .. m + 2 : fr[Ring(s, i)] = Ring(s, i - 1)
      /\ \A i, j \in 1 .. m + 2 : Ring(s, i) = Ring(s, j) => i = j
  <2>1. Len(s) + 1 = m + 2 /\ Len(s) = m + 1
    BY <1>2
  <2> QED BY <2>1 DEF Doubly
<1>7. k \in 1 .. m + 1 /\ k \in Int /\ id = Ring(s, k)
  BY <1>2 DEF Ring
<1>8. \A i \in Int : Ring(s, i) \in Nodes \cup {END_ID}
  BY <1>2 DEF Ring
<1>9. \A i \in 1 .. m + 1 : Ring(s, i) \in Nodes
  BY <1>2 DEF Ring
<1>10. nx[id] = Ring(s, k + 1) /\ fr[id] = Ring(s, k - 1)
  BY <1>6, <1>7
<1>11. (IF k = 1 THEN nx[id] ELSE hd) = Ring(t, 1)
  BY <1>5, <1>6, <1>7, <1>10
<1>12. ASSUME NEW i \in 1 .. m PROVE nx2[Ring(t, i)] = Ring(t, i + 1)
  <2>1. CASE i + 1 < k
    <3>1. i \in Int /\ i + 1 \in Int /\ i < k
      BY <1>7, <2>1
    <3>2. Ring(t, i) = Ring(s, i) /\ Ring(t, i + 1) = Ring(s, i + 1) /\ i \in 1 .. m + 1
          /\ i # k /\ i # k - 1 /\ k - 1 \in 1 .. m + 1
      <4>1. i \in 1 .. m + 1 /\ i # k /\ i # k - 1 /\ k - 1 \in 1 .. m + 1
        BY <1>7, <2>1
      <4> QED BY <1>5, <2>1, <3>1, <4>1
    <3>3. Ring(s, i) # id /\ Ring(s, i) # Ring(s, k - 1)
      BY <1>6, <1>7, <3>2
    <3> QED BY <1>6, <1>9, <1>10, <3>2, <3>3
  <2>2. CASE i + 1 = k
    <3>1. Ring(t, i) = Ring(s, k - 1) /\ Ring(t, i + 1) = Ring(s, k + 1) /\ k # 1
      <4>1. i \in Int /\ k \in Int /\ i < k /\ ~(k < k) /\ i = k - 1 /\ k # 1
        BY <1>7, <2>2
      <4> QED BY <1>5, <2>2, <4>1
    <3> QED BY <1>10, <3>1
  <2>3. CASE i + 1 > k
    <3>1. PICK j \in 1 .. m + 1 : j = i + 1 /\ j # k /\ j # k - 1
      <4>1. i + 1 \in 1 .. m + 1 /\ i + 1 # k /\ i + 1 # k - 1
        BY <1>7, <2>3
      <4> QED BY <4>1
    <3>2. Ring(t, i) = Ring(s, j) /\ Ring(t, i + 1) = Ring(s, j + 1)
      <4>1. i \in Int /\ i + 1 \in Int /\ ~(i < k) /\ ~(i + 1 < k)
        BY <1>7, <2>3
      <4> QED BY <1>5, <3>1, <4>1
    <3>3. Ring(s, j) # id /\ (k # 1 => Ring(s, j) # Ring(s, k - 1))
      <4>1. k # 1 => k - 1 \in 1 .. m + 2
        BY <1>7
      <4> QED BY <1>6, <1>7, <3>1, <4>1
    <3> QED BY <1>6, <1>9, <1>10, <3>2, <3>3
  <2> QED BY <1>7, <2>1, <2>2, <2>3
<1>13. ASSUME NEW i \in 1 .. m + 1 PROVE fr2[Ring(t, i)] = Ring(t, i - 1)
  <2>1. CASE i < k
    <3>1. Ring(t, i) = Ring(s, i) /\ Ring(t, i - 1) = Ring(s, i - 1) /\ i # k /\ i # k + 1
          /\ i \in 1 .. m + 2 /\ k \in 1 .. m + 2 /\ k + 1 \in 1 .. m + 2
      <4>1. i \in Int /\ i - 1 \in Int /\ i < k /\ i - 1 < k
        BY <1>7, <2>1
      <4>2. i # k /\ i # k + 1 /\ i \in 1 .. m + 2 /\ k \in 1 .. m + 2 /\ k + 1 \in 1 .. m + 2
        BY <1>7, <2>1
      <4> QED BY <1>5, <4>1, <4>2
    <3>2. Ring(s, i) # id /\ Ring(s, i) # Ring(s, k + 1)
      BY <1>6, <1>7, <3>1
    <3> QED BY <1>6, <1>8, <1>10, <3>1, <3>2
  <2>2. CASE i = k
    <3>1. Ring(t, i) = Ring(s, k + 1) /\ Ring(t, i - 1) = Ring(s, k - 1)
      <4>1. i \in Int /\ i - 1 \in Int /\ ~(i < k) /\ i - 1 < k
        BY <1>7, <2>2
      <4> QED BY <1>5, <2>2, <4>1
    <3> QED BY <1>10, <3>1
  <2>3. CASE i > k
    <3>1. PICK j \in 1 .. m + 2 : j = i + 1 /\ j # k /\ j # k + 1 /\ k + 1 \in 1 .. m + 2 /\ k \in 1 .. m + 2
      <4>1. i + 1 \in 1 .. m + 2 /\ i + 1 # k /\ i + 1 # k + 1 /\ k + 1 \in 1 .. m + 2 /\ k \in 1 .. m + 2
        BY <1>7, <2>3
      <4> QED BY <4>1
    <3>2. Ring(t, i) = Ring(s, j) /\ Ring(t, i - 1) = Ring(s, j - 1)
      <4>1. i \in Int /\ i - 1 \in Int /\ ~(i < k) /\ ~(i - 1 < k) /\ (i - 1) + 1 = j - 1
        BY <1>7, <2>3, <3>1
      <4> QED BY <1>5, <3>1, <4>1
    <3>3. Ring(s, j) # id /\ Ring(s, j) # Ring(s, k + 1)
      BY <1>6, <1>7, <3>1
    <3> QED BY <1>6, <1>8, <1>10, <3>1, <3>2, <3>3
  <2> QED BY <1>7, <2>1, <2>2, <2>3
<1>14. ASSUME NEW i \in 1 .. m + 1, NEW j \in 1 .. m + 1, Ring(t, i) = Ring(t, j) PROVE i = j
  <2>1. PICK a \in 1 .. m + 2, b \in 1 .. m + 2 :
            a = (IF i < k THEN i ELSE i + 1) /\ b = (IF j < k THEN j ELSE j + 1)
    <3>1. \A x \in 1 .. m + 1 : x \in 1 .. m + 2 /\ x + 1 \in 1 .. m + 2
      OBVIOUS
    <3> QED BY <3>1
  <2>2. Ring(s, a) = Ring(s, b)
    <3>1. i \in Int /\ j \in Int
      OBVIOUS
    <3>2. Ring(t, i) = Ring(s, a) /\ Ring(t, j) = Ring(s, b)
      BY <1>5, <2>1, <3>1
    <3> QED BY <1>14, <3>2
  <2>3. a = b
    BY <1>6, <2>2
  <2> QED BY <1>7, <2>1, <2>3
<1> QED BY <1>1, <1>4, <1>11, <1>12, <1>13, <1>14 DEF Doubly

-----------------------------------------------------------------------------
(* The list (zlist, zlist_ext) *)

\* What a list is made of.
ListRec ==
    [used_count : Nat, free_id : 0 .. END_ID, exploit : 0 .. END_ID, head : 0 .. END_ID,
     next : [0 .. END_ID -> 0 .. END_ID], front : [0 .. END_ID -> 0 .. END_ID],
     val : [Nodes -> Values \cup {NoValue}], space : [Nodes -> Int], dync : Nat]

\* The elements of the nodes that were used lie where they belong.
Spaced(l) ==
    /\ \A i \in Nodes : i < l.exploit => l.space[i] = IF i < ListFixed THEN Fixed ELSE l.dync
    /\ l.exploit > ListFixed => l.dync # 0

\* Every node that was used is in the list or in the free list, once.
Shared(l, s, F) ==
    /\ \A x \in Nodes : x < l.exploit <=> Among(x, s) \/ Among(x, F)
    /\ \A x : ~(Among(x, s) /\ Among(x, F))
    /\ Len(s) + Len(F) = l.exploit

\* The list l links the nodes s, has the nodes F free and holds the values q.
Whole(l, s, F, q) ==
    /\ l \in ListRec /\ s \in Seq(Nodes) /\ F \in Seq(Nodes) /\ q \in Seq(Values)
    /\ Doubly(l.next, l.front, l.head, s)
    /\ Spelled(l.next, l.free_id, END_ID, F)
    /\ Shared(l, s, F) /\ Spaced(l)
    /\ Len(q) = Len(s) /\ l.used_count = Len(s)
    /\ \A i \in 1 .. Len(s) : l.val[s[i]] = q[i]

\* A list keeps its buffer, or gets a new one when it has none.
Buffered(l, r) == r.dync = l.dync \/ (l.dync = 0 /\ r.dync = NewBuffer)

LEMMA NodeIds ==
    /\ END_ID \in Nat /\ END_ID # 0 /\ Nodes \subseteq 0 .. END_ID /\ END_ID \notin Nodes
    /\ \A i : i \in Nodes <=> i \in 0 .. END_ID /\ i # END_ID
    /\ \A i : i \in Nodes <=> i \in Nat /\ i < END_ID
    /\ ListFixed \in Nat /\ ListFixed # 0 /\ ListFixed <= END_ID
<1>1. ListSize \in Nat /\ ListFixed \in Nat \ {0} /\ ListFixed <= ListSize
  BY ListAssumption
<1> QED BY <1>1 DEF END_ID, Nodes

LEMMA RecFacts ==
    ASSUME NEW l \in ListRec
    PROVE  /\ l.exploit \in Nat /\ l.exploit <= END_ID
           /\ l.exploit < END_ID => l.exploit \in Nodes /\ l.exploit + 1 \in 0 .. END_ID
           /\ \A n \in 0 .. END_ID : l.next[n] \in 0 .. END_ID /\ l.front[n] \in 0 .. END_ID
           /\ l.free_id \in 0 .. END_ID /\ l.head \in 0 .. END_ID /\ l.dync \in Nat
           /\ \A i \in Nodes, b \in Int : [l.space EXCEPT ![i] = b] \in [Nodes -> Int]
<1>1. l.exploit \in 0 .. END_ID /\ END_ID \in Nat
  BY NodeIds DEF ListRec
<1>2. l.exploit < END_ID => l.exploit \in Nodes /\ l.exploit + 1 \in 0 .. END_ID
  BY <1>1, NodeIds
<1>3. \A i \in Nodes, b \in Int : [l.space EXCEPT ![i] = b] \in [Nodes -> Int]
  BY DEF ListRec
<1>4. l.exploit \in Nat /\ l.exploit <= END_ID
  BY <1>1
<1>5. /\ \A n \in 0 .. END_ID : l.next[n] \in 0 .. END_ID /\ l.front[n] \in 0 .. END_ID
      /\ l.free_id \in 0 .. END_ID /\ l.head \in 0 .. END_ID /\ l.dync \in Nat
  BY DEF ListRec
<1> QED BY <1>2, <1>3, <1>4, <1>5

\* What pop_free_node changes.
LEMMA PopFreeIs ==
    ASSUME NEW l \in ListRec, ~ListFull(l), NewBuffer \in Dync, NEW p, p = PopFreeNode(l)
    PROVE  /\ p \in ListRec
           /\ p.next = l.next /\ p.front = l.front /\ p.head = l.head /\ p.val = l.val
           /\ p.used_count = l.used_count /\ Buffered(l, p)
           /\ FreeNode(l) \in Nodes
           /\ l.free_id # END_ID =>
                /\ FreeNode(l) = l.free_id /\ p.free_id = l.next[l.free_id]
                /\ p.exploit = l.exploit /\ p.space = l.space /\ p.dync = l.dync
           /\ l.free_id = END_ID =>
                /\ FreeNode(l) = l.exploit /\ p.free_id = END_ID /\ p.exploit = l.exploit + 1
                /\ l.exploit < END_ID
                /\ l.exploit < ListFixed =>
                     p.dync = l.dync /\ p.space = [l.space EXCEPT ![l.exploit] = Fixed]
                /\ ~(l.exploit < ListFixed) =>
                     /\ p.dync # 0 /\ (l.dync # 0 => p.dync = l.dync)
                     /\ p.space = [l.space EXCEPT ![l.exploit] = p.dync]
<1>1. NewBuffer \in Nat /\ NewBuffer # 0
  <2>1. NewBuffer \in 1 .. Cardinality(Lists) + 1 /\ Cardinality(Lists) \in Nat
    BY ListAssumption, FS_CardinalityType DEF Dync
  <2> QED BY <2>1
<1>2. CASE l.free_id # END_ID
  <2>1. p = [l EXCEPT !.free_id = l.next[l.free_id]] /\ FreeNode(l) = l.free_id
    BY <1>2 DEF PopFreeNode, FreeNode
  <2>2. l.next[l.free_id] \in 0 .. END_ID /\ l.free_id \in Nodes
    BY <1>2, NodeIds DEF ListRec
  <2>3. p \in ListRec
    BY <2>1, <2>2 DEF ListRec
  <2> QED BY <1>2, <2>1, <2>2, <2>3 DEF ListRec, Buffered
<1>3. CASE l.free_id = END_ID
  <2>1. FreeNode(l) = l.exploit /\ l.exploit < END_ID /\ l.exploit \in Nodes /\ l.exploit \in Nat
        /\ l.exploit + 1 \in 0 .. END_ID
    <3>1. FreeNode(l) = l.exploit /\ ~(l.exploit >= END_ID)
      BY <1>3 DEF FreeNode, ListFull
    <3>2. l.exploit \in Nat /\ END_ID \in Nat
      BY RecFacts, NodeIds
    <3>3. l.exploit < END_ID
      BY <3>1, <3>2
    <3> QED BY <3>1, <3>2, <3>3, RecFacts
  <2>2. CASE l.exploit < ListFixed
    <3>1. p = [l EXCEPT !.exploit = @ + 1, !.dync = l.dync, !.space[l.exploit] = Fixed]
      BY <1>3, <2>2 DEF PopFreeNode
    <3>2. [l.space EXCEPT ![l.exploit] = Fixed] \in [Nodes -> Int] /\ l.exploit + 1 \in 0 .. END_ID
      <4>1. Fixed \in Int
        BY DEF Fixed
      <4> QED BY <2>1, <4>1, RecFacts
    <3>3. p \in ListRec
      BY <3>1, <3>2 DEF ListRec
    <3> QED BY <1>3, <2>1, <2>2, <3>1, <3>3 DEF ListRec, Buffered
  <2>3. CASE ~(l.exploit < ListFixed)
    <3>1. PICK b : b = IF l.dync # 0 THEN l.dync ELSE NewBuffer
      OBVIOUS
    <3>2. p = [l EXCEPT !.exploit = @ + 1, !.dync = b, !.space[l.exploit] = b]
      BY <1>3, <2>3, <3>1 DEF PopFreeNode
    <3>3. b \in Nat /\ b # 0 /\ (l.dync # 0 => b = l.dync) /\ (l.dync = 0 => b = NewBuffer)
      BY <1>1, <3>1 DEF ListRec
    <3>4. [l.space EXCEPT ![l.exploit] = b] \in [Nodes -> Int] /\ l.exploit + 1 \in 0 .. END_ID
      BY <2>1, <3>3, RecFacts
    <3>5. p \in ListRec
      BY <3>2, <3>3, <3>4 DEF ListRec
    <3> QED BY <1>3, <2>1, <2>3, <3>2, <3>3, <3>5 DEF ListRec, Buffered
  <2> QED BY <2>2, <2>3
<1> QED BY <1>2, <1>3

\* The node that is popped was not in the list and is not free any more.
LEMMA PopKeeps ==
    ASSUME NEW l, NEW s, NEW F, NEW q, Whole(l, s, F, q), ~ListFull(l), NewBuffer \in Dync,
           NEW p, p = PopFreeNode(l), NEW id, id = FreeNode(l)
    PROVE  /\ ~Among(id, s)
           /\ \E G \in Seq(Nodes) :
                /\ Spelled(p.next, p.free_id, END_ID, G)
                /\ \A x : Among(x, G) <=> Among(x, F) /\ x # id
                /\ Len(s) + 1 + Len(G) = p.exploit
           /\ \A x \in Nodes : x < p.exploit <=> x = id \/ x < l.exploit
           /\ Spaced(p)
<1>1. /\ l \in ListRec /\ s \in Seq(Nodes) /\ F \in Seq(Nodes)
      /\ Spelled(l.next, l.free_id, END_ID, F) /\ Shared(l, s, F) /\ Spaced(l)
  BY DEF Whole
<1>2. /\ p.next = l.next /\ id \in Nodes
      /\ l.free_id # END_ID =>
                /\ id = l.free_id /\ p.free_id = l.next[l.free_id]
                /\ p.exploit = l.exploit /\ p.space = l.space /\ p.dync = l.dync
      /\ l.free_id = END_ID =>
                /\ id = l.exploit /\ p.free_id = END_ID /\ p.exploit = l.exploit + 1
                /\ l.exploit < END_ID
                /\ l.exploit < ListFixed =>
                     p.dync = l.dync /\ p.space = [l.space EXCEPT ![l.exploit] = Fixed]
                /\ ~(l.exploit < ListFixed) =>
                     /\ p.dync # 0 /\ (l.dync # 0 => p.dync = l.dync)
                     /\ p.space = [l.space EXCEPT ![l.exploit] = p.dync]
  BY <1>1, PopFreeIs
<1>3. Len(s) \in Nat /\ Len(F) \in Nat /\ l.exploit \in Nat /\ l.exploit <= END_ID /\ Len(s) + Len(F) = l.exploit
  BY <1>1, RecFacts DEF Shared
<1>4. CASE l.free_id # END_ID
  <2>1. Len(F) >= 1 /\ F[1] = id
    BY <1>1, <1>2, <1>3, <1>4 DEF Spelled, NodeAt
  <2>2. Among(id, F)
    BY <1>3, <2>1 DEF Among
  <2>3. PICK G : G = Dropped(F, 1)
    OBVIOUS
  <2>4. 1 \in 1 .. Len(F) /\ \A i, j \in 1 .. Len(F) : F[i] = F[j] => i = j
    BY <1>1, <1>3, <2>1 DEF Spelled
  <2>5. G \in Seq(Nodes) /\ Len(G) = Len(F) - 1 /\ \A x : Among(x, G) <=> Among(x, F) /\ x # id
    BY <1>1, <2>1, <2>3, <2>4, DroppedFacts
  <2>6. Spelled(p.next, p.free_id, END_ID, G)
    <3>1. p.free_id = l.next[F[1]] /\ p.next = l.next
      BY <1>2, <1>4, <2>1
    <3> QED BY <1>1, <2>3, <2>4, <3>1, SpelledDropped
  <2>7. Len(s) + 1 + Len(G) = p.exploit
    BY <1>2, <1>3, <1>4, <2>5
  <2>8. ~Among(id, s) /\ \A x \in Nodes : x < p.exploit <=> x = id \/ x < l.exploit
    BY <1>1, <1>2, <1>4, <2>2 DEF Shared
  <2>9. Spaced(p)
    BY <1>1, <1>2, <1>4 DEF Spaced
  <2> QED BY <2>5, <2>6, <2>7, <2>8, <2>9
<1>5. CASE l.free_id = END_ID
  <2>1. Len(F) = 0
    BY <1>1, <1>3, <1>5 DEF Spelled, NodeAt
  <2>2. \A x : ~Among(x, F)
    BY <2>1 DEF Among
  <2>3. Spelled(p.next, p.free_id, END_ID, F)
    BY <1>1, <1>2, <1>5
  <2>4. Len(s) + 1 + Len(F) = p.exploit
    BY <1>2, <1>3, <1>5
  <2>5. ~Among(id, s)
    BY <1>1, <1>2, <1>3, <1>5 DEF Shared
  <2>6. \A x \in Nodes : x < p.exploit <=> x = id \/ x < l.exploit
    BY <1>2, <1>3, <1>5, NodeIds
  <2>7. Spaced(p)
    <3>1. ASSUME NEW i \in Nodes, i < p.exploit
          PROVE  p.space[i] = IF i < ListFixed THEN Fixed ELSE p.dync
      <4>1. CASE i = l.exploit
        BY <1>1, <1>2, <1>5, <4>1 DEF ListRec
      <4>2. CASE i < l.exploit
        <5>1. l.space[i] = (IF i < ListFixed THEN Fixed ELSE l.dync) /\ i # l.exploit
          BY <1>1, <4>2, NodeIds DEF Spaced
        <5>2. p.space[i] = l.space[i]
          <6>1. l.exploit < ListFixed \/ ~(l.exploit < ListFixed)
            OBVIOUS
          <6> QED BY <1>1, <1>2, <1>5, <5>1, <6>1 DEF ListRec
        <5>3. CASE i < ListFixed
          BY <5>1, <5>2, <5>3
        <5>4. CASE ~(i < ListFixed)
          <6>1. ~(l.exploit < ListFixed) /\ l.exploit > ListFixed
            BY <1>3, <4>2, <5>4, NodeIds
          <6> QED BY <1>1, <1>2, <1>5, <5>1, <5>2, <5>4, <6>1 DEF Spaced
        <5> QED BY <5>3, <5>4
      <4> QED BY <1>2, <1>3, <1>5, <3>1, <4>1, <4>2, NodeIds
    <3>2. p.exploit > ListFixed => p.dync # 0
      <4>1. p.exploit > ListFixed => ~(l.exploit < ListFixed)
        BY <1>2, <1>3, <1>5, NodeIds
      <4> QED BY <1>2, <1>5, <4>1
    <3> QED BY <3>1, <3>2 DEF Spaced
  <2> QED BY <1>1, <2>2, <2>3, <2>4, <2>5, <2>6, <2>7
<1> QED BY <1>4, <1>5

Injected(p, pos, id, v) == [InjectNode(p, pos, id) EXCEPT !.val[id] = v]

\* What inject_node changes, and the element that is built in the node.
Joined(p, pos, id, v, n) ==
    /\ n \in ListRec
    /\ n.free_id = p.free_id /\ n.exploit = p.exploit /\ n.space = p.space /\ n.dync = p.dync
    /\ n.used_count = p.used_count + 1
    /\ n.head = IF pos = p.head THEN id ELSE p.head
    /\ n.next = IF pos = p.head THEN [p.next EXCEPT ![id] = pos]
                ELSE [p.next EXCEPT ![id] = pos, ![p.front[pos]] = id]
    /\ n.front = [p.front EXCEPT ![id] = p.front[pos], ![pos] = id]
    /\ n.val = [p.val EXCEPT ![id] = v]

LEMMA InjectIs ==
    ASSUME NEW p \in ListRec, NEW id \in Nodes, NEW pos \in 0 .. END_ID, NEW v \in Values,
           NEW n, n = Injected(p, pos, id, v)
    PROVE  Joined(p, pos, id, v, n)
<1>1. PICK nx : nx = IF pos = p.head THEN [p.next EXCEPT ![id] = pos]
                     ELSE [p.next EXCEPT ![id] = pos, ![p.front[pos]] = id]
  OBVIOUS
<1>2. PICK fr : fr = [p.front EXCEPT ![id] = p.front[pos], ![pos] = id]
  OBVIOUS
<1>3. PICK hd : hd = IF pos = p.head THEN id ELSE p.head
  OBVIOUS
<1>4. n = [p EXCEPT !.next = nx, !.front = fr, !.head = hd, !.used_count = p.used_count + 1,
                    !.val = [p.val EXCEPT ![id] = v]]
  BY <1>1, <1>2, <1>3 DEF Injected, InjectNode, ListRec
<1>5. id \in 0 .. END_ID /\ p.front[pos] \in 0 .. END_ID
  BY NodeIds, RecFacts
<1>6. p.next \in [0 .. END_ID -> 0 .. END_ID] /\ p.front \in [0 .. END_ID -> 0 .. END_ID]
  BY DEF ListRec
<1>7. nx \in [0 .. END_ID -> 0 .. END_ID]
  BY <1>1, <1>5, <1>6
<1>8. fr \in [0 .. END_ID -> 0 .. END_ID]
  BY <1>2, <1>5, <1>6
<1>9. hd \in 0 .. END_ID
  BY <1>3, <1>5, RecFacts
<1>10. [p.val EXCEPT ![id] = v] \in [Nodes -> Values \cup {NoValue}]
  BY DEF ListRec
<1>11. p.used_count + 1 \in Nat
  BY DEF ListRec
<1>12. n \in ListRec
  <2>1. PICK vl : vl = [p.val EXCEPT ![id] = v]
    OBVIOUS
  <2>2. PICK u \in Nat : u = p.used_count + 1
    BY <1>11
  <2>3. n = [p EXCEPT !.next = nx, !.front = fr, !.head = hd, !.used_count = u, !.val = vl]
    BY <1>4, <2>1, <2>2
  <2>4. vl \in [Nodes -> Values \cup {NoValue}]
    BY <1>10, <2>1
  <2> QED BY <1>7, <1>8, <1>9, <2>2, <2>3, <2>4 DEF ListRec
<1>13. /\ n.free_id = p.free_id /\ n.exploit = p.exploit /\ n.space = p.space /\ n.dync = p.dync
       /\ n.used_count = p.used_count + 1 /\ n.head = hd /\ n.next = nx /\ n.front = fr
       /\ n.val = [p.val EXCEPT ![id] = v]
  BY <1>4 DEF ListRec
<1> QED BY <1>1, <1>2, <1>3, <1>12, <1>13 DEF Joined

\* Where s ends, walking from i on, and that it is whole as a walk.
LEMMA RingFacts ==
    ASSUME NEW s \in Seq(Nodes), NEW i \in 1 .. Len(s) + 1
    PROVE  /\ Ring(s, i) \in 0 .. END_ID
           /\ i \in 1 .. Len(s) => Ring(s, i) = s[i] /\ Among(Ring(s, i), s)
           /\ i = Len(s) + 1 => Ring(s, i) = END_ID
           /\ \A x : Among(x, s) => x \in Nodes
<1>1. CASE i \in 1 .. Len(s)
  BY <1>1, NodeIds DEF Ring, Among
<1>2. CASE i = Len(s) + 1
  BY <1>2, NodeIds DEF Ring, Among
<1> QED BY <1>1, <1>2

LEMMA InjectKeeps ==
    ASSUME NEW l, NEW s, NEW F, NEW q, Whole(l, s, F, q), ~ListFull(l), NewBuffer \in Dync,
           NEW k \in 1 .. Len(s) + 1, NEW v \in Values,
           NEW r, r = InjectAt([l |-> l, pos |-> Ring(s, k)], v)
    PROVE  \E G, id : /\ Whole(r.l, Inserted(s, k, id), G, Inserted(q, k, v))
                      /\ r.pos = id /\ id = Ring(Inserted(s, k, id), k) /\ Buffered(l, r.l)
<1>1. /\ l \in ListRec /\ s \in Seq(Nodes) /\ F \in Seq(Nodes) /\ q \in Seq(Values)
      /\ Doubly(l.next, l.front, l.head, s) /\ Spelled(l.next, l.free_id, END_ID, F)
      /\ Shared(l, s, F) /\ Spaced(l) /\ Len(q) = Len(s) /\ l.used_count = Len(s)
      /\ \A i \in 1 .. Len(s) : l.val[s[i]] = q[i]
  BY DEF Whole
<1>2. PICK p : p = PopFreeNode(l)
  OBVIOUS
<1>3. PICK id : id = FreeNode(l)
  OBVIOUS
<1>4. PICK pos : pos = Ring(s, k)
  OBVIOUS
<1>5. PICK n : n = Injected(p, pos, id, v)
  OBVIOUS
<1>6. r.l = n /\ r.pos = id
  BY <1>2, <1>3, <1>4, <1>5 DEF InjectAt, Injected
<1>7. /\ p \in ListRec /\ p.next = l.next /\ p.front = l.front /\ p.head = l.head /\ p.val = l.val
      /\ p.used_count = l.used_count /\ Buffered(l, p) /\ id \in Nodes
  BY <1>1, <1>2, <1>3, PopFreeIs
<1>8. /\ ~Among(id, s)
      /\ \A x \in Nodes : x < p.exploit <=> x = id \/ x < l.exploit
      /\ Spaced(p)
  BY <1>2, <1>3, PopKeeps
<1>9. PICK G \in Seq(Nodes) : /\ Spelled(p.next, p.free_id, END_ID, G)
                              /\ \A x : Among(x, G) <=> Among(x, F) /\ x # id
                              /\ Len(s) + 1 + Len(G) = p.exploit
  BY <1>2, <1>3, PopKeeps
<1>10. pos \in 0 .. END_ID
  BY <1>1, <1>4, RingFacts
<1>11. /\ n \in ListRec
       /\ n.free_id = p.free_id /\ n.exploit = p.exploit /\ n.space = p.space /\ n.dync = p.dync
       /\ n.used_count = p.used_count + 1
       /\ n.head = IF pos = p.head THEN id ELSE p.head
       /\ n.next = IF pos = p.head THEN [p.next EXCEPT ![id] = pos]
                   ELSE [p.next EXCEPT ![id] = pos, ![p.front[pos]] = id]
       /\ n.front = [p.front EXCEPT ![id] = p.front[pos], ![pos] = id]
       /\ n.val = [p.val EXCEPT ![id] = v]
  <2>1. p \in ListRec /\ id \in Nodes
    BY <1>7
  <2>2. Joined(p, pos, id, v, n)
    BY <1>5, <1>10, <2>1, InjectIs
  <2> QED BY <2>2 DEF Joined
<1>12. pos = p.head <=> k = 1
  <2>1. l.head = Ring(s, 1) /\ \A i, j \in 1 .. Len(s) + 1 : Ring(s, i) = Ring(s, j) => i = j
    BY <1>1 DEF Doubly
  <2>2. 1 \in 1 .. Len(s) + 1
    BY <1>1
  <2> QED BY <1>4, <1>7, <2>1, <2>2
<1>13. l.front[pos] = Ring(s, k - 1)
  BY <1>1, <1>4 DEF Doubly
<1>14. k # 1 => k - 1 \in 1 .. Len(s)
  BY <1>1
<1>15. k # 1 => Among(l.front[pos], s) /\ l.front[pos] \in 0 .. END_ID /\ l.front[pos] # id
  <2>1. CASE k # 1
    <3>1. l.front[pos] = s[k - 1] /\ s[k - 1] \in Nodes
      BY <1>1, <1>13, <1>14, <2>1 DEF Ring
    <3>2. Among(s[k - 1], s)
      BY <1>14, <2>1 DEF Among
    <3> QED BY <1>8, <3>1, <3>2, NodeIds
  <2> QED BY <2>1
<1>16. id \in 0 .. END_ID /\ id # END_ID /\ id # pos
  <2>1. Ring(s, k) = END_ID \/ Among(Ring(s, k), s)
    BY <1>1, RingFacts
  <2> QED BY <1>4, <1>7, <1>8, <2>1, NodeIds
<1>17. l.next \in [0 .. END_ID -> 0 .. END_ID] /\ l.front \in [0 .. END_ID -> 0 .. END_ID]
  BY <1>1 DEF ListRec
<1>18. /\ n.next[id] = pos /\ (k # 1 => n.next[l.front[pos]] = id)
       /\ \A x : x \in Nodes /\ x # id /\ (k # 1 => x # l.front[pos]) => n.next[x] = l.next[x]
  <2>1. \A x \in Nodes : x \in 0 .. END_ID
    BY NodeIds
  <2>2. CASE k = 1
    <3>1. n.next = [l.next EXCEPT ![id] = pos]
      BY <1>7, <1>11, <1>12, <2>2
    <3> QED BY <1>16, <1>17, <2>1, <2>2, <3>1
  <2>3. CASE k # 1
    <3>1. n.next = [l.next EXCEPT ![id] = pos, ![l.front[pos]] = id]
      BY <1>7, <1>11, <1>12, <2>3
    <3> QED BY <1>15, <1>16, <1>17, <2>1, <2>3, <3>1
  <2> QED BY <2>2, <2>3
<1>19. /\ n.front[id] = l.front[pos] /\ n.front[pos] = id
       /\ \A x : x \in Nodes \cup {END_ID} /\ x # id /\ x # pos => n.front[x] = l.front[x]
  <2>1. \A x \in Nodes \cup {END_ID} : x \in 0 .. END_ID
    BY NodeIds
  <2> QED BY <1>7, <1>10, <1>11, <1>16, <1>17, <2>1, ZenonT(60)
<1>20. n.head = IF k = 1 THEN id ELSE l.head
  BY <1>7, <1>11, <1>12
<1>21. PICK t : t = Inserted(s, k, id)
  OBVIOUS
<1>22. PICK z : z = Inserted(q, k, v)
  OBVIOUS
<1>23. Doubly(n.next, n.front, n.head, t)
  <2>1. s \in Seq(Nodes) /\ id \in Nodes /\ Doubly(l.next, l.front, l.head, s)
    BY <1>1, <1>7
  <2>2. Doubly(n.next, n.front, IF k = 1 THEN id ELSE l.head, Inserted(s, k, id))
    BY <1>4, <1>8, <1>16, <1>18, <1>19, <2>1, DoublyInsert
  <2> QED BY <1>20, <1>21, <2>2
<1>24. /\ t \in Seq(Nodes) /\ Len(t) = Len(s) + 1
       /\ \A i \in 1 .. Len(s) + 1 : t[i] = IF i < k THEN s[i] ELSE IF i = k THEN id ELSE s[i - 1]
       /\ \A y : Among(y, t) <=> y = id \/ Among(y, s)
  <2>1. s \in Seq(Nodes) /\ id \in Nodes
    BY <1>1, <1>7
  <2>2. /\ Inserted(s, k, id) \in Seq(Nodes) /\ Len(Inserted(s, k, id)) = Len(s) + 1
        /\ \A i \in 1 .. Len(s) + 1 :
             Inserted(s, k, id)[i] = IF i < k THEN s[i] ELSE IF i = k THEN id ELSE s[i - 1]
        /\ \A y : Among(y, Inserted(s, k, id)) <=> y = id \/ Among(y, s)
    BY <2>1, InsertedFacts
  <2> QED BY <1>21, <2>2
<1>25. /\ z \in Seq(Values) /\ Len(z) = Len(s) + 1
       /\ \A i \in 1 .. Len(s) + 1 : z[i] = IF i < k THEN q[i] ELSE IF i = k THEN v ELSE q[i - 1]
  <2>1. q \in Seq(Values) /\ k \in 1 .. Len(q) + 1 /\ Len(q) = Len(s)
    BY <1>1
  <2>2. /\ Inserted(q, k, v) \in Seq(Values) /\ Len(Inserted(q, k, v)) = Len(q) + 1
        /\ \A i \in 1 .. Len(q) + 1 :
             Inserted(q, k, v)[i] = IF i < k THEN q[i] ELSE IF i = k THEN v ELSE q[i - 1]
    BY <2>1, InsertedFacts
  <2> QED BY <1>22, <2>1, <2>2
<1>26. Spelled(n.next, n.free_id, END_ID, G)
  <2>1. ASSUME NEW x, Among(x, G) PROVE n.next[x] = l.next[x]
    <3>1. Among(x, F) /\ x # id /\ x \in Nodes
      <4>1. Among(x, F) /\ x # id
        BY <1>9, <2>1
      <4> QED BY <1>1, <4>1 DEF Among
    <3>2. ~Among(x, s)
      BY <1>1, <3>1 DEF Shared
    <3> QED BY <1>15, <1>18, <3>1, <3>2
  <2> QED BY <1>7, <1>9, <1>11, <2>1, SpelledStill
<1>27. Shared(n, t, G)
  <2>1. \A x \in Nodes : x < n.exploit <=> Among(x, t) \/ Among(x, G)
    BY <1>1, <1>8, <1>9, <1>11, <1>24 DEF Shared
  <2>2. \A x : ~(Among(x, t) /\ Among(x, G))
    BY <1>1, <1>9, <1>24 DEF Shared
  <2>3. Len(t) + Len(G) = n.exploit
    BY <1>1, <1>9, <1>11, <1>24
  <2> QED BY <2>1, <2>2, <2>3 DEF Shared
<1>28. Spaced(n)
  BY <1>8, <1>11 DEF Spaced
<1>29. ASSUME NEW i \in 1 .. Len(t) PROVE n.val[t[i]] = z[i]
  <2>1. n.val = [l.val EXCEPT ![id] = v] /\ l.val \in [Nodes -> Values \cup {NoValue}]
    BY <1>1, <1>7, <1>11 DEF ListRec
  <2>2. i \in 1 .. Len(s) + 1 /\ Len(s) \in Nat
    BY <1>1, <1>24
  <2>3. CASE i = k
    BY <1>7, <1>24, <1>25, <2>1, <2>2, <2>3
  <2>4. CASE i # k
    <3>1. PICK j \in 1 .. Len(s) : j = IF i < k THEN i ELSE i - 1
      <4>1. (i < k => i \in 1 .. Len(s)) /\ (~(i < k) => i - 1 \in 1 .. Len(s))
        BY <2>2, <2>4
      <4> QED BY <4>1
    <3>2. t[i] = s[j] /\ z[i] = q[j]
      BY <1>24, <1>25, <2>2, <2>4, <3>1
    <3>3. s[j] # id /\ s[j] \in Nodes
      BY <1>1, <1>8 DEF Among
    <3> QED BY <1>1, <2>1, <3>2, <3>3
  <2> QED BY <2>3, <2>4
<1>30. Len(z) = Len(t) /\ n.used_count = Len(t)
  BY <1>1, <1>7, <1>11, <1>24, <1>25
<1>31. Whole(n, t, G, z)
  BY <1>9, <1>11, <1>23, <1>24, <1>25, <1>26, <1>27, <1>28, <1>29, <1>30 DEF Whole
<1>32. id = Ring(t, k)
  BY <1>1, <1>24 DEF Ring
<1>33. Buffered(l, n)
  BY <1>7, <1>11 DEF Buffered
<1> QED BY <1>6, <1>21, <1>22, <1>31, <1>32, <1>33

\* What pick_and_release_used_node changes.
Parted(l, id, first, n) ==
    /\ n \in ListRec
    /\ n.free_id = id /\ n.exploit = l.exploit /\ n.space = l.space /\ n.dync = l.dync
    /\ n.used_count = l.used_count - 1
    /\ n.head = IF first THEN l.next[id] ELSE l.head
    /\ n.next = IF first THEN [l.next EXCEPT ![id] = l.free_id]
                ELSE [l.next EXCEPT ![l.front[id]] = l.next[id], ![id] = l.free_id]
    /\ n.front = [l.front EXCEPT ![l.next[id]] = l.front[id], ![id] = END_ID]
    /\ n.val = [l.val EXCEPT ![id] = NoValue]

LEMMA ReleaseIs ==
    ASSUME NEW l \in ListRec, NEW id \in Nodes, l.head # END_ID, l.used_count # 0,
           l.head = id => l.front[id] = END_ID,
           NEW n, n = Release(l, id)
    PROVE  Parted(l, id, l.head = id, n)
<1>1. PICK nx : nx = IF l.head = id THEN [l.next EXCEPT ![id] = l.free_id]
                     ELSE [l.next EXCEPT ![l.front[id]] = l.next[id], ![id] = l.free_id]
  OBVIOUS
<1>2. PICK fr : fr = [l.front EXCEPT ![l.next[id]] = l.front[id], ![id] = END_ID]
  OBVIOUS
<1>3. PICK hd : hd = IF l.head = id THEN l.next[id] ELSE l.head
  OBVIOUS
<1>4. PICK vl : vl = [l.val EXCEPT ![id] = NoValue]
  OBVIOUS
<1>5. /\ END_ID \in Nat /\ id \in 0 .. END_ID /\ id < END_ID /\ END_ID \in 0 .. END_ID
      /\ l.head < END_ID
  <2>1. END_ID \in Nat /\ id \in 0 .. END_ID /\ id < END_ID
    BY NodeIds
  <2>2. l.head \in 0 .. END_ID
    BY RecFacts
  <2> QED BY <2>1, <2>2
<1>6. n = PushFreeNode(PickUsedNode(l, id), id)
  <2>1. ~(id >= END_ID) /\ ~(l.head >= END_ID)
    <3>1. l.head \in 0 .. END_ID
      BY RecFacts
    <3> QED BY <1>5, <3>1
  <2> QED BY <2>1 DEF Release
<1>7. PICK u \in Nat : u = l.used_count - 1
  <2>1. l.used_count \in Nat
    BY DEF ListRec
  <2> QED BY <2>1
<1>8. n = [l EXCEPT !.next = nx, !.front = fr, !.head = hd, !.used_count = u, !.val = vl,
                    !.free_id = id]
  <2>1. PICK w : w = PickUsedNode(l, id)
    OBVIOUS
  <2>2. PICK nw : nw = IF l.head = id THEN l.next ELSE [l.next EXCEPT ![l.front[id]] = l.next[id]]
    OBVIOUS
  <2>3. PICK fw : fw = [l.front EXCEPT ![l.next[id]] = l.front[id]]
    OBVIOUS
  <2>4. w = [l EXCEPT !.used_count = u, !.head = hd, !.next = nw, !.front = fw]
    <3>1. CASE l.head = id
      <4>1. fw = [l.front EXCEPT ![l.next[id]] = END_ID] /\ nw = l.next /\ hd = l.next[id]
        BY <1>3, <2>2, <2>3, <3>1
      <4> QED BY <1>7, <2>1, <3>1, <4>1 DEF PickUsedNode, ListRec
    <3>2. CASE l.head # id
      <4>1. nw = [l.next EXCEPT ![l.front[id]] = l.next[id]] /\ hd = l.head
        BY <1>3, <2>2, <3>2
      <4> QED BY <1>7, <2>1, <2>3, <3>2, <4>1 DEF PickUsedNode, ListRec
    <3> QED BY <3>1, <3>2
  <2>5. w.next = nw /\ w.front = fw /\ w.free_id = l.free_id /\ w.val = l.val
    BY <2>4 DEF ListRec
  <2>6. nx = [nw EXCEPT ![id] = l.free_id] /\ fr = [fw EXCEPT ![id] = END_ID]
    BY <1>1, <1>2, <2>2, <2>3
  <2>7. n = [w EXCEPT !.next = nx, !.front = fr, !.val = vl, !.free_id = id]
    BY <1>4, <1>6, <2>1, <2>5, <2>6 DEF PushFreeNode
  <2> QED BY <2>4, <2>7 DEF ListRec
<1>9. l.next[id] \in 0 .. END_ID /\ l.front[id] \in 0 .. END_ID /\ l.free_id \in 0 .. END_ID
      /\ l.head \in 0 .. END_ID
  BY <1>5, RecFacts
<1>10. l.next \in [0 .. END_ID -> 0 .. END_ID] /\ l.front \in [0 .. END_ID -> 0 .. END_ID]
       /\ l.val \in [Nodes -> Values \cup {NoValue}]
  BY DEF ListRec
<1>11. nx \in [0 .. END_ID -> 0 .. END_ID]
  BY <1>1, <1>5, <1>9, <1>10
<1>12. fr \in [0 .. END_ID -> 0 .. END_ID]
  BY <1>2, <1>5, <1>9, <1>10
<1>13. vl \in [Nodes -> Values \cup {NoValue}]
  BY <1>4, <1>10
<1>14. hd \in 0 .. END_ID
  BY <1>3, <1>9
<1>15. n \in ListRec
  BY <1>5, <1>7, <1>8, <1>11, <1>12, <1>13, <1>14 DEF ListRec
<1>16. /\ n.free_id = id /\ n.exploit = l.exploit /\ n.space = l.space /\ n.dync = l.dync
       /\ n.used_count = u /\ n.head = hd /\ n.next = nx /\ n.front = fr /\ n.val = vl
  BY <1>8 DEF ListRec
<1> QED BY <1>1, <1>2, <1>3, <1>4, <1>7, <1>15, <1>16 DEF Parted

LEMMA ReleaseKeeps ==
    ASSUME NEW l, NEW s, NEW F, NEW q, Whole(l, s, F, q),
           NEW k \in 1 .. Len(s), NEW n, n = Release(l, s[k])
    PROVE  /\ \E G : Whole(n, Dropped(s, k), G, Dropped(q, k))
           /\ n.dync = l.dync
<1>1. /\ l \in ListRec /\ s \in Seq(Nodes) /\ F \in Seq(Nodes) /\ q \in Seq(Values)
      /\ Doubly(l.next, l.front, l.head, s) /\ Spelled(l.next, l.free_id, END_ID, F)
      /\ Shared(l, s, F) /\ Spaced(l) /\ Len(q) = Len(s) /\ l.used_count = Len(s)
      /\ \A i \in 1 .. Len(s) : l.val[s[i]] = q[i]
  BY DEF Whole
<1>2. PICK id \in Nodes : id = s[k]
  BY <1>1
<1>3. k \in 1 .. Len(s) + 1 /\ k + 1 \in 1 .. Len(s) + 1 /\ 1 \in 1 .. Len(s) + 1 /\ Len(s) \in Nat
      /\ Len(s) # 0 /\ k \in Nat /\ 1 \in 1 .. Len(s) /\ Len(s) + 1 \in 1 .. Len(s) + 1
  BY <1>1
<1>4. Ring(s, k) = id /\ Among(id, s)
  BY <1>2 DEF Ring, Among
<1>5. /\ l.head = Ring(s, 1) /\ l.next[id] = Ring(s, k + 1) /\ l.front[id] = Ring(s, k - 1)
      /\ \A i, j \in 1 .. Len(s) + 1 : Ring(s, i) = Ring(s, j) => i = j
  BY <1>1, <1>3, <1>4 DEF Doubly
<1>6. l.head = id <=> k = 1
  BY <1>3, <1>4, <1>5
<1>7. l.head # END_ID /\ l.used_count # 0
  <2>1. Ring(s, 1) = s[1] /\ s[1] \in Nodes
    BY <1>1, <1>3 DEF Ring
  <2> QED BY <1>1, <1>3, <1>5, <2>1, NodeIds
<1>8. l.head = id => l.front[id] = END_ID
  <2>1. Ring(s, 0) = END_ID
    BY DEF Ring
  <2>2. k = 1 => k - 1 = 0
    OBVIOUS
  <2> QED BY <1>5, <1>6, <2>1, <2>2
<1>9. Parted(l, id, l.head = id, n)
  <2>1. n = Release(l, id)
    BY <1>2
  <2> QED BY <1>1, <1>7, <1>8, <2>1, ReleaseIs
<1>10. /\ n \in ListRec
       /\ n.free_id = id /\ n.exploit = l.exploit /\ n.space = l.space /\ n.dync = l.dync
       /\ n.used_count = l.used_count - 1
       /\ n.head = IF k = 1 THEN l.next[id] ELSE l.head
       /\ k = 1 => n.next = [l.next EXCEPT ![id] = l.free_id]
       /\ k # 1 => n.next = [l.next EXCEPT ![l.front[id]] = l.next[id], ![id] = l.free_id]
       /\ n.front = [l.front EXCEPT ![l.next[id]] = l.front[id], ![id] = END_ID]
       /\ n.val = [l.val EXCEPT ![id] = NoValue]
  BY <1>6, <1>9 DEF Parted
<1>11. /\ l.next \in [0 .. END_ID -> 0 .. END_ID] /\ l.front \in [0 .. END_ID -> 0 .. END_ID]
       /\ l.val \in [Nodes -> Values \cup {NoValue}]
       /\ id \in 0 .. END_ID /\ l.next[id] \in 0 .. END_ID /\ l.front[id] \in 0 .. END_ID
  <2>1. id \in 0 .. END_ID
    BY NodeIds
  <2>2. /\ l.next \in [0 .. END_ID -> 0 .. END_ID] /\ l.front \in [0 .. END_ID -> 0 .. END_ID]
       /\ l.val \in [Nodes -> Values \cup {NoValue}]
    BY <1>1 DEF ListRec
  <2> QED BY <2>1, <2>2
<1>12. l.next[id] # id
  <2>1. k + 1 # k
    BY <1>3
  <2> QED BY <1>3, <1>4, <1>5, <2>1
<1>13. k # 1 => l.front[id] # id /\ Among(l.front[id], s)
  <2>1. CASE k # 1
    <3>1. k - 1 \in 1 .. Len(s) /\ k - 1 \in 1 .. Len(s) + 1 /\ k - 1 # k
      BY <1>3, <2>1
    <3>2. Among(Ring(s, k - 1), s)
      BY <3>1 DEF Ring, Among
    <3> QED BY <1>3, <1>4, <1>5, <3>1, <3>2
  <2> QED BY <2>1
<1>14. /\ n.next[id] = l.free_id /\ (k # 1 => n.next[l.front[id]] = l.next[id])
       /\ \A x : x \in Nodes /\ x # id /\ (k # 1 => x # l.front[id]) => n.next[x] = l.next[x]
  <2>1. \A x \in Nodes : x \in 0 .. END_ID
    BY NodeIds
  <2>2. CASE k = 1
    <3>1. n.next = [l.next EXCEPT ![id] = l.free_id]
      BY <1>10, <2>2
    <3> QED BY <1>11, <2>1, <2>2, <3>1
  <2>3. CASE k # 1
    <3>1. n.next = [l.next EXCEPT ![l.front[id]] = l.next[id], ![id] = l.free_id]
      BY <1>10, <2>3
    <3> QED BY <1>11, <1>13, <2>1, <2>3, <3>1
  <2> QED BY <2>2, <2>3
<1>15. /\ n.front[l.next[id]] = l.front[id]
       /\ \A x : x \in Nodes \cup {END_ID} /\ x # id /\ x # l.next[id] => n.front[x] = l.front[x]
  <2>1. \A x \in Nodes \cup {END_ID} : x \in 0 .. END_ID
    BY NodeIds
  <2>2. n.front = [l.front EXCEPT ![l.next[id]] = l.front[id], ![id] = END_ID]
    BY <1>10
  <2>3. n.front[l.next[id]] = l.front[id]
    BY <1>11, <1>12, <2>2
  <2>4. \A x : x \in Nodes \cup {END_ID} /\ x # id /\ x # l.next[id] => n.front[x] = l.front[x]
    BY <1>11, <2>1, <2>2
  <2> QED BY <2>3, <2>4
<1>16. Doubly(n.next, n.front, n.head, Dropped(s, k))
  <2>1. s \in Seq(Nodes) /\ Doubly(l.next, l.front, l.head, s) /\ END_ID \notin Nodes
    BY <1>1, NodeIds
  <2>2. Doubly(n.next, n.front, IF k = 1 THEN l.next[id] ELSE l.head, Dropped(s, k))
    BY <1>2, <1>14, <1>15, <2>1, DoublyDrop
  <2> QED BY <1>10, <2>2
<1>17. \A i, j \in 1 .. Len(s) : s[i] = s[j] => i = j
  <2>1. \A i \in 1 .. Len(s) : i \in 1 .. Len(s) + 1 /\ Ring(s, i) = s[i]
    BY <1>3 DEF Ring
  <2> QED BY <1>5, <2>1
<1>18. PICK t : t = Dropped(s, k)
  OBVIOUS
<1>19. PICK z : z = Dropped(q, k)
  OBVIOUS
<1>20. /\ t \in Seq(Nodes) /\ Len(t) = Len(s) - 1
       /\ \A i \in 1 .. Len(s) - 1 : t[i] = IF i < k THEN s[i] ELSE s[i + 1]
       /\ \A x : Among(x, t) <=> Among(x, s) /\ x # id
  <2>1. s \in Seq(Nodes)
    BY <1>1
  <2>2. /\ Dropped(s, k) \in Seq(Nodes) /\ Len(Dropped(s, k)) = Len(s) - 1
        /\ \A i \in 1 .. Len(s) - 1 : Dropped(s, k)[i] = IF i < k THEN s[i] ELSE s[i + 1]
        /\ \A x : Among(x, Dropped(s, k)) <=> Among(x, s) /\ x # s[k]
    BY <1>17, <2>1, DroppedFacts
  <2> QED BY <1>2, <1>18, <2>2
<1>21. /\ z \in Seq(Values) /\ Len(z) = Len(s) - 1
       /\ \A i \in 1 .. Len(s) - 1 : z[i] = IF i < k THEN q[i] ELSE q[i + 1]
  <2>1. q \in Seq(Values) /\ Len(q) = Len(s)
    BY <1>1
  <2>2. z = [i \in 1 .. Len(s) - 1 |-> IF i < k THEN q[i] ELSE q[i + 1]]
    BY <1>19, <2>1 DEF Dropped
  <2>3. ASSUME NEW i \in 1 .. Len(s) - 1
        PROVE  (IF i < k THEN q[i] ELSE q[i + 1]) \in Values
    <3>1. i \in 1 .. Len(q) /\ i + 1 \in 1 .. Len(q)
      BY <1>3, <2>1
    <3> QED BY <2>1, <3>1
  <2>4. PICK m \in Nat : m = Len(s) - 1
    BY <1>3
  <2>5. z \in [1 .. m -> Values]
    BY <2>2, <2>3, <2>4
  <2>6. z \in Seq(Values) /\ Len(z) = m
    BY <2>5
  <2> QED BY <2>2, <2>4, <2>6
<1>22. PICK G : G = InFront(id, F)
  OBVIOUS
<1>23. G \in Seq(Nodes) /\ Len(G) = Len(F) + 1 /\ \A x : Among(x, G) <=> x = id \/ Among(x, F)
  <2>1. F \in Seq(Nodes)
    BY <1>1
  <2>2. /\ InFront(id, F) \in Seq(Nodes) /\ Len(InFront(id, F)) = Len(F) + 1
        /\ \A x : Among(x, InFront(id, F)) <=> x = id \/ Among(x, F)
    BY <2>1, InFrontFacts
  <2> QED BY <1>22, <2>2
<1>24. \A x : ~(Among(x, s) /\ Among(x, F))
  BY <1>1 DEF Shared
<1>25. Spelled(n.next, n.free_id, END_ID, G)
  <2>1. ASSUME NEW x, Among(x, F) PROVE n.next[x] = l.next[x]
    <3>1. x \in Nodes
      BY <1>1, <2>1 DEF Among
    <3>2. ~Among(x, s)
      BY <1>24, <2>1
    <3> QED BY <1>4, <1>13, <1>14, <3>1, <3>2
  <2>2. F \in Seq(Nodes) /\ Spelled(l.next, l.free_id, END_ID, F) /\ id # END_ID /\ ~Among(id, F)
    BY <1>1, <1>4, <1>24, NodeIds
  <2>3. Spelled(n.next, id, END_ID, InFront(id, F))
    BY <1>14, <2>1, <2>2, SpelledFront
  <2> QED BY <1>10, <1>22, <2>3
<1>26. Shared(n, t, G)
  <2>1. \A x \in Nodes : x < n.exploit <=> Among(x, t) \/ Among(x, G)
    BY <1>1, <1>4, <1>10, <1>20, <1>23 DEF Shared
  <2>2. \A x : ~(Among(x, t) /\ Among(x, G))
    BY <1>20, <1>23, <1>24
  <2>3. Len(t) + Len(G) = n.exploit
    <3>1. Len(s) + Len(F) = l.exploit /\ Len(s) \in Nat /\ Len(F) \in Nat
      BY <1>1 DEF Shared
    <3> QED BY <1>10, <1>20, <1>23, <3>1
  <2> QED BY <2>1, <2>2, <2>3 DEF Shared
<1>27. Spaced(n)
  <2>1. Spaced(l) /\ n.space = l.space /\ n.exploit = l.exploit /\ n.dync = l.dync
    BY <1>1, <1>10
  <2> QED BY <2>1 DEF Spaced
<1>28. ASSUME NEW i \in 1 .. Len(t) PROVE n.val[t[i]] = z[i]
  <2>1. i \in 1 .. Len(s) - 1
    BY <1>20
  <2>2. PICK j \in 1 .. Len(s) : j = IF i < k THEN i ELSE i + 1
    <3>1. i \in 1 .. Len(s) /\ i + 1 \in 1 .. Len(s)
      BY <1>3, <2>1
    <3> QED BY <3>1
  <2>3. t[i] = s[j] /\ z[i] = q[j]
    BY <1>20, <1>21, <2>1, <2>2
  <2>4. t[i] # id
    <3>1. Among(t[i], t)
      BY DEF Among
    <3> QED BY <1>20, <3>1
  <2>5. s[j] \in Nodes
    BY <1>1
  <2> QED BY <1>1, <1>10, <1>11, <2>3, <2>4, <2>5
<1>29. Len(z) = Len(t) /\ n.used_count = Len(t)
  BY <1>1, <1>10, <1>20, <1>21
<1>30. Whole(n, t, G, z)
  BY <1>10, <1>16, <1>18, <1>20, <1>21, <1>23, <1>25, <1>26, <1>27, <1>28, <1>29 DEF Whole
<1> QED BY <1>10, <1>18, <1>19, <1>30

\* A list is full when it has ListSize elements.
LEMMA RoomIs ==
    ASSUME NEW l, NEW s, NEW F, NEW q, Whole(l, s, F, q)
    PROVE  /\ Len(q) \in Nat /\ Len(q) <= END_ID /\ Len(s) = Len(q) /\ l.used_count = Len(q)
           /\ ListFull(l) <=> Len(q) = END_ID
<1>1. /\ l \in ListRec /\ s \in Seq(Nodes) /\ F \in Seq(Nodes) /\ q \in Seq(Values)
      /\ Spelled(l.next, l.free_id, END_ID, F) /\ Shared(l, s, F)
      /\ Len(q) = Len(s) /\ l.used_count = Len(s)
  BY DEF Whole
<1>2. Len(s) \in Nat /\ Len(F) \in Nat /\ l.exploit \in Nat /\ l.exploit <= END_ID /\ END_ID \in Nat
      /\ Len(s) + Len(F) = l.exploit
  BY <1>1, RecFacts, NodeIds DEF Shared
<1>3. l.free_id = END_ID <=> Len(F) = 0
  <2>1. CASE Len(F) = 0
    BY <1>1, <2>1 DEF Spelled, NodeAt
  <2>2. CASE Len(F) # 0
    <3>1. 1 \in 1 .. Len(F)
      BY <1>2, <2>2
    <3> QED BY <1>1, <1>2, <3>1 DEF Spelled, NodeAt
  <2> QED BY <2>1, <2>2
<1> QED BY <1>1, <1>2, <1>3 DEF ListFull

LEMMA BufferOnce ==
    ASSUME NewBuffer \in Dync
    PROVE  /\ NewBuffer # 0
           /\ \A l : Buffered(l, l)
           /\ \A l, m, n : Buffered(l, m) /\ Buffered(m, n) => Buffered(l, n)
<1>1. NewBuffer # 0
  <2>1. NewBuffer \in 1 .. Cardinality(Lists) + 1 /\ Cardinality(Lists) \in Nat
    BY ListAssumption, FS_CardinalityType DEF Dync
  <2> QED BY <2>1
<1> QED BY <1>1 DEF Buffered

-----------------------------------------------------------------------------
(* Several elements *)

\* Put in at k, each in front of the one before, the first n of vs.
Piled(q, k, vs, n) ==
    [i \in 1 .. Len(q) + n |-> IF i < k THEN q[i] ELSE IF i < k + n THEN vs[n - (i - k)] ELSE q[i - n]]

\* Without the n elements from k on.
Cut(q, k, n) == [i \in 1 .. Len(q) - n |-> IF i < k THEN q[i] ELSE q[i + n]]

LEMMA PiledFacts ==
    ASSUME NEW S, NEW q \in Seq(S), NEW k \in 1 .. Len(q) + 1, NEW vs \in Seq(S),
           NEW n \in 0 .. Len(vs)
    PROVE  /\ Piled(q, k, vs, n) \in Seq(S) /\ Len(Piled(q, k, vs, n)) = Len(q) + n
           /\ n = 0 => Piled(q, k, vs, n) = q
           /\ n < Len(vs) => Piled(q, k, vs, n + 1) = Inserted(Piled(q, k, vs, n), k, vs[n + 1])
<1>1. PICK m \in Nat, w \in Nat : m = Len(q) /\ w = Len(vs)
  OBVIOUS
<1>2. k \in 1 .. m + 1 /\ n \in 0 .. w /\ n \in Nat
  BY <1>1
<1>3. PICK t : t = Piled(q, k, vs, n)
  OBVIOUS
<1>4. t = [i \in 1 .. m + n |-> IF i < k THEN q[i] ELSE IF i < k + n THEN vs[n - (i - k)] ELSE q[i - n]]
  BY <1>1, <1>3 DEF Piled
<1>5. ASSUME NEW i \in 1 .. m + n
      PROVE  (IF i < k THEN q[i] ELSE IF i < k + n THEN vs[n - (i - k)] ELSE q[i - n]) \in S
  <2>1. CASE i < k
    <3>1. i \in 1 .. Len(q)
      BY <1>1, <1>2, <2>1
    <3> QED BY <2>1, <3>1
  <2>2. CASE ~(i < k) /\ i < k + n
    <3>1. n - (i - k) \in 1 .. Len(vs)
      BY <1>1, <1>2, <2>2
    <3> QED BY <2>2, <3>1
  <2>3. CASE ~(i < k) /\ ~(i < k + n)
    <3>1. i - n \in 1 .. Len(q)
      BY <1>1, <1>2, <2>3
    <3> QED BY <2>3, <3>1
  <2> QED BY <2>1, <2>2, <2>3
<1>6. t \in Seq(S) /\ Len(t) = m + n
  <2>1. PICK a \in Nat : a = m + n
    BY <1>2
  <2>2. t \in [1 .. a -> S]
    BY <1>4, <1>5, <2>1
  <2> QED BY <2>1, <2>2
<1>7. ASSUME n = 0 PROVE t = q
  <2>1. t = [i \in 1 .. m |-> q[i]]
    <3>1. \A i \in 1 .. m : ~(i < k) => ~(i < k + n) /\ i - n = i
      BY <1>2, <1>7
    <3>2. m + n = m
      BY <1>7
    <3> QED BY <1>4, <3>1, <3>2
  <2> QED BY <1>1, <2>1
<1>8. ASSUME n < w PROVE Piled(q, k, vs, n + 1) = Inserted(t, k, vs[n + 1])
  <2>1. PICK a \in Nat : a = m + n + 1
    BY <1>2
  <2>2. PICK y : y = vs[n + 1]
    OBVIOUS
  <2>3. Inserted(t, k, y) = [i \in 1 .. a |-> IF i < k THEN t[i] ELSE IF i = k THEN y ELSE t[i - 1]]
    BY <1>6, <2>1 DEF Inserted
  <2>4. PICK c \in Nat : c = n + 1
    BY <1>2
  <2>5. Piled(q, k, vs, c)
         = [i \in 1 .. a |-> IF i < k THEN q[i] ELSE IF i < k + c THEN vs[c - (i - k)] ELSE q[i - c]]
    <3>1. Len(q) + c = a
      BY <1>1, <1>2, <2>1, <2>4
    <3> QED BY <3>1 DEF Piled
  <2>6. ASSUME NEW i \in 1 .. a
        PROVE  (IF i < k THEN t[i] ELSE IF i = k THEN y ELSE t[i - 1])
                 = (IF i < k THEN q[i] ELSE IF i < k + c THEN vs[c - (i - k)] ELSE q[i - c])
    <3>1. CASE i < k
      <4>1. i \in 1 .. m + n
        BY <1>2, <3>1
      <4> QED BY <1>4, <3>1, <4>1
    <3>2. CASE i = k
      <4>1. i < k + c /\ ~(i < k) /\ c - (i - k) = n + 1
        BY <1>2, <2>4, <3>2
      <4> QED BY <2>2, <3>2, <4>1
    <3>3. CASE i > k /\ i < k + c
      <4>1. PICK j \in 1 .. m + n : j = i - 1
        <5>1. i - 1 \in 1 .. m + n
          BY <1>2, <2>1, <3>3
        <5> QED BY <5>1
      <4>2. ~(j < k) /\ j < k + n /\ n - (j - k) = c - (i - k)
        BY <1>2, <2>4, <3>3, <4>1
      <4>3. t[j] = vs[c - (i - k)]
        BY <1>4, <4>2
      <4>4. ~(i < k) /\ i # k
        BY <1>2, <3>3
      <4> QED BY <3>3, <4>1, <4>3, <4>4
    <3>4. CASE i > k /\ ~(i < k + c)
      <4>1. PICK j \in 1 .. m + n : j = i - 1
        <5>1. i - 1 \in 1 .. m + n
          BY <1>2, <2>1, <3>4
        <5> QED BY <5>1
      <4>2. ~(j < k) /\ ~(j < k + n) /\ j - n = i - c
        BY <1>2, <2>4, <3>4, <4>1
      <4>3. t[j] = q[i - c]
        BY <1>4, <4>2
      <4>4. ~(i < k) /\ i # k
        BY <1>2, <3>4
      <4> QED BY <3>4, <4>1, <4>3, <4>4
    <3> QED BY <1>2, <2>1, <3>1, <3>2, <3>3, <3>4
  <2> QED BY <2>2, <2>3, <2>4, <2>5, <2>6
<1> QED BY <1>1, <1>3, <1>6, <1>7, <1>8

LEMMA CutFacts ==
    ASSUME NEW S, NEW q \in Seq(S), NEW k \in 1 .. Len(q), NEW n \in 0 .. Len(q) - k + 1
    PROVE  /\ Cut(q, k, n) \in Seq(S) /\ Len(Cut(q, k, n)) = Len(q) - n
           /\ \A i \in 1 .. Len(q) - n : Cut(q, k, n)[i] = IF i < k THEN q[i] ELSE q[i + n]
           /\ n = 0 => Cut(q, k, n) = q
           /\ n < Len(q) - k + 1 => Cut(q, k, n + 1) = Dropped(Cut(q, k, n), k)
<1>1. PICK m \in Nat : m = Len(q)
  OBVIOUS
<1>2. k \in 1 .. m /\ n \in 0 .. m - k + 1 /\ n \in Nat /\ n <= m /\ m - n \in Nat
  BY <1>1
<1>3. PICK t : t = Cut(q, k, n)
  OBVIOUS
<1>4. t = [i \in 1 .. m - n |-> IF i < k THEN q[i] ELSE q[i + n]]
  BY <1>1, <1>3 DEF Cut
<1>5. ASSUME NEW i \in 1 .. m - n PROVE (IF i < k THEN q[i] ELSE q[i + n]) \in S
  <2>1. i \in 1 .. Len(q) /\ i + n \in 1 .. Len(q)
    BY <1>1, <1>2
  <2> QED BY <2>1
<1>6. t \in Seq(S) /\ Len(t) = m - n
  <2>1. PICK a \in Nat : a = m - n
    BY <1>2
  <2>2. t \in [1 .. a -> S]
    BY <1>4, <1>5, <2>1
  <2> QED BY <2>1, <2>2
<1>7. ASSUME n = 0 PROVE t = q
  <2>1. t = [i \in 1 .. m |-> q[i]]
    <3>1. \A i \in 1 .. m : i + n = i
      BY <1>2, <1>7
    <3>2. m - n = m
      BY <1>7
    <3> QED BY <1>4, <3>1, <3>2
  <2> QED BY <1>1, <2>1
<1>8. ASSUME n < m - k + 1 PROVE Cut(q, k, n + 1) = Dropped(t, k)
  <2>1. PICK a \in Nat : a + 1 = m - n /\ m - (n + 1) = a
    <3>1. m - n - 1 \in Nat /\ (m - n - 1) + 1 = m - n /\ m - (n + 1) = m - n - 1
      BY <1>2, <1>8
    <3> QED BY <3>1
  <2>2. Dropped(t, k) = [i \in 1 .. a |-> IF i < k THEN t[i] ELSE t[i + 1]]
    <3>1. Len(t) - 1 = a
      BY <1>6, <2>1
    <3> QED BY <3>1 DEF Dropped
  <2>3. PICK c \in Nat : c = n + 1
    BY <1>2
  <2>4. Cut(q, k, c) = [i \in 1 .. a |-> IF i < k THEN q[i] ELSE q[i + c]]
    <3>1. Len(q) - c = a
      BY <1>1, <2>1, <2>3
    <3> QED BY <3>1 DEF Cut
  <2>5. ASSUME NEW i \in 1 .. a
        PROVE  (IF i < k THEN t[i] ELSE t[i + 1]) = (IF i < k THEN q[i] ELSE q[i + c])
    <3>1. i \in 1 .. m - n /\ i + 1 \in 1 .. m - n /\ (~(i < k) => ~(i + 1 < k)) /\ (i + 1) + n = i + c
      BY <1>2, <2>1, <2>3
    <3> QED BY <1>4, <3>1
  <2> QED BY <2>2, <2>3, <2>4, <2>5
<1> QED BY <1>1, <1>3, <1>4, <1>6, <1>7, <1>8

\* The lists that InjectAll goes through, ...
InjectBody(l, pos, vs, N, at) ==
    [k \in 0 .. N |-> IF k = 0 THEN [l |-> l, pos |-> pos] ELSE InjectAt(at[k - 1], vs[k])]
InjectRun(l, pos, vs, N) == CHOOSE f : f = InjectBody(l, pos, vs, N, f)

LEMMA InjectRuns ==
    ASSUME NEW l, NEW pos, NEW vs, NEW N \in Nat, NEW at, at = InjectRun(l, pos, vs, N)
    PROVE  at = InjectBody(l, pos, vs, N, at)
<1> DEFINE Bad == {n \in Nat : ~\E f : f = InjectBody(l, pos, vs, n, f)}
<1>1. ASSUME Bad # {} PROVE FALSE
  <2>1. PICK k \in Bad : \A j \in Bad : k <= j
    <3>1. Bad \subseteq Nat
      OBVIOUS
    <3> QED BY <1>1, <3>1, LeastNat
  <2>2. k \in Nat /\ ~\E f : f = InjectBody(l, pos, vs, k, f)
    OBVIOUS
  <2>3. k # 0
    <3>1. PICK f : f = [j \in 0 .. 0 |-> [l |-> l, pos |-> pos]]
      OBVIOUS
    <3>2. \A j \in 0 .. 0 : j = 0
      OBVIOUS
    <3>3. f = InjectBody(l, pos, vs, 0, f)
      BY <3>1, <3>2 DEF InjectBody
    <3> QED BY <2>2, <3>3
  <2>4. PICK h \in Nat : k = h + 1
    <3>1. k - 1 \in Nat /\ k = (k - 1) + 1
      BY <2>2, <2>3
    <3> QED BY <3>1
  <2>5. h \notin Bad
    <3>1. ~(k <= h)
      BY <2>4
    <3> HIDE DEF Bad
    <3> QED BY <2>1, <3>1
  <2>6. PICK f : f = InjectBody(l, pos, vs, h, f)
    BY <2>5
  <2>7. \A j \in 0 .. h : f[j] = IF j = 0 THEN [l |-> l, pos |-> pos] ELSE InjectAt(f[j - 1], vs[j])
    <3>1. f = [j \in 0 .. h |-> IF j = 0 THEN [l |-> l, pos |-> pos] ELSE InjectAt(f[j - 1], vs[j])]
      BY <2>6 DEF InjectBody
    <3> QED BY <3>1
  <2>8. PICK y : y = InjectAt(f[h], vs[k])
    OBVIOUS
  <2>9. PICK g : g = [j \in 0 .. k |-> IF j = k THEN y ELSE f[j]]
    OBVIOUS
  <2>10. g[k] = y /\ \A j \in 0 .. h : g[j] = f[j]
    BY <2>4, <2>9
  <2>11. ASSUME NEW j \in 0 .. k
         PROVE  g[j] = IF j = 0 THEN [l |-> l, pos |-> pos] ELSE InjectAt(g[j - 1], vs[j])
    <3>1. CASE j = k
      <4>1. j # 0 /\ j - 1 = h /\ h \in 0 .. h
        BY <2>4, <3>1
      <4> QED BY <2>8, <2>10, <3>1, <4>1
    <3>2. CASE j # k
      <4>1. j \in 0 .. h /\ (j # 0 => j - 1 \in 0 .. h)
        BY <2>4, <3>2
      <4> QED BY <2>7, <2>10, <4>1
    <3> QED BY <3>1, <3>2
  <2>12. g = [j \in 0 .. k |-> g[j]]
    BY <2>9
  <2>13. g = InjectBody(l, pos, vs, k, g)
    BY <2>11, <2>12 DEF InjectBody
  <2> QED BY <2>2, <2>13
<1>2. N \notin Bad
  BY <1>1
<1>3. \E f : f = InjectBody(l, pos, vs, N, f)
  BY <1>2
<1> QED BY <1>3 DEF InjectRun

\* ... and those of EraseRange.
EraseBody(l, ids, N, at) ==
    [k \in 0 .. N |-> IF k = 0 THEN l ELSE Release(at[k - 1], ids[k])]
EraseRun(l, ids, N) == CHOOSE f : f = EraseBody(l, ids, N, f)

LEMMA EraseRuns ==
    ASSUME NEW l, NEW ids, NEW N \in Nat, NEW at, at = EraseRun(l, ids, N)
    PROVE  at = EraseBody(l, ids, N, at)
<1> DEFINE Bad == {n \in Nat : ~\E f : f = EraseBody(l, ids, n, f)}
<1>1. ASSUME Bad # {} PROVE FALSE
  <2>1. PICK k \in Bad : \A j \in Bad : k <= j
    <3>1. Bad \subseteq Nat
      OBVIOUS
    <3> QED BY <1>1, <3>1, LeastNat
  <2>2. k \in Nat /\ ~\E f : f = EraseBody(l, ids, k, f)
    OBVIOUS
  <2>3. k # 0
    <3>1. PICK f : f = [j \in 0 .. 0 |-> l]
      OBVIOUS
    <3>2. \A j \in 0 .. 0 : j = 0
      OBVIOUS
    <3>3. f = EraseBody(l, ids, 0, f)
      BY <3>1, <3>2 DEF EraseBody
    <3> QED BY <2>2, <3>3
  <2>4. PICK h \in Nat : k = h + 1
    <3>1. k - 1 \in Nat /\ k = (k - 1) + 1
      BY <2>2, <2>3
    <3> QED BY <3>1
  <2>5. h \notin Bad
    <3>1. ~(k <= h)
      BY <2>4
    <3> HIDE DEF Bad
    <3> QED BY <2>1, <3>1
  <2>6. PICK f : f = EraseBody(l, ids, h, f)
    BY <2>5
  <2>7. \A j \in 0 .. h : f[j] = IF j = 0 THEN l ELSE Release(f[j - 1], ids[j])
    <3>1. f = [j \in 0 .. h |-> IF j = 0 THEN l ELSE Release(f[j - 1], ids[j])]
      BY <2>6 DEF EraseBody
    <3> QED BY <3>1
  <2>8. PICK y : y = Release(f[h], ids[k])
    OBVIOUS
  <2>9. PICK g : g = [j \in 0 .. k |-> IF j = k THEN y ELSE f[j]]
    OBVIOUS
  <2>10. g[k] = y /\ \A j \in 0 .. h : g[j] = f[j]
    BY <2>4, <2>9
  <2>11. ASSUME NEW j \in 0 .. k
         PROVE  g[j] = IF j = 0 THEN l ELSE Release(g[j - 1], ids[j])
    <3>1. CASE j = k
      <4>1. j # 0 /\ j - 1 = h /\ h \in 0 .. h
        BY <2>4, <3>1
      <4> QED BY <2>8, <2>10, <3>1, <4>1
    <3>2. CASE j # k
      <4>1. j \in 0 .. h /\ (j # 0 => j - 1 \in 0 .. h)
        BY <2>4, <3>2
      <4> QED BY <2>7, <2>10, <4>1
    <3> QED BY <3>1, <3>2
  <2>12. g = [j \in 0 .. k |-> g[j]]
    BY <2>9
  <2>13. g = EraseBody(l, ids, k, g)
    BY <2>11, <2>12 DEF EraseBody
  <2> QED BY <2>2, <2>13
<1>2. N \notin Bad
  BY <1>1
<1>3. \E f : f = EraseBody(l, ids, N, f)
  BY <1>2
<1> QED BY <1>3 DEF EraseRun

\* Each list of at comes from the one before by an insertion.
Fed(at, vs, N) == \A k \in 0 .. N - 1 : at[k + 1] = InjectAt(at[k], vs[k + 1])

LEMMA InjectAllIs ==
    ASSUME NEW l, NEW pos, NEW vs, NEW N \in Nat, N = Len(vs), NEW r, r = InjectAll(l, pos, vs),
           NEW at, at = InjectRun(l, pos, vs, N), NEW start, start = [l |-> l, pos |-> pos]
    PROVE  /\ r = at[N].l
           /\ at[0] = start /\ Fed(at, vs, N)
<1>1. N = Len(vs)
  OBVIOUS
<1>2. at = InjectRun(l, pos, vs, N)
  BY <1>1
<1>3. at = InjectBody(l, pos, vs, N, at)
  BY <1>2, InjectRuns
<1>4. \A k \in 0 .. N : at[k] = IF k = 0 THEN [l |-> l, pos |-> pos] ELSE InjectAt(at[k - 1], vs[k])
  <2>1. at = [k \in 0 .. N |-> IF k = 0 THEN [l |-> l, pos |-> pos] ELSE InjectAt(at[k - 1], vs[k])]
    BY <1>3 DEF InjectBody
  <2> QED BY <2>1
<1>5. 0 \in 0 .. N /\ \A k \in 0 .. N - 1 : k + 1 \in 0 .. N /\ k + 1 # 0 /\ (k + 1) - 1 = k
  BY <1>1
<1>6. at[0] = [l |-> l, pos |-> pos]
  BY <1>4, <1>5
<1>7. ASSUME NEW k \in 0 .. N - 1 PROVE at[k + 1] = InjectAt(at[k], vs[k + 1])
  <2>1. PICK j : j = k + 1
    OBVIOUS
  <2>2. j \in 0 .. N /\ j # 0 /\ j - 1 = k
    BY <1>5, <2>1
  <2>3. at[j] = InjectAt(at[j - 1], vs[j])
    BY <1>4, <2>2
  <2> QED BY <2>1, <2>2, <2>3
<1>8. InjectAll(l, pos, vs) = InjectRun(l, pos, vs, Len(vs))[Len(vs)].l
  BY DEF InjectAll, InjectRun, InjectBody
<1> QED BY <1>1, <1>6, <1>7, <1>8 DEF Fed

LEMMA EraseRangeIs ==
    ASSUME NEW l, NEW ids, Len(ids) \in Nat, NEW at, at = EraseRun(l, ids, Len(ids))
    PROVE  /\ EraseRange(l, ids) = at[Len(ids)]
           /\ at[0] = l
           /\ \A k \in 0 .. Len(ids) - 1 : at[k + 1] = Release(at[k], ids[k + 1])
<1>1. PICK N \in Nat : N = Len(ids)
  OBVIOUS
<1>2. at = EraseRun(l, ids, N)
  BY <1>1
<1>3. at = EraseBody(l, ids, N, at)
  BY <1>2, EraseRuns
<1>4. \A k \in 0 .. N : at[k] = IF k = 0 THEN l ELSE Release(at[k - 1], ids[k])
  <2>1. at = [k \in 0 .. N |-> IF k = 0 THEN l ELSE Release(at[k - 1], ids[k])]
    BY <1>3 DEF EraseBody
  <2> QED BY <2>1
<1>5. 0 \in 0 .. N /\ \A k \in 0 .. N - 1 : k + 1 \in 0 .. N /\ k + 1 # 0 /\ (k + 1) - 1 = k
  BY <1>1
<1>6. at[0] = l
  BY <1>4, <1>5
<1>7. ASSUME NEW k \in 0 .. N - 1 PROVE at[k + 1] = Release(at[k], ids[k + 1])
  <2>1. PICK j : j = k + 1
    OBVIOUS
  <2>2. j \in 0 .. N /\ j # 0 /\ j - 1 = k
    BY <1>5, <2>1
  <2>3. at[j] = Release(at[j - 1], ids[j])
    BY <1>4, <2>2
  <2> QED BY <2>1, <2>2, <2>3
<1>8. EraseRange(l, ids) = EraseRun(l, ids, Len(ids))[Len(ids)]
  BY DEF EraseRange, EraseRun, EraseBody
<1> QED BY <1>1, <1>6, <1>7, <1>8

\* Elements are put in as long as there is room for them.
LEMMA InjectAllKeeps ==
    ASSUME NEW l, NEW s, NEW F, NEW q, Whole(l, s, F, q), NEW k \in 1 .. Len(s) + 1,
           NEW vs \in Seq(Values), NewBuffer \in Dync, NEW n, n = Least(Len(vs), END_ID - Len(q)),
           NEW r, r = InjectAll(l, Ring(s, k), vs)
    PROVE  /\ \E t, G : Whole(r, t, G, Piled(q, k, vs, n))
           /\ Buffered(l, r)
<1>1. PICK N \in Nat : N = Len(vs)
  OBVIOUS
<1>2. /\ Len(q) \in Nat /\ Len(q) <= END_ID /\ Len(s) = Len(q) /\ END_ID \in Nat
      /\ q \in Seq(Values) /\ k \in 1 .. Len(q) + 1
  <2>1. Len(q) \in Nat /\ Len(q) <= END_ID /\ Len(s) = Len(q)
    BY RoomIs
  <2> QED BY <2>1, NodeIds DEF Whole
<1>3. PICK pos : pos = Ring(s, k)
  OBVIOUS
<1>4. PICK at : at = InjectRun(l, pos, vs, N)
  OBVIOUS
<1>5. /\ r = at[N].l /\ at[0] = [l |-> l, pos |-> pos]
      /\ \A j \in 0 .. N - 1 : at[j + 1] = InjectAt(at[j], vs[j + 1])
  <2>1. PICK start : start = [l |-> l, pos |-> pos]
    OBVIOUS
  <2>2. r = InjectAll(l, pos, vs)
    BY <1>3
  <2>3. r = at[N].l /\ at[0] = start /\ Fed(at, vs, N)
    BY <1>1, <1>4, <2>1, <2>2, InjectAllIs
  <2> QED BY <2>1, <2>3 DEF Fed
<1>6. PICK room \in Nat : room = END_ID - Len(q)
  BY <1>2
<1>7. n = Least(N, room) /\ n \in 0 .. N /\ n <= room
  BY <1>1, <1>6 DEF Least
<1> DEFINE Right(j) ==
              IF j <= room
              THEN \E t, G : /\ Whole(at[j].l, t, G, Piled(q, k, vs, j))
                             /\ at[j] = [l |-> at[j].l, pos |-> Ring(t, k)] /\ Buffered(l, at[j].l)
              ELSE at[j].l = at[room].l /\ ListFull(at[room].l)
           Bad == {j \in 0 .. N : ~Right(j)}
<1>8. Right(0)
  <2>1. 0 \in 0 .. Len(vs)
    BY <1>1
  <2>2. Piled(q, k, vs, 0) = q
    BY <1>2, <2>1, PiledFacts
  <2>3. at[0].l = l /\ at[0] = [l |-> at[0].l, pos |-> Ring(s, k)] /\ 0 <= room
    BY <1>3, <1>5, <1>6
  <2>4. Buffered(l, at[0].l)
    BY <2>3, BufferOnce
  <2>5. Whole(at[0].l, s, F, Piled(q, k, vs, 0))
    BY <2>2, <2>3
  <2> QED BY <2>3, <2>4, <2>5
<1>9. ASSUME NEW j \in 0 .. N - 1, Right(j) PROVE Right(j + 1)
  <2>1. j \in 0 .. Len(vs) /\ j < Len(vs) /\ j + 1 \in 1 .. Len(vs) /\ j \in Nat /\ vs[j + 1] \in Values
    BY <1>1
  <2>2. CASE j < room
    <3>1. PICK t, G : /\ Whole(at[j].l, t, G, Piled(q, k, vs, j))
                      /\ at[j] = [l |-> at[j].l, pos |-> Ring(t, k)] /\ Buffered(l, at[j].l)
      BY <1>6, <1>9, <2>1, <2>2
    <3>2. PICK a, b, c : a = at[j].l /\ b = Piled(q, k, vs, j) /\ c = at[j + 1]
      OBVIOUS
    <3>3. Len(b) = Len(q) + j
      BY <1>2, <2>1, <3>2, PiledFacts
    <3>4. Whole(a, t, G, b)
      BY <3>1, <3>2
    <3>5. Len(t) = Len(b) /\ (ListFull(a) <=> Len(b) = END_ID)
      BY <3>4, RoomIs
    <3>6. k \in 1 .. Len(t) + 1 /\ ~ListFull(a)
      BY <1>2, <1>6, <2>1, <2>2, <3>3, <3>5
    <3>7. c = InjectAt([l |-> a, pos |-> Ring(t, k)], vs[j + 1])
      BY <1>5, <3>1, <3>2
    <3>8. PICK H, id : /\ Whole(c.l, Inserted(t, k, id), H, Inserted(b, k, vs[j + 1]))
                       /\ c.pos = id /\ id = Ring(Inserted(t, k, id), k) /\ Buffered(a, c.l)
      BY <2>1, <3>4, <3>6, <3>7, InjectKeeps
    <3>9. Inserted(b, k, vs[j + 1]) = Piled(q, k, vs, j + 1)
      BY <1>2, <2>1, <3>2, PiledFacts
    <3>10. c = [l |-> c.l, pos |-> c.pos]
      BY <3>6, <3>7 DEF InjectAt
    <3>11. Buffered(l, c.l)
      BY <3>1, <3>2, <3>8, BufferOnce
    <3>12. PICK u : u = Inserted(t, k, id)
      OBVIOUS
    <3>13. /\ Whole(at[j + 1].l, u, H, Piled(q, k, vs, j + 1))
           /\ at[j + 1] = [l |-> at[j + 1].l, pos |-> Ring(u, k)] /\ Buffered(l, at[j + 1].l)
      BY <3>2, <3>8, <3>9, <3>10, <3>11, <3>12
    <3>14. j + 1 <= room
      BY <2>1, <2>2
    <3> QED BY <3>13, <3>14
  <2>3. CASE j >= room
    <3>1. at[j].l = at[room].l /\ ListFull(at[room].l)
      <4>1. CASE j = room
        <5>1. j <= room
          BY <1>6, <4>1
        <5>2. PICK t, G : Whole(at[j].l, t, G, Piled(q, k, vs, j))
          BY <1>9, <5>1
        <5>3. PICK a, b : a = at[j].l /\ b = Piled(q, k, vs, j)
          OBVIOUS
        <5>4. Len(b) = Len(q) + j
          BY <1>2, <2>1, <5>3, PiledFacts
        <5>5. Whole(a, t, G, b)
          BY <5>2, <5>3
        <5>6. Len(b) = END_ID
          BY <1>2, <1>6, <4>1, <5>4
        <5>7. ListFull(a)
          BY <5>5, <5>6, RoomIs
        <5> QED BY <4>1, <5>3, <5>7
      <4>2. CASE j # room
        <5>1. ~(j <= room)
          BY <1>6, <2>1, <2>3, <4>2
        <5> QED BY <1>9, <5>1
      <4> QED BY <4>1, <4>2
    <3>2. at[j + 1] = InjectAt(at[j], vs[j + 1])
      BY <1>5
    <3>3. at[j + 1].l = at[j].l
      BY <3>1, <3>2 DEF InjectAt
    <3>4. ~(j + 1 <= room)
      BY <1>6, <2>1, <2>3
    <3> QED BY <3>1, <3>3, <3>4
  <2> QED BY <1>6, <2>1, <2>2, <2>3
<1>10. \A j \in 0 .. N : Right(j)
  <2> HIDE DEF Right
  <2>1. ASSUME Bad # {} PROVE FALSE
    <3>1. PICK j \in Bad : \A i \in Bad : j <= i
      <4>1. Bad \subseteq Nat
        OBVIOUS
      <4> QED BY <2>1, <4>1, LeastNat
    <3>2. j \in 0 .. N /\ ~Right(j)
      OBVIOUS
    <3>3. j # 0
      BY <1>8, <3>2
    <3>4. PICK i \in 0 .. N - 1 : j = i + 1
      <4>1. j - 1 \in 0 .. N - 1 /\ j = (j - 1) + 1
        BY <1>1, <3>2, <3>3
      <4> QED BY <4>1
    <3>5. i \in 0 .. N /\ ~(j <= i)
      BY <1>1, <3>4
    <3>6. Right(i)
      BY <3>1, <3>5
    <3>7. Right(i + 1)
      BY <1>9, <3>6
    <3> QED BY <3>2, <3>4, <3>7
  <2> QED BY <2>1
<1>11. Right(n)
  BY <1>7, <1>10
<1>12. at[N].l = at[n].l
  <2>1. CASE N <= room
    BY <1>1, <1>6, <1>7, <2>1 DEF Least
  <2>2. CASE ~(N <= room)
    <3>1. n = room
      BY <1>1, <1>6, <1>7, <2>2 DEF Least
    <3>2. Right(N) /\ N \in 0 .. N
      BY <1>1, <1>10
    <3> QED BY <2>2, <3>1, <3>2
  <2> QED BY <2>1, <2>2
<1> QED BY <1>5, <1>7, <1>11, <1>12

LEMMA EraseRangeKeeps ==
    ASSUME NEW l, NEW s, NEW F, NEW q, Whole(l, s, F, q), NEW k \in 1 .. Len(s),
           NEW ids, Len(ids) \in 0 .. Len(s) - k + 1,
           \A j \in 1 .. Len(ids) : ids[j] = s[k + j - 1],
           NEW r, r = EraseRange(l, ids)
    PROVE  /\ \E t, G : Whole(r, t, G, Cut(q, k, Len(ids)))
           /\ r.dync = l.dync
<1>1. PICK N \in Nat : N = Len(ids)
  OBVIOUS
<1>2. /\ Len(q) \in Nat /\ Len(s) = Len(q) /\ q \in Seq(Values) /\ s \in Seq(Nodes)
      /\ k \in 1 .. Len(q)
  <2>1. Len(q) \in Nat /\ Len(s) = Len(q)
    BY RoomIs
  <2> QED BY <2>1 DEF Whole
<1>3. PICK at : at = EraseRun(l, ids, Len(ids))
  OBVIOUS
<1>4. r = at[N] /\ at[0] = l /\ \A j \in 0 .. N - 1 : at[j + 1] = Release(at[j], ids[j + 1])
  <2>1. Len(ids) \in Nat
    BY <1>1
  <2>2. /\ EraseRange(l, ids) = at[Len(ids)] /\ at[0] = l
        /\ \A j \in 0 .. Len(ids) - 1 : at[j + 1] = Release(at[j], ids[j + 1])
    BY <1>3, <2>1, EraseRangeIs
  <2> QED BY <1>1, <2>2
<1> DEFINE Right(j) == \E G : Whole(at[j], Cut(s, k, j), G, Cut(q, k, j)) /\ at[j].dync = l.dync
           Bad == {j \in 0 .. N : ~Right(j)}
<1>5. Right(0)
  <2>1. 0 \in 0 .. Len(q) - k + 1 /\ 0 \in 0 .. Len(s) - k + 1
    BY <1>2
  <2>2. Cut(q, k, 0) = q
    BY <1>2, <2>1, CutFacts
  <2>3. Cut(s, k, 0) = s
    BY <1>2, <2>1, CutFacts
  <2> QED BY <1>4, <2>2, <2>3
<1>6. ASSUME NEW j \in 0 .. N - 1, Right(j) PROVE Right(j + 1)
  <2>1. PICK G : Whole(at[j], Cut(s, k, j), G, Cut(q, k, j)) /\ at[j].dync = l.dync
    BY <1>6
  <2>2. PICK a, b, c : a = at[j] /\ b = Cut(q, k, j) /\ c = Cut(s, k, j)
    OBVIOUS
  <2>3. j \in 0 .. Len(q) - k + 1 /\ j < Len(q) - k + 1 /\ j \in 0 .. Len(s) - k + 1 /\ j < Len(s) - k + 1
        /\ j + 1 \in 1 .. Len(ids)
    BY <1>1, <1>2
  <2>4. Cut(q, k, j + 1) = Dropped(b, k)
    BY <1>2, <2>2, <2>3, CutFacts
  <2>5. /\ Cut(s, k, j + 1) = Dropped(c, k) /\ Len(c) = Len(s) - j
        /\ \A i \in 1 .. Len(s) - j : c[i] = IF i < k THEN s[i] ELSE s[i + j]
    <3>1. s \in Seq(Nodes) /\ j \in 0 .. Len(s) - k + 1 /\ j < Len(s) - k + 1
      BY <1>2, <2>3
    <3>2. /\ Len(Cut(s, k, j)) = Len(s) - j
          /\ \A i \in 1 .. Len(s) - j : Cut(s, k, j)[i] = IF i < k THEN s[i] ELSE s[i + j]
      BY <3>1, CutFacts
    <3>3. Cut(s, k, j + 1) = Dropped(Cut(s, k, j), k)
      BY <3>1, CutFacts
    <3> QED BY <2>2, <3>2, <3>3
  <2>6. k \in 1 .. Len(c) /\ k \in 1 .. Len(s) - j /\ ~(k < k)
    BY <1>2, <2>3, <2>5
  <2>7. c[k] = ids[j + 1]
    <3>1. c[k] = s[k + j]
      BY <2>5, <2>6
    <3>2. k + (j + 1) - 1 = k + j
      BY <1>2, <2>3
    <3>3. ids[j + 1] = s[k + (j + 1) - 1]
      BY <2>3
    <3> QED BY <3>1, <3>2, <3>3
  <2>8. at[j + 1] = Release(a, c[k])
    BY <1>4, <2>2, <2>7
  <2>9. Whole(a, c, G, b)
    BY <2>1, <2>2
  <2>10. PICK n : n = at[j + 1]
    OBVIOUS
  <2>11. n = Release(a, c[k])
    BY <2>8, <2>10
  <2>12. (\E H : Whole(n, Dropped(c, k), H, Dropped(b, k))) /\ n.dync = a.dync
    BY <2>6, <2>9, <2>11, ReleaseKeeps
  <2> QED BY <2>1, <2>2, <2>4, <2>5, <2>10, <2>12
<1>7. \A j \in 0 .. N : Right(j)
  <2> HIDE DEF Right
  <2>1. ASSUME Bad # {} PROVE FALSE
    <3>1. PICK j \in Bad : \A i \in Bad : j <= i
      <4>1. Bad \subseteq Nat
        OBVIOUS
      <4> QED BY <2>1, <4>1, LeastNat
    <3>2. j \in 0 .. N /\ ~Right(j)
      OBVIOUS
    <3>3. j # 0
      BY <1>5, <3>2
    <3>4. PICK i \in 0 .. N - 1 : j = i + 1
      <4>1. j - 1 \in 0 .. N - 1 /\ j = (j - 1) + 1
        BY <1>1, <3>2, <3>3
      <4> QED BY <4>1
    <3>5. i \in 0 .. N /\ ~(j <= i)
      BY <1>1, <3>4
    <3>6. Right(i)
      BY <3>1, <3>5
    <3>7. Right(i + 1)
      BY <1>6, <3>6
    <3> QED BY <3>2, <3>4, <3>7
  <2> QED BY <2>1
<1>8. Right(N)
  BY <1>1, <1>7
<1> QED BY <1>1, <1>4, <1>8

-----------------------------------------------------------------------------
(* What the histories say *)

\* Spliced, element by element.
Joint(q, k, n, new) ==
    [i \in 1 .. Len(q) - n + Len(new) |->
       IF i < k THEN q[i] ELSE IF i < k + Len(new) THEN new[i - k + 1] ELSE q[i - Len(new) + n]]

LEMMA SplicedIs ==
    ASSUME NEW S, NEW q \in Seq(S), NEW new \in Seq(S), NEW k \in 1 .. Len(q) + 1,
           NEW n \in 0 .. Len(q) - k + 1
    PROVE  Spliced(q, k, n, new) = Joint(q, k, n, new)
<1>1. PICK m \in Nat, w \in Nat : m = Len(q) /\ w = Len(new)
  OBVIOUS
<1>2. k \in 1 .. m + 1 /\ n \in 0 .. m - k + 1 /\ n \in Nat
  BY <1>1
<1>3. PICK A : A = SubSeq(q, 1, k - 1)
  OBVIOUS
<1>4. PICK B : B = SubSeq(q, k + n, m)
  OBVIOUS
<1>5. A \in Seq(S) /\ Len(A) = k - 1 /\ \A i \in 1 .. k - 1 : A[i] = q[i]
  <2>1. \A i \in 1 .. k - 1 : q[i] \in S /\ 1 + i - 1 = i
    BY <1>1, <1>2
  <2>2. /\ A \in Seq(S) /\ Len(A) = IF 1 <= k - 1 THEN (k - 1) - 1 + 1 ELSE 0
        /\ \A i \in 1 .. (k - 1) - 1 + 1 : A[i] = q[1 + i - 1]
    BY <1>3, <2>1, SubSeqProperties
  <2>3. (k - 1) - 1 + 1 = k - 1 /\ (~(1 <= k - 1) => k - 1 = 0)
    BY <1>2
  <2> QED BY <2>1, <2>2, <2>3
<1>6. B \in Seq(S) /\ Len(B) = m - k - n + 1 /\ \A i \in 1 .. m - k - n + 1 : B[i] = q[i + k + n - 1]
  <2>1. \A i \in k + n .. m : q[i] \in S
    BY <1>1, <1>2
  <2>2. PICK f \in Int : f = k + n
    BY <1>2
  <2>3. \A i \in f .. m : q[i] \in S
    BY <2>1, <2>2
  <2>4. /\ B \in Seq(S) /\ Len(B) = IF f <= m THEN m - f + 1 ELSE 0
        /\ \A i \in 1 .. m - f + 1 : B[i] = q[f + i - 1]
    <3>1. B = SubSeq(q, f, m)
      BY <1>4, <2>2
    <3> QED BY <2>3, <3>1, SubSeqProperties, SMTT(60)
  <2>5. m - f + 1 = m - k - n + 1 /\ (~(f <= m) => m - k - n + 1 = 0)
    BY <1>2, <2>2
  <2>6. \A i \in 1 .. m - k - n + 1 : f + i - 1 = i + k + n - 1
    BY <1>2, <2>2
  <2> QED BY <2>4, <2>5, <2>6
<1>7. PICK C : C = A \o new
  OBVIOUS
<1>8. /\ C \in Seq(S) /\ Len(C) = k - 1 + w
      /\ \A i \in 1 .. k - 1 + w : C[i] = IF i < k THEN q[i] ELSE new[i - k + 1]
  <2>1. /\ C \in Seq(S) /\ Len(C) = Len(A) + Len(new)
        /\ \A i \in 1 .. Len(A) + Len(new) : C[i] = IF i <= Len(A) THEN A[i] ELSE new[i - Len(A)]
    BY <1>5, <1>7, ConcatProperties
  <2>2. ASSUME NEW i \in 1 .. k - 1 + w PROVE C[i] = IF i < k THEN q[i] ELSE new[i - k + 1]
    <3>1. CASE i < k
      <4>1. i \in 1 .. Len(A) + Len(new) /\ i <= Len(A) /\ i \in 1 .. k - 1
        BY <1>1, <1>2, <1>5, <3>1
      <4>2. C[i] = A[i]
        BY <2>1, <4>1
      <4> QED BY <1>5, <3>1, <4>1, <4>2
    <3>2. CASE ~(i < k)
      <4>1. i \in 1 .. Len(A) + Len(new) /\ ~(i <= Len(A)) /\ i - Len(A) = i - k + 1
        BY <1>1, <1>2, <1>5, <3>2
      <4>2. C[i] = new[i - Len(A)]
        BY <2>1, <4>1
      <4> QED BY <3>2, <4>1, <4>2
    <3> QED BY <3>1, <3>2
  <2> QED BY <1>1, <1>5, <2>1, <2>2
<1>9. PICK D : D = C \o B
  OBVIOUS
<1>10. Spliced(q, k, n, new) = D
  BY <1>1, <1>3, <1>4, <1>7, <1>9 DEF Spliced
<1>11. PICK a \in Nat : a = m - n + w
  <2>1. m - n + w \in Nat
    BY <1>1, <1>2
  <2> QED BY <2>1
<1>12. /\ D \in Seq(S) /\ Len(D) = Len(C) + Len(B)
       /\ \A i \in 1 .. Len(C) + Len(B) : D[i] = IF i <= Len(C) THEN C[i] ELSE B[i - Len(C)]
  BY <1>6, <1>8, <1>9, ConcatProperties
<1>13. D \in Seq(S) /\ Len(D) = a
  <2>1. Len(C) + Len(B) = a
    BY <1>1, <1>2, <1>6, <1>8, <1>11
  <2> QED BY <1>12, <2>1
<1>14. ASSUME NEW i \in 1 .. a
       PROVE  D[i] = IF i < k THEN q[i] ELSE IF i < k + w THEN new[i - k + 1] ELSE q[i - w + n]
  <2>1. CASE i < k + w
    <3>1. i \in 1 .. Len(C) + Len(B) /\ i <= Len(C) /\ i \in 1 .. k - 1 + w
      BY <1>1, <1>2, <1>6, <1>8, <2>1
    <3>2. D[i] = C[i]
      BY <1>12, <3>1
    <3> QED BY <1>8, <2>1, <3>1, <3>2
  <2>2. CASE ~(i < k + w)
    <3>1. /\ i \in 1 .. Len(C) + Len(B) /\ ~(i <= Len(C)) /\ i - Len(C) \in 1 .. m - k - n + 1
          /\ (i - Len(C)) + k + n - 1 = i - w + n /\ ~(i < k)
      BY <1>1, <1>2, <1>6, <1>8, <1>11, <2>2
    <3>2. D[i] = B[i - Len(C)]
      BY <1>12, <3>1
    <3>3. B[i - Len(C)] = q[(i - Len(C)) + k + n - 1]
      BY <1>6, <3>1
    <3> QED BY <2>2, <3>1, <3>2, <3>3
  <2> QED BY <2>1, <2>2
<1>15. D = [i \in 1 .. a |-> D[i]]
  BY <1>13
<1>16. D = [i \in 1 .. a |-> IF i < k THEN q[i] ELSE IF i < k + w THEN new[i - k + 1] ELSE q[i - w + n]]
  BY <1>14, <1>15
<1> QED BY <1>1, <1>10, <1>11, <1>16 DEF Joint

LEMMA SplicedOne ==
    ASSUME NEW S, NEW q \in Seq(S), NEW v \in S, NEW k \in 1 .. Len(q) + 1
    PROVE  Spliced(q, k, 0, <<v>>) = Inserted(q, k, v)
<1>1. PICK m \in Nat : m = Len(q)
  OBVIOUS
<1>2. PICK new : new = <<v>> /\ new \in Seq(S) /\ Len(new) = 1 /\ new[1] = v
  <2>1. <<v>> \in Seq(S) /\ Len(<<v>>) = 1 /\ <<v>>[1] = v
    OBVIOUS
  <2> QED BY <2>1
<1>3. 0 \in 0 .. Len(q) - k + 1 /\ k \in 1 .. m + 1
  BY <1>1
<1>4. Spliced(q, k, 0, new)
        = [i \in 1 .. Len(q) - 0 + Len(new) |->
             IF i < k THEN q[i] ELSE IF i < k + Len(new) THEN new[i - k + 1] ELSE q[i - Len(new) + 0]]
  <2>1. PICK o : o = 0
    OBVIOUS
  <2>2. new \in Seq(S) /\ o \in 0 .. Len(q) - k + 1
    BY <1>2, <1>3, <2>1
  <2>3. Spliced(q, k, o, new)
          = [i \in 1 .. Len(q) - o + Len(new) |->
               IF i < k THEN q[i] ELSE IF i < k + Len(new) THEN new[i - k + 1] ELSE q[i - Len(new) + o]]
    <3>1. Spliced(q, k, o, new) = Joint(q, k, o, new)
      BY <2>2, SplicedIs
    <3> QED BY <3>1 DEF Joint
  <2> QED BY <2>1, <2>3
<1>5. Len(q) - 0 + Len(new) = Len(q) + 1
  BY <1>2
<1>6. ASSUME NEW i \in 1 .. Len(q) + 1
      PROVE  (IF i < k THEN q[i] ELSE IF i < k + Len(new) THEN new[i - k + 1] ELSE q[i - Len(new) + 0])
               = (IF i < k THEN q[i] ELSE IF i = k THEN v ELSE q[i - 1])
  <2>1. /\ (~(i < k) => (i < k + Len(new) <=> i = k))
        /\ (i = k => i - k + 1 = 1) /\ i - Len(new) + 0 = i - 1
    BY <1>1, <1>2, <1>3
  <2> QED BY <1>2, <2>1
<1> QED BY <1>2, <1>4, <1>5, <1>6 DEF Inserted

LEMMA SplicedCut ==
    ASSUME NEW S, NEW q \in Seq(S), NEW k \in 1 .. Len(q), NEW n \in 0 .. Len(q) - k + 1
    PROVE  Spliced(q, k, n, <<>>) = Cut(q, k, n)
<1>1. PICK m \in Nat : m = Len(q)
  OBVIOUS
<1>2. PICK new : new = <<>> /\ new \in Seq(S) /\ Len(new) = 0
  <2>1. <<>> \in Seq(S) /\ Len(<<>>) = 0
    OBVIOUS
  <2> QED BY <2>1
<1>3. k \in 1 .. Len(q) + 1 /\ k \in 1 .. m /\ n \in Nat
  BY <1>1
<1>4. Spliced(q, k, n, new)
        = [i \in 1 .. Len(q) - n + Len(new) |->
             IF i < k THEN q[i] ELSE IF i < k + Len(new) THEN new[i - k + 1] ELSE q[i - Len(new) + n]]
  <2>1. new \in Seq(S) /\ k \in 1 .. Len(q) + 1
    BY <1>2, <1>3
  <2>2. Spliced(q, k, n, new) = Joint(q, k, n, new)
    BY <2>1, SplicedIs
  <2> QED BY <2>2 DEF Joint
<1>5. Len(q) - n + Len(new) = Len(q) - n
  BY <1>1, <1>2, <1>3
<1>6. ASSUME NEW i \in 1 .. Len(q) - n
      PROVE  (IF i < k THEN q[i] ELSE IF i < k + Len(new) THEN new[i - k + 1] ELSE q[i - Len(new) + n])
               = (IF i < k THEN q[i] ELSE q[i + n])
  <2>1. (~(i < k) => ~(i < k + Len(new))) /\ i - Len(new) + n = i + n
    BY <1>1, <1>2, <1>3
  <2> QED BY <2>1
<1> QED BY <1>2, <1>4, <1>5, <1>6 DEF Cut

\* The new elements are piled up from the last to the first.
LEMMA SplicedPile ==
    ASSUME NEW S, NEW q \in Seq(S), NEW k \in 1 .. Len(q) + 1, NEW vs \in Seq(S),
           NEW n \in 0 .. Len(vs), NEW new \in Seq(S), Len(new) = n,
           \A i \in 1 .. n : new[i] = vs[n - i + 1]
    PROVE  Spliced(q, k, 0, new) = Piled(q, k, vs, n)
<1>1. PICK m \in Nat, w \in Nat : m = Len(q) /\ w = Len(vs)
  OBVIOUS
<1>2. 0 \in 0 .. Len(q) - k + 1 /\ k \in 1 .. m + 1 /\ n \in Nat
  BY <1>1
<1>3. Spliced(q, k, 0, new)
        = [i \in 1 .. Len(q) - 0 + Len(new) |->
             IF i < k THEN q[i] ELSE IF i < k + Len(new) THEN new[i - k + 1] ELSE q[i - Len(new) + 0]]
  <2>1. PICK o : o = 0
    OBVIOUS
  <2>2. new \in Seq(S) /\ o \in 0 .. Len(q) - k + 1
    BY <1>2, <2>1
  <2>3. Spliced(q, k, o, new)
          = [i \in 1 .. Len(q) - o + Len(new) |->
               IF i < k THEN q[i] ELSE IF i < k + Len(new) THEN new[i - k + 1] ELSE q[i - Len(new) + o]]
    <3>1. Spliced(q, k, o, new) = Joint(q, k, o, new)
      BY <2>2, SplicedIs
    <3> QED BY <3>1 DEF Joint
  <2> QED BY <2>1, <2>3
<1>4. Len(q) - 0 + Len(new) = Len(q) + n
  BY <1>1, <1>2
<1>5. ASSUME NEW i \in 1 .. Len(q) + n
      PROVE  (IF i < k THEN q[i] ELSE IF i < k + Len(new) THEN new[i - k + 1] ELSE q[i - Len(new) + 0])
               = (IF i < k THEN q[i] ELSE IF i < k + n THEN vs[n - (i - k)] ELSE q[i - n])
  <2>1. CASE i < k
    BY <2>1
  <2>2. CASE ~(i < k) /\ i < k + n
    <3>1. i - k + 1 \in 1 .. n /\ n - (i - k + 1) + 1 = n - (i - k)
      BY <1>1, <1>2, <2>2
    <3>2. new[i - k + 1] = vs[n - (i - k + 1) + 1]
      BY <3>1
    <3> QED BY <2>2, <3>1, <3>2
  <2>3. CASE ~(i < k) /\ ~(i < k + n)
    <3>1. i - Len(new) + 0 = i - n
      BY <1>1, <1>2
    <3> QED BY <2>3, <3>1
  <2> QED BY <2>1, <2>2, <2>3
<1> QED BY <1>3, <1>4, <1>5 DEF Piled

-----------------------------------------------------------------------------
(* What a walk reads *)

LEMMA WalkIs ==
    ASSUME NEW link, NEW n, NEW s \in Seq(Nodes), Spelled(link, n, END_ID, s)
    PROVE  Walk(link, n) = s
<1>1. PICK N, e : N = ListSize /\ e = END_ID /\ N \in Nat
  BY ListAssumption
<1>2. Len(s) <= N
  <2>1. \A i, j \in 1 .. Len(s) : s[i] = s[j] => i = j
    BY DEF Spelled
  <2>2. Cardinality(Nodes) = N /\ IsFiniteSet(Nodes)
    <3>1. Nodes = 0 .. N - 1
      BY <1>1 DEF Nodes
    <3>2. IsFiniteSet(0 .. N - 1) /\ Cardinality(0 .. N - 1) = IF 0 > N - 1 THEN 0 ELSE (N - 1) - 0 + 1
      BY <1>1, FS_Interval
    <3>3. (IF 0 > N - 1 THEN 0 ELSE (N - 1) - 0 + 1) = N
      BY <1>1
    <3> QED BY <3>1, <3>2, <3>3
  <2> QED BY <1>1, <2>1, <2>2, SpelledFits
<1>3. PICK at : at = TheWalk(N, link, n, e)
  OBVIOUS
<1>4. [k \in 1 .. Cardinality({k \in 0 .. N : at[k] # e}) |-> at[k - 1]] = s
  <2>1. Spelled(link, n, e, s)
    BY <1>1
  <2> QED BY <1>1, <1>2, <1>3, <2>1, WalkSpells
<1>5. Walk(link, n) = [k \in 1 .. Cardinality({k \in 0 .. N : at[k] # e}) |-> at[k - 1]]
  BY <1>1, <1>3 DEF Walk, Body, TheWalk
<1> QED BY <1>4, <1>5

LEMMA ReadIs ==
    ASSUME NEW l, NEW s, NEW F, NEW q, Whole(l, s, F, q)
    PROVE  /\ Walk(l.next, l.head) = s /\ Elements(l) = q /\ Walk(l.next, l.free_id) = F
           /\ Walk(l.front, l.front[END_ID]) = Reverse(s)
<1>1. /\ s \in Seq(Nodes) /\ F \in Seq(Nodes) /\ q \in Seq(Values)
      /\ Doubly(l.next, l.front, l.head, s) /\ Spelled(l.next, l.free_id, END_ID, F)
      /\ Len(q) = Len(s) /\ \A i \in 1 .. Len(s) : l.val[s[i]] = q[i]
  BY DEF Whole
<1>2. PICK m \in Nat : m = Len(s)
  BY <1>1
<1>3. /\ l.head = Ring(s, 1)
      /\ \A i \in 1 .. m : l.next[Ring(s, i)] = Ring(s, i + 1)
      /\ \A i \in 1 .. m + 1 : l.front[Ring(s, i)] = Ring(s, i - 1)
      /\ \A i, j \in 1 .. m + 1 : Ring(s, i) = Ring(s, j) => i = j
  BY <1>1, <1>2 DEF Doubly
<1>4. \A i \in 1 .. m : Ring(s, i) = s[i] /\ i \in 1 .. m + 1 /\ s[i] # END_ID
  <2>1. ASSUME NEW i \in 1 .. m PROVE s[i] \in Nodes
    BY <1>1, <1>2
  <2> QED BY <1>2, <2>1, NodeIds DEF Ring
<1>5. Ring(s, m + 1) = END_ID /\ Ring(s, 0) = END_ID
  BY <1>2 DEF Ring
<1>6. \A i, j \in 1 .. m : s[i] = s[j] => i = j
  BY <1>3, <1>4
<1>7. Spelled(l.next, l.head, END_ID, s)
  <2>1. \A i \in 1 .. m + 1 : NodeAt(s, i, END_ID) = Ring(s, i)
    BY <1>2, <1>4, <1>5 DEF NodeAt
  <2>2. l.head = NodeAt(s, 1, END_ID)
    BY <1>2, <1>3, <2>1
  <2>3. \A i \in 1 .. m : l.next[s[i]] = NodeAt(s, i + 1, END_ID)
    BY <1>2, <1>3, <1>4, <2>1
  <2> QED BY <1>2, <1>4, <1>6, <2>2, <2>3 DEF Spelled
<1>8. PICK b : b = Reverse(s)
  OBVIOUS
<1>9. b \in Seq(Nodes) /\ Len(b) = m /\ \A i \in 1 .. m : b[i] = s[m - i + 1] /\ m - i + 1 \in 1 .. m
  <2>1. \A i \in 1 .. m : (m - i) + 1 \in 1 .. m
    BY <1>2
  <2>2. b = [i \in 1 .. m |-> s[(m - i) + 1]]
    BY <1>2, <1>8 DEF Reverse
  <2>3. b \in [1 .. m -> Nodes]
    BY <1>1, <1>2, <2>1, <2>2
  <2> QED BY <2>1, <2>2, <2>3
<1>10. Spelled(l.front, l.front[END_ID], END_ID, b)
  <2>1. ASSUME NEW i \in 1 .. m + 1 PROVE NodeAt(b, i, END_ID) = Ring(s, m - i + 1)
    <3>1. CASE i \in 1 .. m
      BY <1>2, <1>4, <1>9, <3>1 DEF NodeAt
    <3>2. CASE i = m + 1
      <4>1. m - i + 1 = 0 /\ ~(i <= m)
        BY <1>2, <3>2
      <4> QED BY <1>5, <1>9, <4>1 DEF NodeAt
    <3> QED BY <1>2, <3>1, <3>2
  <2>2. l.front[END_ID] = NodeAt(b, 1, END_ID)
    <3>1. m + 1 \in 1 .. m + 1 /\ 1 \in 1 .. m + 1 /\ (m + 1) - 1 = m - 1 + 1
      BY <1>2
    <3>2. l.front[Ring(s, m + 1)] = Ring(s, (m + 1) - 1)
      BY <1>3, <3>1
    <3>3. NodeAt(b, 1, END_ID) = Ring(s, m - 1 + 1)
      BY <2>1, <3>1
    <3> QED BY <1>5, <3>1, <3>2, <3>3
  <2>3. ASSUME NEW i \in 1 .. m PROVE b[i] # END_ID /\ l.front[b[i]] = NodeAt(b, i + 1, END_ID)
    <3>1. PICK j \in 1 .. m : j = m - i + 1 /\ b[i] = s[j]
      BY <1>9
    <3>2. l.front[s[j]] = Ring(s, j - 1) /\ s[j] # END_ID
      BY <1>3, <1>4
    <3>3. i + 1 \in 1 .. m + 1 /\ m - (i + 1) + 1 = j - 1
      BY <1>2, <3>1
    <3> QED BY <2>1, <3>1, <3>2, <3>3
  <2>4. ASSUME NEW i \in 1 .. m, NEW j \in 1 .. m, b[i] = b[j] PROVE i = j
    <3>1. m - i + 1 = m - j + 1
      BY <1>6, <1>9, <2>4
    <3> QED BY <1>2, <3>1
  <2> QED BY <1>9, <2>2, <2>3, <2>4 DEF Spelled
<1>11. Walk(l.next, l.head) = s
  BY <1>1, <1>7, WalkIs
<1>12. Walk(l.next, l.free_id) = F
  BY <1>1, WalkIs
<1>13. Walk(l.front, l.front[END_ID]) = b
  BY <1>9, <1>10, WalkIs
<1>14. Elements(l) = q
  <2>1. Elements(l) = [k \in DOMAIN s |-> l.val[s[k]]]
    BY <1>11 DEF Elements
  <2>2. DOMAIN s = 1 .. m /\ q = [k \in 1 .. m |-> q[k]]
    BY <1>1, <1>2
  <2>3. \A k \in 1 .. m : l.val[s[k]] = q[k]
    BY <1>1, <1>2
  <2> QED BY <2>1, <2>2, <2>3
<1> QED BY <1>8, <1>11, <1>12, <1>13, <1>14

-----------------------------------------------------------------------------
(* The operations on one list *)

\* The list l is whole and holds q.
ListHolds(l, q) == \E s, F : Whole(l, s, F, q)

\* The node of the k-th element.
PosOf(l, k) ==
    IF k > Len(Walk(l.next, l.head)) THEN END_ID ELSE Walk(l.next, l.head)[k]

LEMMA HoldsFacts ==
    ASSUME NEW l, NEW q, ListHolds(l, q)
    PROVE  /\ l \in ListRec /\ q \in Seq(Values) /\ Len(q) \in Nat /\ Len(q) <= END_ID
           /\ END_ID \in Nat /\ l.dync \in Nat /\ l.used_count = Len(q) /\ Elements(l) = q
           /\ ListFull(l) <=> Len(q) = END_ID
<1>1. PICK s, F : Whole(l, s, F, q)
  BY DEF ListHolds
<1>2. l \in ListRec /\ q \in Seq(Values) /\ Elements(l) = q
  BY <1>1, ReadIs DEF Whole
<1>3. Len(q) \in Nat /\ Len(q) <= END_ID /\ l.used_count = Len(q) /\ (ListFull(l) <=> Len(q) = END_ID)
  BY <1>1, RoomIs
<1> QED BY <1>2, <1>3, NodeIds, RecFacts

LEMMA PosIs ==
    ASSUME NEW l, NEW s, NEW F, NEW q, Whole(l, s, F, q), NEW k \in 1 .. Len(q) + 1
    PROVE  PosOf(l, k) = Ring(s, k) /\ k \in 1 .. Len(s) + 1
<1>1. Walk(l.next, l.head) = s
  BY ReadIs
<1>2. Len(s) = Len(q) /\ Len(s) \in Nat
  BY RoomIs
<1>3. k > Len(s) <=> k \notin 1 .. Len(s)
  BY <1>2
<1> QED BY <1>1, <1>2, <1>3 DEF PosOf, Ring

LEMMA InitHolds == ListHolds(InitList, <<>>) /\ InitList.dync = 0
<1>1. PICK l : l = InitList
  OBVIOUS
<1>2. l \in ListRec /\ l.exploit = 0 /\ l.free_id = END_ID /\ l.head = END_ID /\ l.dync = 0
      /\ l.used_count = 0 /\ l.front[END_ID] = END_ID
  <2>1. END_ID \in 0 .. END_ID /\ 0 \in 0 .. END_ID
    BY NodeIds
  <2> QED BY <1>1, <2>1 DEF InitList, ListRec
<1>3. PICK e : e = <<>> /\ e \in Seq(Nodes) /\ e \in Seq(Values) /\ Len(e) = 0
  <2>1. <<>> \in Seq(Nodes) /\ <<>> \in Seq(Values) /\ Len(<<>>) = 0
    OBVIOUS
  <2> QED BY <2>1
<1>4. \A i \in Int : Ring(e, i) = END_ID
  BY <1>3 DEF Ring
<1>5. Doubly(l.next, l.front, l.head, e)
  <2>1. \A i \in 1 .. Len(e) + 1 : i = 1
    BY <1>3
  <2>2. \A i \in 1 .. Len(e) : FALSE
    BY <1>3
  <2>3. Ring(e, 1) = END_ID /\ Ring(e, 1 - 1) = END_ID
    BY <1>4
  <2> QED BY <1>2, <2>1, <2>2, <2>3 DEF Doubly
<1>6. Spelled(l.next, l.free_id, END_ID, e)
  BY <1>2, <1>3 DEF Spelled, NodeAt
<1>7. Shared(l, e, e)
  <2>1. \A x : ~Among(x, e)
    BY <1>3 DEF Among
  <2>2. \A x \in Nodes : ~(x < l.exploit)
    BY <1>2, NodeIds
  <2> QED BY <1>2, <1>3, <2>1, <2>2 DEF Shared
<1>8. Spaced(l)
  BY <1>2, NodeIds DEF Spaced
<1>9. Whole(l, e, e, e)
  BY <1>2, <1>3, <1>5, <1>6, <1>7, <1>8 DEF Whole
<1> QED BY <1>1, <1>2, <1>3, <1>9 DEF ListHolds

LEMMA ClearHolds ==
    ASSUME NEW l, l.dync \in Nat
    PROVE  ListHolds(ClearList(l), <<>>) /\ ClearList(l).dync = l.dync
<1>1. PICK c, n : c = ClearList(l) /\ n = InitList
  OBVIOUS
<1>2. PICK d \in Nat : d = l.dync
  OBVIOUS
<1>3. PICK s, F : Whole(n, s, F, <<>>)
  BY <1>1, InitHolds DEF ListHolds
<1>4. n \in ListRec /\ n.exploit = 0
  BY <1>1, <1>3 DEF Whole, InitList
<1>5. c = [n EXCEPT !.dync = d]
  BY <1>1, <1>2 DEF ClearList
<1>6. /\ c \in ListRec /\ c.dync = d
      /\ c.next = n.next /\ c.front = n.front /\ c.head = n.head /\ c.free_id = n.free_id
      /\ c.exploit = n.exploit /\ c.space = n.space /\ c.used_count = n.used_count /\ c.val = n.val
  BY <1>4, <1>5 DEF ListRec
<1>7. Spaced(c)
  BY <1>4, <1>6, NodeIds DEF Spaced
<1>8. Whole(c, s, F, <<>>)
  BY <1>3, <1>6, <1>7 DEF Whole, Shared
<1> QED BY <1>1, <1>2, <1>6, <1>8 DEF ListHolds

LEMMA InjectHolds ==
    ASSUME NEW l, NEW q, ListHolds(l, q), NEW k \in 1 .. Len(q) + 1, NEW v \in Values,
           NewBuffer \in Dync, NEW r, r = InjectAt([l |-> l, pos |-> PosOf(l, k)], v).l
    PROVE  /\ ListHolds(r, IF ListSize - Len(q) = 0 THEN q ELSE Spliced(q, k, 0, <<v>>))
           /\ Buffered(l, r)
<1>1. PICK s, F : Whole(l, s, F, q)
  BY DEF ListHolds
<1>2. PosOf(l, k) = Ring(s, k) /\ k \in 1 .. Len(s) + 1
  BY <1>1, PosIs
<1>3. q \in Seq(Values) /\ Len(q) \in Nat /\ END_ID \in Nat /\ (ListFull(l) <=> Len(q) = END_ID)
  BY HoldsFacts
<1>4. ListSize - Len(q) = 0 <=> ListFull(l)
  BY <1>3 DEF END_ID
<1>5. CASE ListFull(l)
  <2>1. r = l
    BY <1>5 DEF InjectAt
  <2> QED BY <1>4, <1>5, <2>1, BufferOnce
<1>6. CASE ~ListFull(l)
  <2>1. PICK x : x = InjectAt([l |-> l, pos |-> Ring(s, k)], v)
    OBVIOUS
  <2>2. PICK G, id : Whole(x.l, Inserted(s, k, id), G, Inserted(q, k, v)) /\ Buffered(l, x.l)
    BY <1>1, <1>2, <1>6, <2>1, InjectKeeps
  <2>3. Inserted(q, k, v) = Spliced(q, k, 0, <<v>>)
    BY <1>3, SplicedOne
  <2> QED BY <1>2, <1>4, <1>6, <2>1, <2>2, <2>3 DEF ListHolds
<1> QED BY <1>5, <1>6

\* Piling up any sequence.
LEMMA PileHolds ==
    ASSUME NEW l, NEW q, ListHolds(l, q), NEW k \in 1 .. Len(q) + 1, NEW vs \in Seq(Values),
           NewBuffer \in Dync, NEW r, r = InjectAll(l, PosOf(l, k), vs)
    PROVE  /\ ListHolds(r, Piled(q, k, vs, Least(Len(vs), END_ID - Len(q))))
           /\ Buffered(l, r)
<1>1. PICK s, F : Whole(l, s, F, q)
  BY DEF ListHolds
<1>2. PosOf(l, k) = Ring(s, k) /\ k \in 1 .. Len(s) + 1
  BY <1>1, PosIs
<1>3. PICK n : n = Least(Len(vs), END_ID - Len(q))
  OBVIOUS
<1>4. r = InjectAll(l, Ring(s, k), vs)
  BY <1>2
<1>5. (\E t, G : Whole(r, t, G, Piled(q, k, vs, n))) /\ Buffered(l, r)
  BY <1>1, <1>2, <1>3, <1>4, InjectAllKeeps
<1> QED BY <1>3, <1>5 DEF ListHolds

LEMMA LastFacts ==
    ASSUME NEW S, NEW vs \in Seq(S), NEW n \in 0 .. Len(vs)
    PROVE  /\ LastOnes(vs, n) \in Seq(S) /\ Len(LastOnes(vs, n)) = n
           /\ \A i \in 1 .. n : LastOnes(vs, n)[i] = vs[Len(vs) - n + i]
           /\ n = Len(vs) => LastOnes(vs, n) = vs
<1>1. PICK w \in Nat : w = Len(vs)
  OBVIOUS
<1>2. PICK f \in Int : f = w - n + 1
  <2>1. n \in 0 .. w
    BY <1>1
  <2>2. w - n + 1 \in Int
    BY <2>1
  <2> QED BY <2>2
<1>3. PICK t : t = SubSeq(vs, f, w)
  OBVIOUS
<1>4. LastOnes(vs, n) = t
  BY <1>1, <1>2, <1>3 DEF LastOnes
<1>5. \A i \in f .. w : vs[i] \in S
  BY <1>1, <1>2
<1>6. /\ t \in Seq(S) /\ Len(t) = IF f <= w THEN w - f + 1 ELSE 0
      /\ \A i \in 1 .. w - f + 1 : t[i] = vs[f + i - 1]
  BY <1>3, <1>5, SubSeqProperties
<1>7. w - f + 1 = n /\ (~(f <= w) => n = 0) /\ \A i \in 1 .. n : f + i - 1 = w - n + i
  BY <1>1, <1>2
<1>8. Len(t) = n /\ \A i \in 1 .. n : t[i] = vs[w - n + i]
  BY <1>6, <1>7
<1>9. ASSUME n = w PROVE t = vs
  <2>1. \A i \in 1 .. w : w - n + i = i
    BY <1>1, <1>9
  <2>2. Len(t) = Len(vs) /\ \A i \in 1 .. Len(t) : t[i] = vs[i]
    BY <1>1, <1>8, <1>9, <2>1
  <2> QED BY <1>6, <2>2, SeqEqual
<1> QED BY <1>1, <1>4, <1>6, <1>8, <1>9

LEMMA ReverseFacts ==
    ASSUME NEW S, NEW vs \in Seq(S)
    PROVE  /\ Reverse(vs) \in Seq(S) /\ Len(Reverse(vs)) = Len(vs)
           /\ \A i \in 1 .. Len(vs) : Reverse(vs)[i] = vs[Len(vs) - i + 1]
<1>1. PICK w \in Nat : w = Len(vs)
  OBVIOUS
<1>2. PICK t : t = Reverse(vs)
  OBVIOUS
<1>3. t = [i \in 1 .. w |-> vs[(w - i) + 1]]
  BY <1>1, <1>2 DEF Reverse
<1>4. \A i \in 1 .. w : (w - i) + 1 \in 1 .. w
  BY <1>1
<1>5. t \in [1 .. w -> S]
  BY <1>1, <1>3, <1>4
<1> QED BY <1>1, <1>2, <1>3, <1>5

LEMMA InsertRangeHolds ==
    ASSUME NEW l, NEW q, ListHolds(l, q), NEW k \in 1 .. Len(q) + 1, NEW vs \in Seq(Values),
           NewBuffer \in Dync, NEW r, r = InsertRange(l, PosOf(l, k), vs)
    PROVE  /\ ListHolds(r, Spliced(q, k, 0, LastOnes(vs, Least(Len(vs), ListSize - Len(q)))))
           /\ Buffered(l, r)
<1>1. PICK w \in Nat : w = Len(vs)
  OBVIOUS
<1>2. PICK rs : rs = Reverse(vs)
  OBVIOUS
<1>3. rs \in Seq(Values) /\ Len(rs) = w /\ \A i \in 1 .. w : rs[i] = vs[w - i + 1]
  BY <1>1, <1>2, ReverseFacts
<1>4. q \in Seq(Values) /\ Len(q) \in Nat /\ Len(q) <= END_ID /\ END_ID \in Nat
  BY HoldsFacts
<1>5. PICK n : n = Least(w, END_ID - Len(q))
  OBVIOUS
<1>6. n \in 0 .. w
  BY <1>1, <1>4, <1>5 DEF Least
<1>7. r = InjectAll(l, PosOf(l, k), rs)
  BY <1>2 DEF InsertRange
<1>8. ListHolds(r, Piled(q, k, rs, n)) /\ Buffered(l, r)
  BY <1>3, <1>5, <1>7, PileHolds
<1>9. PICK new : new = LastOnes(vs, n)
  OBVIOUS
<1>10. n \in 0 .. Len(vs)
  BY <1>1, <1>6
<1>11. new \in Seq(Values) /\ Len(new) = n /\ \A i \in 1 .. n : new[i] = vs[w - n + i]
  BY <1>1, <1>9, <1>10, LastFacts
<1>12. \A i \in 1 .. n : new[i] = rs[n - i + 1]
  <2>1. ASSUME NEW i \in 1 .. n PROVE new[i] = rs[n - i + 1]
    <3>1. n - i + 1 \in 1 .. w /\ w - (n - i + 1) + 1 = w - n + i
      BY <1>1, <1>6
    <3>2. rs[n - i + 1] = vs[w - (n - i + 1) + 1]
      BY <1>3, <3>1
    <3> QED BY <1>11, <3>1, <3>2
  <2> QED BY <2>1
<1>13. Spliced(q, k, 0, new) = Piled(q, k, rs, n)
  <2>1. n \in 0 .. Len(rs)
    BY <1>3, <1>6
  <2>2. q \in Seq(Values) /\ rs \in Seq(Values) /\ new \in Seq(Values) /\ Len(new) = n
    BY <1>3, <1>4, <1>11
  <2> QED BY <1>12, <2>1, <2>2, SplicedPile, SMTT(60)
<1> QED BY <1>1, <1>5, <1>8, <1>9, <1>13 DEF END_ID

LEMMA InsertCountHolds ==
    ASSUME NEW l, NEW q, ListHolds(l, q), NEW k \in 1 .. Len(q) + 1, NEW n \in Nat, NEW v \in Values,
           NewBuffer \in Dync, NEW r, r = InsertCount(l, PosOf(l, k), n, v),
           NEW vs, vs = [i \in 1 .. n |-> v],
           NEW t, t = IF ListSize - Len(q) < n THEN q ELSE Spliced(q, k, 0, vs)
    PROVE  ListHolds(r, t) /\ Buffered(l, r)
<1>1. /\ q \in Seq(Values) /\ Len(q) \in Nat /\ Len(q) <= END_ID /\ END_ID \in Nat
      /\ l.used_count = Len(q)
  BY HoldsFacts
<1>2. vs = [i \in 1 .. n |-> v]
  OBVIOUS
<1>3. vs \in Seq(Values) /\ Len(vs) = n /\ \A i \in 1 .. n : vs[i] = v
  <2>1. vs \in [1 .. n -> Values]
    BY <1>2
  <2> QED BY <1>2, <2>1
<1>4. ListSize - Len(q) < n <=> l.used_count + n > END_ID
  BY <1>1 DEF END_ID
<1>5. CASE l.used_count + n > END_ID
  <2>1. r = l
    BY <1>5 DEF InsertCount
  <2> QED BY <1>4, <1>5, <2>1, BufferOnce
<1>6. CASE ~(l.used_count + n > END_ID) /\ n = 0
  <2>1. r = l
    BY <1>6 DEF InsertCount
  <2>2. Spliced(q, k, 0, vs) = Piled(q, k, vs, 0)
    <3>1. 0 \in 0 .. Len(vs) /\ Len(vs) = 0 /\ \A i \in 1 .. 0 : vs[i] = vs[0 - i + 1]
      BY <1>3, <1>6
    <3> QED BY <1>1, <1>3, <3>1, SplicedPile
  <2>3. Piled(q, k, vs, 0) = q
    <3>1. PICK o : o = 0
      OBVIOUS
    <3>2. q \in Seq(Values) /\ vs \in Seq(Values) /\ o \in 0 .. Len(vs)
      BY <1>1, <1>3, <3>1
    <3>3. o = 0 => Piled(q, k, vs, o) = q
      BY <3>2, PiledFacts
    <3> QED BY <3>1, <3>3
  <2> QED BY <1>2, <1>4, <1>6, <2>1, <2>2, <2>3, BufferOnce
<1>7. CASE ~(l.used_count + n > END_ID) /\ n # 0
  <2>1. r = InjectAll(l, PosOf(l, k), vs)
    BY <1>2, <1>7 DEF InsertCount
  <2>2. Least(Len(vs), END_ID - Len(q)) = n
    BY <1>1, <1>3, <1>7 DEF Least
  <2>3. ListHolds(r, Piled(q, k, vs, n)) /\ Buffered(l, r)
    BY <1>3, <2>1, <2>2, PileHolds
  <2>4. Spliced(q, k, 0, vs) = Piled(q, k, vs, n)
    <3>1. n \in 0 .. Len(vs) /\ \A i \in 1 .. n : n - i + 1 \in 1 .. n
      BY <1>3
    <3>2. \A i \in 1 .. n : vs[i] = vs[n - i + 1]
      BY <1>3, <3>1
    <3> QED BY <1>1, <1>3, <3>1, <3>2, SplicedPile
  <2> QED BY <1>2, <1>4, <1>7, <2>3, <2>4
<1> QED BY <1>5, <1>6, <1>7

LEMMA SplicedAll ==
    ASSUME NEW S, NEW new \in Seq(S)
    PROVE  Spliced(<<>>, 1, 0, new) = new
<1>1. PICK q : q = <<>> /\ q \in Seq(S) /\ Len(q) = 0
  <2>1. <<>> \in Seq(S) /\ Len(<<>>) = 0
    OBVIOUS
  <2> QED BY <2>1
<1>2. PICK w \in Nat : w = Len(new)
  OBVIOUS
<1>3. PICK k, o : k = 1 /\ o = 0
  OBVIOUS
<1>4. k \in 1 .. Len(q) + 1 /\ o \in 0 .. Len(q) - k + 1
  BY <1>1, <1>3
<1>5. Spliced(q, k, o, new) = Joint(q, k, o, new)
  BY <1>1, <1>4, SplicedIs
<1>6. Joint(q, k, o, new) = [i \in 1 .. w |-> new[i]]
  <2>1. Len(q) - o + Len(new) = w
    BY <1>1, <1>2, <1>3
  <2>2. \A i \in 1 .. w : ~(i < k) /\ i < k + Len(new) /\ i - k + 1 = i
    BY <1>2, <1>3
  <2> QED BY <2>1, <2>2 DEF Joint
<1>7. new = [i \in 1 .. w |-> new[i]]
  BY <1>2
<1> QED BY <1>1, <1>3, <1>5, <1>6, <1>7

LEMMA AssignHolds ==
    ASSUME NEW l, l.dync \in Nat, NEW vs \in Seq(Values), NewBuffer \in Dync,
           NEW r, r = AssignList(l, vs)
    PROVE  ListHolds(r, LastOnes(vs, Least(Len(vs), ListSize))) /\ Buffered(l, r)
<1>1. PICK c : c = ClearList(l)
  OBVIOUS
<1>2. PICK q : q = <<>>
  OBVIOUS
<1>3. ListHolds(c, q) /\ c.dync = l.dync
  BY <1>1, <1>2, ClearHolds
<1>4. PICK k : k = 1
  OBVIOUS
<1>5. Len(q) = 0 /\ k \in 1 .. Len(q) + 1
  BY <1>2, <1>4
<1>6. PosOf(c, k) = END_ID
  <2>1. PICK s, F : Whole(c, s, F, q)
    BY <1>3 DEF ListHolds
  <2>2. Len(s) = 0
    BY <1>5, <2>1, RoomIs
  <2>3. PosOf(c, k) = Ring(s, k)
    BY <1>5, <2>1, PosIs
  <2> QED BY <1>4, <2>2, <2>3 DEF Ring
<1>7. r = InsertRange(c, PosOf(c, k), vs)
  BY <1>1, <1>6 DEF AssignList
<1>8. /\ ListHolds(r, Spliced(q, k, 0, LastOnes(vs, Least(Len(vs), ListSize - Len(q)))))
      /\ Buffered(c, r)
  BY <1>3, <1>5, <1>7, InsertRangeHolds
<1>9. PICK n : n = Least(Len(vs), ListSize)
  OBVIOUS
<1>10. ListSize - Len(q) = ListSize
  BY <1>5, ListAssumption
<1>11. n \in 0 .. Len(vs)
  BY <1>9, ListAssumption DEF Least
<1>12. LastOnes(vs, n) \in Seq(Values)
  BY <1>11, LastFacts
<1>13. Spliced(q, k, 0, LastOnes(vs, n)) = LastOnes(vs, n)
  BY <1>2, <1>4, <1>12, SplicedAll
<1> QED BY <1>3, <1>8, <1>9, <1>10, <1>13 DEF Buffered

LEMMA FillHolds ==
    ASSUME NEW l, l.dync \in Nat, NEW v \in Values, NewBuffer \in Dync,
           NEW r, r = FillList(l, v)
    PROVE  ListHolds(r, [i \in 1 .. ListSize |-> v]) /\ Buffered(l, r)
<1>1. PICK c : c = ClearList(l)
  OBVIOUS
<1>2. PICK q : q = <<>>
  OBVIOUS
<1>3. ListHolds(c, q) /\ c.dync = l.dync
  BY <1>1, <1>2, ClearHolds
<1>4. PICK k, n : k = 1 /\ n = ListSize
  OBVIOUS
<1>5. Len(q) = 0 /\ k \in 1 .. Len(q) + 1 /\ n \in Nat /\ n = END_ID
  BY <1>2, <1>4, ListAssumption DEF END_ID
<1>6. PosOf(c, k) = END_ID
  <2>1. PICK s, F : Whole(c, s, F, q)
    BY <1>3 DEF ListHolds
  <2>2. Len(s) = 0
    BY <1>5, <2>1, RoomIs
  <2>3. PosOf(c, k) = Ring(s, k)
    BY <1>5, <2>1, PosIs
  <2> QED BY <1>4, <2>2, <2>3 DEF Ring
<1>7. r = InsertCount(c, PosOf(c, k), n, v)
  BY <1>1, <1>5, <1>6 DEF FillList
<1>8. PICK vs, t : /\ vs = [i \in 1 .. n |-> v]
                   /\ t = IF ListSize - Len(q) < n THEN q ELSE Spliced(q, k, 0, vs)
  OBVIOUS
<1>9. ListHolds(r, t) /\ Buffered(c, r)
  <2>1. ListHolds(c, q) /\ k \in 1 .. Len(q) + 1 /\ n \in Nat /\ r = InsertCount(c, PosOf(c, k), n, v)
    BY <1>3, <1>5, <1>7
  <2> QED BY <1>8, <2>1, InsertCountHolds
<1>10. ~(ListSize - Len(q) < n)
  BY <1>4, <1>5
<1>11. vs \in Seq(Values)
  BY <1>5, <1>8
<1>12. Spliced(q, k, 0, vs) = vs
  BY <1>2, <1>4, <1>11, SplicedAll
<1> QED BY <1>3, <1>4, <1>9, <1>10, <1>12, <1>8 DEF Buffered

LEMMA EraseHolds ==
    ASSUME NEW l, NEW q, ListHolds(l, q), NEW k \in 1 .. Len(q), NEW n \in 1 .. Len(q) - k + 1,
           NEW r, r = EraseRange(l, SubSeq(Walk(l.next, l.head), k, k + n - 1))
    PROVE  ListHolds(r, Spliced(q, k, n, <<>>)) /\ r.dync = l.dync
<1>1. PICK s, F : Whole(l, s, F, q)
  BY DEF ListHolds
<1>2. Walk(l.next, l.head) = s
  BY <1>1, ReadIs
<1>3. s \in Seq(Nodes) /\ Len(s) = Len(q) /\ Len(q) \in Nat /\ q \in Seq(Values)
  BY <1>1, RoomIs DEF Whole
<1>4. PICK j \in Int : j = k + n - 1
  <2>1. k + n - 1 \in Int
    BY <1>3
  <2> QED BY <2>1
<1>5. PICK ids : ids = SubSeq(s, k, j)
  OBVIOUS
<1>6. \A i \in k .. j : s[i] \in Nodes
  BY <1>3, <1>4
<1>7. /\ Len(ids) = IF k <= j THEN j - k + 1 ELSE 0
      /\ \A i \in 1 .. j - k + 1 : ids[i] = s[k + i - 1]
  BY <1>5, <1>6, SubSeqProperties
<1>8. k <= j /\ j - k + 1 = n /\ n \in 0 .. Len(s) - k + 1 /\ n \in 0 .. Len(q) - k + 1
      /\ k \in 1 .. Len(s)
  BY <1>3, <1>4
<1>9. Len(ids) = n /\ \A i \in 1 .. n : ids[i] = s[k + i - 1]
  BY <1>7, <1>8
<1>10. r = EraseRange(l, ids)
  BY <1>2, <1>4, <1>5
<1>11. (\E t, G : Whole(r, t, G, Cut(q, k, n))) /\ r.dync = l.dync
  <2>1. Len(ids) \in 0 .. Len(s) - k + 1 /\ \A i \in 1 .. Len(ids) : ids[i] = s[k + i - 1]
    BY <1>8, <1>9
  <2>2. (\E t, G : Whole(r, t, G, Cut(q, k, Len(ids)))) /\ r.dync = l.dync
    BY <1>1, <1>8, <1>10, <2>1, EraseRangeKeeps
  <2> QED BY <1>9, <2>2
<1>12. Spliced(q, k, n, <<>>) = Cut(q, k, n)
  BY <1>3, <1>8, SplicedCut
<1> QED BY <1>11, <1>12 DEF ListHolds

LEMMA EndsAre ==
    ASSUME NEW l, NEW s, NEW F, NEW q, Whole(l, s, F, q)
    PROVE  /\ l.head = Ring(s, 1) /\ l.front[END_ID] = Ring(s, Len(s))
           /\ Len(s) = Len(q) /\ Len(q) \in Nat /\ q \in Seq(Values)
           /\ q = <<>> <=> Len(s) = 0
           /\ Len(s) = 0 => Release(l, l.head) = l /\ Release(l, l.front[END_ID]) = l
<1>1. Doubly(l.next, l.front, l.head, s) /\ s \in Seq(Nodes) /\ q \in Seq(Values)
  BY DEF Whole
<1>2. PICK m \in Nat : m = Len(s)
  BY <1>1
<1>3. Len(q) = m
  BY <1>2 DEF Whole
<1>4. l.head = Ring(s, 1) /\ \A i \in 1 .. m + 1 : l.front[Ring(s, i)] = Ring(s, i - 1)
  BY <1>1, <1>2 DEF Doubly
<1>5. Ring(s, m + 1) = END_ID
  <2>1. m + 1 \notin 1 .. Len(s)
    BY <1>2
  <2> QED BY <2>1 DEF Ring
<1>6. l.front[END_ID] = Ring(s, m)
  <2>1. m + 1 \in 1 .. m + 1 /\ (m + 1) - 1 = m
    BY <1>2
  <2> QED BY <1>4, <1>5, <2>1
<1>7. q = <<>> <=> m = 0
  BY <1>1, <1>3
<1>8. ASSUME m = 0 PROVE Release(l, l.head) = l /\ Release(l, l.front[END_ID]) = l
  <2>1. l.head = END_ID /\ l.front[END_ID] = END_ID
    BY <1>2, <1>4, <1>6, <1>8 DEF Ring
  <2>2. END_ID >= END_ID
    BY NodeIds
  <2> QED BY <2>1, <2>2 DEF Release
<1> QED BY <1>1, <1>2, <1>3, <1>4, <1>6, <1>7, <1>8

LEMMA FrontHolds ==
    ASSUME NEW l, NEW q, ListHolds(l, q), NEW r, r = Release(l, l.head)
    PROVE  ListHolds(r, IF q = <<>> THEN <<>> ELSE Tail(q)) /\ r.dync = l.dync
<1>1. PICK s, F : Whole(l, s, F, q)
  BY DEF ListHolds
<1>2. /\ l.head = Ring(s, 1) /\ Len(s) = Len(q) /\ Len(q) \in Nat /\ q \in Seq(Values)
      /\ q = <<>> <=> Len(s) = 0
      /\ Len(s) = 0 => Release(l, l.head) = l
  BY <1>1, EndsAre
<1>3. CASE q = <<>>
  BY <1>2, <1>3
<1>4. CASE q # <<>>
  <2>1. PICK k : k = 1
    OBVIOUS
  <2>2. k \in 1 .. Len(s) /\ l.head = s[k]
    BY <1>2, <1>4, <2>1 DEF Ring
  <2>3. (\E G : Whole(r, Dropped(s, k), G, Dropped(q, k))) /\ r.dync = l.dync
    <3>1. r = Release(l, s[k])
      BY <2>2
    <3> QED BY <1>1, <2>2, <3>1, ReleaseKeeps
  <2>4. Dropped(q, k) = Tail(q)
    <3>1. Dropped(q, k) = [i \in 1 .. Len(q) - 1 |-> q[i + 1]]
      <4>1. \A i \in 1 .. Len(q) - 1 : ~(i < k)
        BY <2>1
      <4> QED BY <4>1 DEF Dropped
    <3>2. PICK t : t = Tail(q)
      OBVIOUS
    <3>3. t \in Seq(Values) /\ Len(t) = Len(q) - 1 /\ \A i \in 1 .. Len(t) : t[i] = q[i + 1]
      BY <1>2, <1>4, <3>2, HeadTailProperties
    <3>4. t = [i \in 1 .. Len(t) |-> t[i]]
      BY <3>3
    <3> QED BY <3>1, <3>2, <3>3, <3>4
  <2> QED BY <1>4, <2>3, <2>4 DEF ListHolds
<1> QED BY <1>3, <1>4

LEMMA BackHolds ==
    ASSUME NEW l, NEW q, ListHolds(l, q), NEW r, r = Release(l, l.front[END_ID])
    PROVE  ListHolds(r, SubSeq(q, 1, Len(q) - 1)) /\ r.dync = l.dync
<1>1. PICK s, F : Whole(l, s, F, q)
  BY DEF ListHolds
<1>2. /\ l.front[END_ID] = Ring(s, Len(s)) /\ Len(s) = Len(q) /\ Len(q) \in Nat /\ q \in Seq(Values)
      /\ q = <<>> <=> Len(s) = 0
      /\ Len(s) = 0 => Release(l, l.front[END_ID]) = l
  BY <1>1, EndsAre
<1>3. PICK m \in Nat : m = Len(q)
  BY <1>2
<1>4. PICK k \in Int : k = m - 1
  <2>1. m - 1 \in Int
    BY <1>3
  <2> QED BY <2>1
<1>5. PICK t : t = SubSeq(q, 1, k)
  OBVIOUS
<1>6. \A i \in 1 .. k : q[i] \in Values
  BY <1>2, <1>3, <1>4
<1>7. /\ t \in Seq(Values) /\ Len(t) = IF 1 <= k THEN k - 1 + 1 ELSE 0
      /\ \A i \in 1 .. k - 1 + 1 : t[i] = q[1 + i - 1]
  BY <1>5, <1>6, SubSeqProperties
<1>8. CASE q = <<>>
  <2>1. ~(1 <= k)
    BY <1>2, <1>3, <1>4, <1>8
  <2>2. t = <<>>
    BY <1>7, <2>1
  <2> QED BY <1>2, <1>3, <1>4, <1>5, <1>8, <2>2
<1>9. CASE q # <<>>
  <2>1. m \in 1 .. Len(s) /\ l.front[END_ID] = s[m]
    BY <1>2, <1>3, <1>9 DEF Ring
  <2>2. (\E G : Whole(r, Dropped(s, m), G, Dropped(q, m))) /\ r.dync = l.dync
    <3>1. r = Release(l, s[m])
      BY <2>1
    <3> QED BY <1>1, <2>1, <3>1, ReleaseKeeps
  <2>3. Len(t) = k /\ k \in Nat /\ \A i \in 1 .. k : t[i] = q[i]
    <3>1. k \in Nat /\ k - 1 + 1 = k /\ (~(1 <= k) => k = 0) /\ \A i \in 1 .. k : 1 + i - 1 = i
      BY <1>4, <2>1
    <3> QED BY <1>7, <3>1
  <2>4. Dropped(q, m) = [i \in 1 .. k |-> q[i]]
    <3>1. Len(q) - 1 = k /\ \A i \in 1 .. k : i < m
      BY <1>3, <1>4
    <3> QED BY <3>1 DEF Dropped
  <2>5. t = [i \in 1 .. k |-> q[i]]
    BY <1>7, <2>3
  <2> QED BY <1>3, <1>4, <1>5, <2>2, <2>4, <2>5 DEF ListHolds
<1> QED BY <1>8, <1>9

LEMMA PlatHolds ==
    ASSUME NEW l, NEW q, ListHolds(l, q), NewBuffer \in Dync, NEW r, r = PlatCopy(l)
    PROVE  ListHolds(r, q) /\ (r.dync = 0 \/ r.dync = NewBuffer)
<1>1. PICK s, F : Whole(l, s, F, q)
  BY DEF ListHolds
<1>2. PICK b : b = NewBuffer
  OBVIOUS
<1>3. b \in Nat /\ b # 0
  <2>1. Cardinality(Lists) \in Nat
    BY ListAssumption, FS_CardinalityType
  <2> QED BY <1>2, <2>1 DEF Dync
<1>4. PICK more \in BOOLEAN : more = (l.dync # 0 /\ l.exploit > ListFixed)
  OBVIOUS
<1>5. PICK d \in Nat : d = IF more THEN b ELSE 0
  BY <1>3
<1>6. PICK sp : sp = [i \in Nodes |-> IF i >= ListFixed /\ more /\ i < l.exploit THEN d ELSE l.space[i]]
  OBVIOUS
<1>7. r = [l EXCEPT !.dync = d, !.space = sp]
  BY <1>2, <1>4, <1>5, <1>6 DEF PlatCopy
<1>8. l \in ListRec /\ Spaced(l)
  BY <1>1 DEF Whole
<1>9. sp \in [Nodes -> Int]
  <2>1. l.space \in [Nodes -> Int]
    BY <1>8 DEF ListRec
  <2> QED BY <1>5, <1>6, <2>1
<1>10. /\ r \in ListRec /\ r.dync = d /\ r.space = sp
       /\ r.next = l.next /\ r.front = l.front /\ r.head = l.head /\ r.free_id = l.free_id
       /\ r.exploit = l.exploit /\ r.used_count = l.used_count /\ r.val = l.val
  BY <1>7, <1>8, <1>9 DEF ListRec
<1>11. Spaced(r)
  <2>1. l.exploit \in Nat /\ ListFixed \in Nat
    BY <1>8, RecFacts, NodeIds
  <2>2. l.exploit > ListFixed => more
    BY <1>4, <1>8 DEF Spaced
  <2>3. l.exploit > ListFixed => r.dync # 0
    BY <1>3, <1>5, <1>10, <2>2
  <2>4. ASSUME NEW i \in Nodes, i < l.exploit
        PROVE  sp[i] = IF i < ListFixed THEN Fixed ELSE d
    <3>1. i \in Nat
      BY NodeIds
    <3>2. CASE i < ListFixed
      <4>1. ~(i >= ListFixed)
        BY <2>1, <3>1, <3>2
      <4> QED BY <1>6, <1>8, <2>4, <3>2, <4>1 DEF Spaced
    <3>3. CASE ~(i < ListFixed)
      <4>1. i >= ListFixed /\ l.exploit > ListFixed
        BY <2>1, <2>4, <3>1, <3>3
      <4> QED BY <1>6, <2>2, <2>4, <3>3, <4>1
    <3> QED BY <3>2, <3>3
  <2> QED BY <1>10, <2>3, <2>4 DEF Spaced
<1>12. Whole(r, s, F, q)
  BY <1>1, <1>10, <1>11 DEF Whole, Shared
<1> QED BY <1>2, <1>5, <1>10, <1>12 DEF ListHolds

LEMMA LastIsAll ==
    ASSUME NEW l, NEW q, ListHolds(l, q)
    PROVE  LastOnes(q, Least(Len(q), ListSize)) = q /\ q \in Seq(Values) /\ Elements(l) = q
<1>1. q \in Seq(Values) /\ Len(q) \in Nat /\ Len(q) <= ListSize /\ ListSize \in Nat /\ Elements(l) = q
  BY HoldsFacts DEF END_ID
<1>2. PICK n : n = Least(Len(q), ListSize)
  OBVIOUS
<1>3. n = Len(q)
  BY <1>1, <1>2 DEF Least
<1>4. n \in 0 .. Len(q)
  BY <1>1, <1>3
<1>5. LastOnes(q, n) = q
  BY <1>1, <1>3, <1>4, LastFacts
<1> QED BY <1>1, <1>2, <1>5

-----------------------------------------------------------------------------
(* The steps of several lists *)

\* No two lists own one buffer.
Apart == \A o, p \in Lists : o # p /\ list[o].dync # 0 => list[p].dync # list[o].dync

\* What holds between any two calls.
ListInv ==
    /\ list = [o \in Lists |-> list[o]] /\ lseq = [o \in Lists |-> lseq[o]]
    /\ \A o \in Lists : ListHolds(list[o], lseq[o])
    /\ Apart
    /\ lost => trivial

\* There is one buffer more than lists.
LEMMA BufferFree ==
    NewBuffer \in Dync /\ \A o \in Lists : list[o].dync # NewBuffer
<1>1. IsFiniteSet(Lists) /\ Cardinality(Lists) \in Nat
  BY ListAssumption, FS_CardinalityType
<1> DEFINE T == {list[o].dync : o \in Lists}
           f == [o \in Lists |-> list[o].dync]
<1>2. f \in Surjection(Lists, T)
  BY DEF Surjection
<1>3. IsFiniteSet(T) /\ Cardinality(T) <= Cardinality(Lists)
  BY <1>1, <1>2, FS_Surjection
<1>4. Cardinality(T) \in Nat
  BY <1>3, FS_CardinalityType
<1>5. Cardinality(Dync) = Cardinality(Lists) + 1
  <2>1. Cardinality(1 .. Cardinality(Lists) + 1) = IF 1 > Cardinality(Lists) + 1 THEN 0
                                                  ELSE (Cardinality(Lists) + 1) - 1 + 1
    BY <1>1, FS_Interval
  <2> QED BY <1>1, <2>1 DEF Dync
<1>6. \E b \in Dync : b \notin T
  <2>1. ASSUME Dync \subseteq T PROVE FALSE
    <3> HIDE DEF T
    <3>1. Cardinality(Dync) <= Cardinality(T)
      BY <1>3, <2>1, FS_Subset
    <3> QED BY <1>1, <1>3, <1>4, <1>5, <3>1
  <2> QED BY <2>1
<1>7. \E b \in Dync : \A o \in Lists : list[o].dync # b
  BY <1>6
<1> QED BY <1>7 DEF NewBuffer

LEMMA ChangeKeeps ==
    ASSUME ListInv, NEW o \in Lists, NEW l, NEW q, ListHolds(l, q), Change(o, l, q),
           l.dync = 0 \/ l.dync = list[o].dync \/ l.dync = NewBuffer
    PROVE  ListInv'
<1>1. /\ list = [a \in Lists |-> list[a]] /\ lseq = [a \in Lists |-> lseq[a]]
      /\ \A a \in Lists : ListHolds(list[a], lseq[a])
      /\ Apart /\ (lost => trivial)
  BY DEF ListInv
<1>2. /\ list' = [list EXCEPT ![o] = l] /\ lseq' = [lseq EXCEPT ![o] = q]
      /\ lost' = lost /\ trivial' = trivial
  BY DEF Change
<1>3. list' = [a \in Lists |-> list'[a]] /\ lseq' = [a \in Lists |-> lseq'[a]]
  BY <1>1, <1>2
<1>4. /\ list'[o] = l /\ lseq'[o] = q
      /\ \A a \in Lists : a # o => list'[a] = list[a] /\ lseq'[a] = lseq[a]
  BY <1>1, <1>2
<1>5. \A a \in Lists : ListHolds(list'[a], lseq'[a])
  BY <1>1, <1>4
<1>6. \A a, b \in Lists : a # b /\ list'[a].dync # 0 => list'[b].dync # list'[a].dync
  BY <1>1, <1>4, BufferFree DEF Apart
<1> QED BY <1>1, <1>2, <1>3, <1>5, <1>6 DEF ListInv, Apart

\* ListHolds speaks of one list, whatever the others are.
LEMMA CurrentFacts ==
    ASSUME ListInv, NEW o \in Lists
    PROVE  \E l, q : /\ l = list[o] /\ q = lseq[o] /\ ListHolds(l, q) /\ l.dync \in Nat
                     /\ q \in Seq(Values) /\ Len(q) \in Nat
<1>1. PICK l, q : l = list[o] /\ q = lseq[o]
  OBVIOUS
<1>2. ListHolds(l, q)
  BY <1>1 DEF ListInv
<1>3. l.dync \in Nat /\ q \in Seq(Values) /\ Len(q) \in Nat
  BY <1>2, HoldsFacts
<1> QED BY <1>1, <1>2, <1>3

LEMMA InsertSteps ==
    ASSUME ListInv, NEW o \in Lists, NEW k \in 1 .. Len(lseq[o]) + 1, NEW v \in Values, NEW w \in Values,
           NEW n \in {0, 2},
           ListInsert(o, k, v) \/ ListInsertCount(o, k, n, v) \/ ListInsertRange(o, k, <<v, w>>)
    PROVE  ListInv'
<1>1. PICK l, q : /\ l = list[o] /\ q = lseq[o] /\ ListHolds(l, q) /\ l.dync \in Nat
                  /\ q \in Seq(Values) /\ Len(q) \in Nat
  BY CurrentFacts
<1>2. k \in 1 .. Len(q) + 1 /\ NewBuffer \in Dync /\ Space(o) = ListSize - Len(q)
  BY <1>1, BufferFree DEF Space
<1>3. PICK pos : pos = PosOf(l, k)
  OBVIOUS
<1>4. pos = IF k > Len(Ids(o)) THEN END_ID ELSE Ids(o)[k]
  BY <1>1, <1>3 DEF PosOf, Ids
<1>5. CASE ListInsert(o, k, v)
  <2>1. PICK r : r = InjectAt([l |-> l, pos |-> pos], v).l
    OBVIOUS
  <2>2. PICK t : t = IF ListSize - Len(q) = 0 THEN q ELSE Spliced(q, k, 0, <<v>>)
    OBVIOUS
  <2>3. Change(o, r, t)
    BY <1>1, <1>2, <1>4, <1>5, <2>1, <2>2 DEF ListInsert
  <2>4. ListHolds(r, t) /\ Buffered(l, r)
    BY <1>1, <1>2, <1>3, <2>1, <2>2, InjectHolds
  <2> QED BY <1>1, <2>3, <2>4, ChangeKeeps DEF Buffered
<1>6. CASE ListInsertCount(o, k, n, v)
  <2>1. PICK r : r = InsertCount(l, pos, n, v)
    OBVIOUS
  <2>2. PICK vs, t : /\ vs = [i \in 1 .. n |-> v]
                     /\ t = IF ListSize - Len(q) < n THEN q ELSE Spliced(q, k, 0, vs)
    OBVIOUS
  <2>3. Change(o, r, t)
    BY <1>1, <1>2, <1>4, <1>6, <2>1, <2>2 DEF ListInsertCount
  <2>4. ListHolds(r, t) /\ Buffered(l, r)
    <3>1. n \in Nat
      OBVIOUS
    <3>2. ListHolds(l, q) /\ k \in 1 .. Len(q) + 1 /\ NewBuffer \in Dync /\ r = InsertCount(l, PosOf(l, k), n, v)
      BY <1>1, <1>2, <1>3, <2>1
    <3> QED BY <2>2, <3>1, <3>2, InsertCountHolds
  <2> QED BY <1>1, <2>3, <2>4, ChangeKeeps DEF Buffered
<1>7. CASE ListInsertRange(o, k, <<v, w>>)
  <2>1. PICK vs : vs = <<v, w>>
    OBVIOUS
  <2>2. vs \in Seq(Values)
    BY <2>1
  <2>3. PICK r : r = InsertRange(l, pos, vs)
    OBVIOUS
  <2>4. PICK t : t = Spliced(q, k, 0, LastOnes(vs, Least(Len(vs), ListSize - Len(q))))
    OBVIOUS
  <2>5. Change(o, r, t)
    BY <1>1, <1>2, <1>4, <1>7, <2>1, <2>3, <2>4 DEF ListInsertRange
  <2>6. ListHolds(r, t) /\ Buffered(l, r)
    BY <1>1, <1>2, <1>3, <2>2, <2>3, <2>4, InsertRangeHolds
  <2> QED BY <1>1, <2>5, <2>6, ChangeKeeps DEF Buffered
<1> QED BY <1>5, <1>6, <1>7

LEMMA RemoveSteps ==
    ASSUME ListInv, NEW o \in Lists,
           \/ ListPopFront(o) \/ ListPopBack(o) \/ ListClear(o)
           \/ \E k \in 1 .. Len(lseq[o]) : \E n \in 1 .. Len(lseq[o]) - k + 1 : ListErase(o, k, n)
    PROVE  ListInv'
<1>1. PICK l, q : /\ l = list[o] /\ q = lseq[o] /\ ListHolds(l, q) /\ l.dync \in Nat
                  /\ q \in Seq(Values) /\ Len(q) \in Nat
  BY CurrentFacts
<1>2. CASE ListPopFront(o)
  <2>1. PICK r, t : r = Release(l, l.head) /\ t = IF q = <<>> THEN <<>> ELSE Tail(q)
    OBVIOUS
  <2>2. Change(o, r, t)
    BY <1>1, <1>2, <2>1 DEF ListPopFront
  <2>3. ListHolds(r, t) /\ r.dync = l.dync
    BY <1>1, <2>1, FrontHolds
  <2> QED BY <1>1, <2>2, <2>3, ChangeKeeps
<1>3. CASE ListPopBack(o)
  <2>1. PICK r, t : r = Release(l, l.front[END_ID]) /\ t = SubSeq(q, 1, Len(q) - 1)
    OBVIOUS
  <2>2. Change(o, r, t)
    BY <1>1, <1>3, <2>1 DEF ListPopBack
  <2>3. ListHolds(r, t) /\ r.dync = l.dync
    BY <1>1, <2>1, BackHolds
  <2> QED BY <1>1, <2>2, <2>3, ChangeKeeps
<1>4. CASE ListClear(o)
  <2>1. PICK r, t : r = ClearList(l) /\ t = <<>>
    OBVIOUS
  <2>2. Change(o, r, t)
    BY <1>1, <1>4, <2>1 DEF ListClear
  <2>3. ListHolds(r, t) /\ r.dync = l.dync
    BY <1>1, <2>1, ClearHolds
  <2> QED BY <1>1, <2>2, <2>3, ChangeKeeps
<1>5. ASSUME NEW k \in 1 .. Len(lseq[o]), NEW n \in 1 .. Len(lseq[o]) - k + 1, ListErase(o, k, n)
      PROVE  ListInv'
  <2>1. PICK r, t : /\ r = EraseRange(l, SubSeq(Walk(l.next, l.head), k, k + n - 1))
                    /\ t = Spliced(q, k, n, <<>>)
    OBVIOUS
  <2>2. Change(o, r, t)
    BY <1>1, <1>5, <2>1 DEF ListErase, Ids
  <2>3. ListHolds(r, t) /\ r.dync = l.dync
    <3>1. k \in 1 .. Len(q) /\ n \in 1 .. Len(q) - k + 1
      BY <1>1
    <3> QED BY <1>1, <2>1, <3>1, EraseHolds
  <2> QED BY <1>1, <2>2, <2>3, ChangeKeeps
<1> QED BY <1>2, <1>3, <1>4, <1>5

LEMMA AssignSteps ==
    ASSUME ListInv, NEW o \in Lists, NEW v \in Values, NEW w \in Values,
           ListFill(o, v) \/ ListAssign(o, <<v, w, v, w>>)
    PROVE  ListInv'
<1>1. PICK l, q : /\ l = list[o] /\ q = lseq[o] /\ ListHolds(l, q) /\ l.dync \in Nat
                  /\ q \in Seq(Values) /\ Len(q) \in Nat
  BY CurrentFacts
<1>2. NewBuffer \in Dync
  BY BufferFree
<1>3. CASE ListFill(o, v)
  <2>1. PICK r, t : r = FillList(l, v) /\ t = [i \in 1 .. ListSize |-> v]
    OBVIOUS
  <2>2. Change(o, r, t)
    BY <1>1, <1>3, <2>1 DEF ListFill
  <2>3. ListHolds(r, t) /\ Buffered(l, r)
    BY <1>1, <1>2, <2>1, FillHolds
  <2> QED BY <1>1, <2>2, <2>3, ChangeKeeps DEF Buffered
<1>4. CASE ListAssign(o, <<v, w, v, w>>)
  <2>1. PICK vs : vs = <<v, w, v, w>>
    OBVIOUS
  <2>2. vs \in Seq(Values)
    BY <2>1
  <2>3. PICK r, t : r = AssignList(l, vs) /\ t = LastOnes(vs, Least(Len(vs), ListSize))
    OBVIOUS
  <2>4. Change(o, r, t)
    BY <1>1, <1>4, <2>1, <2>3 DEF ListAssign
  <2>5. ListHolds(r, t) /\ Buffered(l, r)
    BY <1>1, <1>2, <2>2, <2>3, AssignHolds
  <2> QED BY <1>1, <2>4, <2>5, ChangeKeeps DEF Buffered
<1> QED BY <1>3, <1>4

\* Assigning the elements of another list gives what that one holds.
LEMMA ElementsHold ==
    ASSUME ListInv, NEW p \in Lists, NEW l, l.dync \in Nat, NEW r, r = AssignList(l, Elements(list[p]))
    PROVE  ListHolds(r, lseq[p]) /\ Buffered(l, r)
<1>1. PICK m, q : /\ m = list[p] /\ q = lseq[p] /\ ListHolds(m, q) /\ m.dync \in Nat
                  /\ q \in Seq(Values) /\ Len(q) \in Nat
  BY CurrentFacts
<1>2. LastOnes(q, Least(Len(q), ListSize)) = q /\ Elements(m) = q
  BY <1>1, LastIsAll
<1>3. r = AssignList(l, q)
  BY <1>1, <1>2
<1>4. ListHolds(r, LastOnes(q, Least(Len(q), ListSize))) /\ Buffered(l, r)
  BY <1>1, <1>3, BufferFree, AssignHolds
<1> QED BY <1>1, <1>2, <1>4

LEMMA CopyStep ==
    ASSUME ListInv, NEW o \in Lists, NEW p \in Lists, ListCopy(o, p)
    PROVE  ListInv'
<1>1. PICK l, q : /\ l = list[o] /\ q = lseq[o] /\ ListHolds(l, q) /\ l.dync \in Nat
                  /\ q \in Seq(Values) /\ Len(q) \in Nat
  BY CurrentFacts
<1>2. PICK m, t : /\ m = list[p] /\ t = lseq[p] /\ ListHolds(m, t) /\ m.dync \in Nat
                  /\ t \in Seq(Values) /\ Len(t) \in Nat
  BY CurrentFacts
<1>3. PICK r : r = IF Flat(m) THEN PlatCopy(m) ELSE AssignList(l, Elements(m))
  OBVIOUS
<1>4. ListHolds(r, t) /\ (r.dync = 0 \/ r.dync = l.dync \/ r.dync = NewBuffer)
  <2>1. CASE Flat(m)
    <3>1. r = PlatCopy(m)
      BY <1>3, <2>1
    <3> QED BY <1>2, <3>1, BufferFree, PlatHolds
  <2>2. CASE ~Flat(m)
    <3>1. r = AssignList(l, Elements(list[p]))
      BY <1>2, <1>3, <2>2
    <3> QED BY <1>1, <1>2, <3>1, ElementsHold DEF Buffered
  <2> QED BY <2>1, <2>2
<1>5. /\ list' = [list EXCEPT ![o] = r] /\ lseq' = [lseq EXCEPT ![o] = t]
      /\ trivial' = trivial /\ (lost' => lost \/ trivial)
  BY <1>1, <1>2, <1>3 DEF ListCopy, Flat
<1>6. /\ list = [a \in Lists |-> list[a]] /\ lseq = [a \in Lists |-> lseq[a]]
      /\ \A a \in Lists : ListHolds(list[a], lseq[a])
      /\ Apart /\ (lost => trivial)
  BY DEF ListInv
<1>7. list' = [a \in Lists |-> list'[a]] /\ lseq' = [a \in Lists |-> lseq'[a]]
  BY <1>5, <1>6
<1>8. /\ list'[o] = r /\ lseq'[o] = t
      /\ \A a \in Lists : a # o => list'[a] = list[a] /\ lseq'[a] = lseq[a]
  BY <1>5, <1>6
<1>9. \A a \in Lists : ListHolds(list'[a], lseq'[a])
  BY <1>4, <1>6, <1>8
<1>10. \A a, b \in Lists : a # b /\ list'[a].dync # 0 => list'[b].dync # list'[a].dync
  BY <1>1, <1>4, <1>6, <1>8, BufferFree DEF Apart
<1> QED BY <1>5, <1>6, <1>7, <1>9, <1>10 DEF ListInv, Apart

LEMMA MoveStep ==
    ASSUME ListInv, NEW o \in Lists, NEW p \in Lists, ListMove(o, p)
    PROVE  ListInv'
<1>1. PICK l, q : /\ l = list[o] /\ q = lseq[o] /\ ListHolds(l, q) /\ l.dync \in Nat
                  /\ q \in Seq(Values) /\ Len(q) \in Nat
  BY CurrentFacts
<1>2. PICK m, t : /\ m = list[p] /\ t = lseq[p] /\ ListHolds(m, t) /\ m.dync \in Nat
                  /\ t \in Seq(Values) /\ Len(t) \in Nat
  BY CurrentFacts
<1>3. PICK n, e : n = InitList /\ e = <<>>
  OBVIOUS
<1>4. ListHolds(n, e) /\ n.dync = 0
  BY <1>3, InitHolds
<1>5. o # p /\ trivial' = trivial /\ (lost' => lost \/ trivial)
  BY DEF ListMove, Flat
<1>6. /\ list = [a \in Lists |-> list[a]] /\ lseq = [a \in Lists |-> lseq[a]]
      /\ \A a \in Lists : ListHolds(list[a], lseq[a])
      /\ Apart /\ (lost => trivial)
  BY DEF ListInv
<1>7. CASE Flat(m)
  <2>1. list' = [list EXCEPT ![o] = m, ![p] = n] /\ lseq' = [lseq EXCEPT ![o] = t, ![p] = e]
    BY <1>2, <1>3, <1>7 DEF ListMove, PlatMove, MovedList
  <2>2. list' = [a \in Lists |-> list'[a]] /\ lseq' = [a \in Lists |-> lseq'[a]]
    BY <1>6, <2>1
  <2>3. /\ list'[o] = m /\ lseq'[o] = t /\ list'[p] = n /\ lseq'[p] = e
        /\ \A a \in Lists : a # o /\ a # p => list'[a] = list[a] /\ lseq'[a] = lseq[a]
    BY <1>5, <1>6, <2>1
  <2>4. \A a \in Lists : ListHolds(list'[a], lseq'[a])
    BY <1>2, <1>4, <1>6, <2>3
  <2>5. \A a, b \in Lists : a # b /\ list'[a].dync # 0 => list'[b].dync # list'[a].dync
    BY <1>2, <1>4, <1>6, <2>3 DEF Apart
  <2> QED BY <1>5, <1>6, <2>2, <2>4, <2>5 DEF ListInv, Apart
<1>8. CASE ~Flat(m)
  <2>1. PICK r : r = AssignList(l, Elements(list[p]))
    OBVIOUS
  <2>2. list' = [list EXCEPT ![o] = r] /\ lseq' = [lseq EXCEPT ![o] = t, ![p] = @]
    BY <1>1, <1>2, <1>8, <2>1 DEF ListMove
  <2>3. ListHolds(r, t) /\ Buffered(l, r)
    BY <1>1, <1>2, <2>1, ElementsHold
  <2>4. list' = [a \in Lists |-> list'[a]] /\ lseq' = [a \in Lists |-> lseq'[a]]
    BY <1>6, <2>2
  <2>5. /\ list'[o] = r /\ lseq'[o] = t
        /\ \A a \in Lists : a # o => list'[a] = list[a] /\ lseq'[a] = lseq[a]
    BY <1>5, <1>6, <2>2
  <2>6. \A a \in Lists : ListHolds(list'[a], lseq'[a])
    BY <1>6, <2>3, <2>5
  <2>7. \A a, b \in Lists : a # b /\ list'[a].dync # 0 => list'[b].dync # list'[a].dync
    BY <1>1, <1>6, <2>3, <2>5, BufferFree DEF Apart, Buffered
  <2> QED BY <1>5, <1>6, <2>4, <2>6, <2>7 DEF ListInv, Apart
<1> QED BY <1>7, <1>8

LEMMA RebuildStep ==
    ASSUME ListInv, NEW o \in Lists, NEW p \in Lists, ListRebuild(o, p)
    PROVE  ListInv'
<1>1. PICK n, e : n = InitList /\ e = <<>>
  OBVIOUS
<1>2. ListHolds(n, e) /\ n.dync = 0 /\ 0 \in Nat
  BY <1>1, InitHolds
<1>3. CASE Change(o, InitList, <<>>)
  <2>1. Change(o, n, e)
    BY <1>1, <1>3
  <2> QED BY <1>2, <2>1, ChangeKeeps
<1>4. CASE Change(o, AssignList(InitList, Elements(list[p])), lseq[p])
  <2>1. PICK r, t : r = AssignList(n, Elements(list[p])) /\ t = lseq[p]
    OBVIOUS
  <2>2. Change(o, r, t)
    BY <1>1, <1>4, <2>1
  <2>3. ListHolds(r, lseq[p]) /\ Buffered(n, r)
    BY <1>2, <2>1, ElementsHold
  <2>4. ListHolds(r, t) /\ (r.dync = 0 \/ r.dync = NewBuffer)
    BY <1>2, <2>1, <2>3 DEF Buffered
  <2> QED BY <2>2, <2>4, ChangeKeeps
<1> QED BY <1>3, <1>4 DEF ListRebuild

LEMMA ListStays ==
    ASSUME ListInv, [ListNext]_lvars
    PROVE  ListInv'
<1>1. CASE UNCHANGED lvars
  BY <1>1 DEF lvars, ListInv, Apart
<1>2. ASSUME NEW o \in Lists, NEW k \in 1 .. Len(lseq[o]) + 1, NEW v \in Values,
             \/ ListInsert(o, k, v)
             \/ \E n \in {0, 2} : ListInsertCount(o, k, n, v)
             \/ \E w \in Values : ListInsertRange(o, k, <<v, w>>)
      PROVE  ListInv'
  <2>1. CASE ListInsert(o, k, v)
    <3>1. 0 \in {0, 2}
      OBVIOUS
    <3> QED BY <2>1, <3>1, InsertSteps
  <2>2. ASSUME NEW n \in {0, 2}, ListInsertCount(o, k, n, v) PROVE ListInv'
    BY <2>2, InsertSteps
  <2>3. ASSUME NEW w \in Values, ListInsertRange(o, k, <<v, w>>) PROVE ListInv'
    <3>1. 0 \in {0, 2}
      OBVIOUS
    <3> QED BY <2>3, <3>1, InsertSteps
  <2> QED BY <1>2, <2>1, <2>2, <2>3
<1>3. ASSUME NEW o \in Lists,
             \/ ListPopFront(o) \/ ListPopBack(o) \/ ListClear(o)
             \/ \E k \in 1 .. Len(lseq[o]) : \E n \in 1 .. Len(lseq[o]) - k + 1 : ListErase(o, k, n)
      PROVE  ListInv'
  BY <1>3, RemoveSteps
<1>4. ASSUME NEW o \in Lists, NEW v \in Values, NEW w \in Values,
             ListFill(o, v) \/ ListAssign(o, <<v, w, v, w>>)
      PROVE  ListInv'
  BY <1>4, AssignSteps
<1>5. ASSUME NEW o \in Lists, NEW p \in Lists, ListCopy(o, p) \/ ListMove(o, p) \/ ListRebuild(o, p)
      PROVE  ListInv'
  BY <1>5, CopyStep, MoveStep, RebuildStep
<1> QED BY <1>1, <1>2, <1>3, <1>4, <1>5 DEF ListNext

-----------------------------------------------------------------------------
(* What the properties say of one list *)

\* What a sequence consists of.
LEMMA SeqParts ==
    ASSUME NEW S, NEW s \in Seq(S)
    PROVE  Len(s) \in Nat /\ DOMAIN s = 1 .. Len(s) /\ \A i \in 1 .. Len(s) : s[i] \in S
OBVIOUS

LEMMA ReadsBack ==
    ASSUME NEW l, NEW q, ListHolds(l, q), NEW back, back = Walk(l.front, l.front[END_ID])
    PROVE  Reverse([k \in DOMAIN back |-> l.val[back[k]]]) = q
<1>1. PICK s, F : Whole(l, s, F, q)
  BY DEF ListHolds
<1>2. back = Reverse(s)
  BY <1>1, ReadIs
<1>3. s \in Seq(Nodes) /\ q \in Seq(Values) /\ \A i \in 1 .. Len(s) : l.val[s[i]] = q[i]
  BY <1>1 DEF Whole
<1>4. PICK m \in Nat : m = Len(s) /\ m = Len(q)
  BY <1>1, RoomIs
<1>5. back \in Seq(Nodes) /\ Len(back) = m /\ \A i \in 1 .. m : back[i] = s[m - i + 1]
  <2>1. s \in Seq(Nodes)
    BY <1>3
  <2>2. /\ Reverse(s) \in Seq(Nodes) /\ Len(Reverse(s)) = Len(s)
        /\ \A i \in 1 .. Len(s) : Reverse(s)[i] = s[Len(s) - i + 1]
    BY <2>1, ReverseFacts
  <2>3. m = Len(s)
    BY <1>4
  <2> QED BY <1>2, <2>2, <2>3
<1>6. PICK vals : vals = [k \in DOMAIN back |-> l.val[back[k]]]
  OBVIOUS
<1>7. vals = [k \in 1 .. m |-> l.val[back[k]]]
  BY <1>5, <1>6
<1>8. \A i \in 1 .. m : m - i + 1 \in 1 .. m
  BY <1>4
<1>9. \A i \in 1 .. m : vals[i] = q[m - i + 1]
  BY <1>3, <1>4, <1>5, <1>7, <1>8
<1>10. vals \in Seq(Values) /\ Len(vals) = m
  <2>1. \A i \in 1 .. m : vals[i] \in Values
    BY <1>3, <1>4, <1>8, <1>9
  <2>2. vals \in [1 .. m -> Values]
    BY <1>7, <2>1
  <2> QED BY <1>4, <1>7, <2>2
<1>11. PICK r : r = Reverse(vals)
  OBVIOUS
<1>12. r \in Seq(Values) /\ Len(r) = m /\ \A i \in 1 .. m : r[i] = vals[m - i + 1]
  BY <1>10, <1>11, ReverseFacts
<1>13. ASSUME NEW i \in 1 .. m PROVE r[i] = q[i]
  <2>1. m - i + 1 \in 1 .. m /\ m - (m - i + 1) + 1 = i
    BY <1>4
  <2>2. vals[m - i + 1] = q[m - (m - i + 1) + 1]
    BY <1>9, <2>1
  <2> QED BY <1>12, <2>1, <2>2
<1>14. r = q
  <2>1. Len(r) = Len(q) /\ \A i \in 1 .. Len(r) : r[i] = q[i]
    BY <1>4, <1>12, <1>13
  <2> QED BY <1>3, <1>12, <2>1, SeqEqual
<1> QED BY <1>6, <1>11, <1>14

LEMMA PoolIs ==
    ASSUME NEW l, NEW q, ListHolds(l, q),
           NEW all, all = Walk(l.next, l.head) \o Walk(l.next, l.free_id)
    PROVE  Len(all) = l.exploit /\ ToSet(all) = 0 .. l.exploit - 1
<1>1. PICK s, F : Whole(l, s, F, q)
  BY DEF ListHolds
<1>2. all = s \o F
  BY <1>1, ReadIs
<1>3. s \in Seq(Nodes) /\ F \in Seq(Nodes) /\ Shared(l, s, F) /\ l \in ListRec
  BY <1>1 DEF Whole
<1>4. PICK m \in Nat, n \in Nat : m = Len(s) /\ n = Len(F)
  BY <1>3
<1>5. PICK e \in Nat : e = l.exploit
  BY <1>3, RecFacts
<1>6. e <= END_ID /\ END_ID \in Nat
  BY <1>3, <1>5, RecFacts, NodeIds
<1>7. all \in Seq(Nodes) /\ Len(all) = m + n
  BY <1>2, <1>3, <1>4
<1>8. \A i \in 1 .. m + n : all[i] = IF i <= m THEN s[i] ELSE F[i - m]
  BY <1>2, <1>3, <1>4
<1>9. m + n = e
  BY <1>3, <1>4, <1>5 DEF Shared
<1>10. \A x \in Nodes : x < e <=> Among(x, s) \/ Among(x, F)
  BY <1>3, <1>5 DEF Shared
<1>11. ToSet(all) = {all[i] : i \in 1 .. m + n}
  <2>1. DOMAIN all = 1 .. m + n
    BY <1>7, SeqParts
  <2> QED BY <2>1 DEF ToSet
<1>12. ASSUME NEW i \in 1 .. m + n PROVE all[i] \in 0 .. e - 1
  <2>1. CASE i <= m
    <3>1. i \in 1 .. Len(s)
      BY <1>4, <2>1
    <3>2. s[i] \in Nodes
      BY <1>3, <3>1, SeqParts
    <3>3. Among(s[i], s)
      BY <3>1 DEF Among
    <3>4. all[i] = s[i]
      BY <1>8, <2>1
    <3>5. s[i] < e
      BY <1>10, <3>2, <3>3
    <3> QED BY <1>5, <3>2, <3>4, <3>5, NodeIds
  <2>2. CASE ~(i <= m)
    <3>1. i - m \in 1 .. Len(F)
      BY <1>4, <2>2
    <3>2. F[i - m] \in Nodes
      BY <1>3, <3>1, SeqParts
    <3>3. Among(F[i - m], F)
      BY <3>1 DEF Among
    <3>4. all[i] = F[i - m]
      BY <1>8, <2>2
    <3>5. F[i - m] < e
      BY <1>10, <3>2, <3>3
    <3> QED BY <1>5, <3>2, <3>4, <3>5, NodeIds
  <2> QED BY <2>1, <2>2
<1>13. ASSUME NEW x \in 0 .. e - 1 PROVE \E i \in 1 .. m + n : all[i] = x
  <2>1. x \in Nodes /\ x < e
    <3>1. x \in Nat /\ x < e /\ x < END_ID
      BY <1>5, <1>6
    <3> QED BY <3>1, NodeIds
  <2>2. CASE Among(x, s)
    <3>1. PICK i \in 1 .. m : s[i] = x
      BY <1>4, <2>2 DEF Among
    <3>2. i \in 1 .. m + n /\ i <= m
      BY <1>4
    <3> QED BY <1>8, <3>1, <3>2
  <2>3. CASE Among(x, F)
    <3>1. PICK i \in 1 .. n : F[i] = x
      BY <1>4, <2>3 DEF Among
    <3>2. i + m \in 1 .. m + n /\ ~(i + m <= m) /\ (i + m) - m = i
      BY <1>4
    <3>3. all[i + m] = F[(i + m) - m]
      BY <1>8, <3>2
    <3> QED BY <3>1, <3>2, <3>3
  <2> QED BY <1>10, <2>1, <2>2, <2>3
<1>14. ToSet(all) = 0 .. e - 1
  BY <1>11, <1>12, <1>13
<1> QED BY <1>5, <1>7, <1>9, <1>14

LEMMA SpacesAre ==
    ASSUME NEW l, NEW q, ListHolds(l, q)
    PROVE  /\ \A i \in 0 .. l.exploit - 1 : l.space[i] = IF i < ListFixed THEN Fixed ELSE l.dync
           /\ l.exploit > ListFixed => l.dync # 0
<1>1. l \in ListRec /\ Spaced(l)
  BY DEF ListHolds, Whole
<1>2. l.exploit \in Nat /\ l.exploit <= END_ID /\ END_ID \in Nat
  BY <1>1, RecFacts, NodeIds
<1>3. \A i \in 0 .. l.exploit - 1 : i \in Nodes /\ i < l.exploit
  BY <1>2, NodeIds
<1> QED BY <1>1, <1>3 DEF Spaced

\* A sorted sequence.
Rising(s) == \A i, j \in DOMAIN s : i < j => s[i] <= s[j]

\* The least of a set of indices.
First(S) == CHOOSE k \in S : \A j \in S : k <= j

\* Where lower_bound leads to.
BoundOf(l, q, v) ==
    IF LowerBound(l, v) = END_ID THEN Len(q) + 1
    ELSE CHOOSE j \in DOMAIN Walk(l.next, l.head) : Walk(l.next, l.head)[j] = LowerBound(l, v)

LEMMA BoundIs ==
    ASSUME NEW l, NEW q, ListHolds(l, q), NEW v \in Values, NEW k, k = BoundOf(l, q, v)
    PROVE  /\ k \in 1 .. Len(q) + 1
           /\ \A j \in 1 .. Len(q) : j < k => q[j] < v
           /\ k \in 1 .. Len(q) => ~(q[k] < v)
<1>1. PICK s, F : Whole(l, s, F, q)
  BY DEF ListHolds
<1>2. Walk(l.next, l.head) = s
  BY <1>1, ReadIs
<1>3. /\ s \in Seq(Nodes) /\ q \in Seq(Values) /\ \A i \in 1 .. Len(s) : l.val[s[i]] = q[i]
      /\ Doubly(l.next, l.front, l.head, s)
  BY <1>1 DEF Whole
<1>4. PICK m \in Nat : m = Len(s) /\ m = Len(q)
  BY <1>1, RoomIs
<1>5. DOMAIN s = 1 .. m
  <2>1. s \in Seq(Nodes)
    BY <1>3
  <2> QED BY <1>4, <2>1, SeqParts
<1>6. PICK stop : stop = {i \in 1 .. m : ~(q[i] < v)}
  OBVIOUS
<1>7. {i \in DOMAIN s : ~(l.val[s[i]] < v)} = stop
  BY <1>3, <1>4, <1>5, <1>6
<1>8. PICK b : b = LowerBound(l, v)
  OBVIOUS
<1>9. b = IF stop = {} THEN END_ID ELSE s[First(stop)]
  <2>1. PICK ids : ids = Walk(l.next, l.head)
    OBVIOUS
  <2>2. LowerBound(l, v) = IF {i \in DOMAIN ids : ~(l.val[ids[i]] < v)} = {} THEN END_ID
                           ELSE ids[First({i \in DOMAIN ids : ~(l.val[ids[i]] < v)})]
    <3>1. LowerBound(l, v)
            = IF {i \in DOMAIN Walk(l.next, l.head) : ~(l.val[Walk(l.next, l.head)[i]] < v)} = {} THEN END_ID
              ELSE Walk(l.next, l.head)
                     [First({i \in DOMAIN Walk(l.next, l.head) : ~(l.val[Walk(l.next, l.head)[i]] < v)})]
      BY DEF LowerBound, First
    <3> QED BY <2>1, <3>1, Zenon
  <2>3. {i \in DOMAIN ids : ~(l.val[ids[i]] < v)} = stop
    BY <1>2, <1>7, <2>1
  <2> QED BY <1>2, <1>8, <2>1, <2>2, <2>3, Zenon
<1>10. CASE stop = {}
  <2>1. k = m + 1
    BY <1>4, <1>8, <1>9, <1>10 DEF BoundOf
  <2>2. \A j \in 1 .. m : q[j] < v
    BY <1>6, <1>10
  <2>3. k \in 1 .. m + 1 /\ k \notin 1 .. m
    BY <2>1
  <2> QED BY <1>4, <2>2, <2>3
<1>11. CASE stop # {}
  <2>1. stop \subseteq Nat
    BY <1>6
  <2>2. \E i \in stop : \A j \in stop : i <= j
    BY <1>11, <2>1, LeastNat
  <2>3. PICK i : i = First(stop)
    OBVIOUS
  <2>4. i \in stop /\ \A j \in stop : i <= j
    BY <2>2, <2>3 DEF First
  <2>5. b = s[i]
    BY <1>9, <1>11, <2>3
  <2>6. i \in 1 .. m /\ ~(q[i] < v)
    BY <1>6, <2>4
  <2>7. b # END_ID
    <3>1. s[i] \in Nodes
      <4>1. s \in Seq(Nodes) /\ i \in 1 .. Len(s)
        BY <1>3, <1>4, <2>6
      <4> QED BY <4>1, SeqParts
    <3> QED BY <2>5, <3>1, NodeIds
  <2>8. k = CHOOSE j \in DOMAIN s : s[j] = b
    BY <1>2, <1>8, <2>7 DEF BoundOf
  <2>9. \A j \in 1 .. m : s[j] = b => j = i
    <3>1. \A j, g \in 1 .. Len(s) + 1 : Ring(s, j) = Ring(s, g) => j = g
      BY <1>3 DEF Doubly
    <3>2. \A j \in 1 .. m : Ring(s, j) = s[j] /\ j \in 1 .. Len(s) + 1
      BY <1>4 DEF Ring
    <3> QED BY <2>5, <2>6, <3>1, <3>2
  <2>10. k = i
    <3>1. \E j \in 1 .. m : s[j] = b
      BY <2>5, <2>6
    <3>2. k \in 1 .. m /\ s[k] = b
      BY <1>5, <2>8, <3>1
    <3> QED BY <2>9, <3>2
  <2>11. \A j \in 1 .. m : j < k => q[j] < v
    <3>1. ASSUME NEW j \in 1 .. m, j < k PROVE q[j] < v
      <4>1. ~(i <= j)
        BY <2>6, <2>10, <3>1
      <4>2. j \notin stop
        BY <2>4, <4>1
      <4> QED BY <1>6, <4>2
    <3> QED BY <3>1
  <2> QED BY <1>4, <2>6, <2>10, <2>11
<1> QED BY <1>10, <1>11

LEMMA BoundSorts ==
    ASSUME NEW l, NEW q, ListHolds(l, q), NEW v \in Values, Rising(q)
    PROVE  Rising(Spliced(q, BoundOf(l, q, v), 0, <<v>>))
<1>1. PICK k : k = BoundOf(l, q, v)
  OBVIOUS
<1>2. q \in Seq(Values) /\ Len(q) \in Nat
  BY HoldsFacts
<1>3. PICK m \in Nat : m = Len(q)
  BY <1>2
<1>4. /\ k \in 1 .. m + 1
      /\ \A j \in 1 .. m : j < k => q[j] < v
      /\ k \in 1 .. m => ~(q[k] < v)
  BY <1>1, <1>3, BoundIs
<1>5. PICK t : t = Spliced(q, k, 0, <<v>>)
  OBVIOUS
<1>6. t = Inserted(q, k, v)
  <2>1. k \in 1 .. Len(q) + 1
    BY <1>3, <1>4
  <2> QED BY <1>2, <1>5, <2>1, SplicedOne
<1>7. /\ t \in Seq(Values) /\ Len(t) = m + 1
      /\ \A i \in 1 .. m + 1 : t[i] = IF i < k THEN q[i] ELSE IF i = k THEN v ELSE q[i - 1]
  <2>1. k \in 1 .. Len(q) + 1
    BY <1>3, <1>4
  <2>2. /\ Inserted(q, k, v) \in Seq(Values) /\ Len(Inserted(q, k, v)) = Len(q) + 1
        /\ \A i \in 1 .. Len(q) + 1 :
             Inserted(q, k, v)[i] = IF i < k THEN q[i] ELSE IF i = k THEN v ELSE q[i - 1]
    BY <1>2, <2>1, InsertedFacts
  <2> QED BY <1>3, <1>6, <2>2
<1>8. v \in Int /\ \A i \in 1 .. m : q[i] \in Int
  <2>1. Values \subseteq Int
    BY ListAssumption
  <2>2. \A i \in 1 .. m : q[i] \in Values
    BY <1>2, <1>3, SeqParts
  <2> QED BY <2>1, <2>2
<1>9. \A i, j \in 1 .. m : i < j => q[i] <= q[j]
  BY <1>2, <1>3 DEF Rising
<1>10. \A i, j \in 1 .. m : i <= j => q[i] <= q[j]
  <2>1. ASSUME NEW i \in 1 .. m, NEW j \in 1 .. m, i <= j PROVE q[i] <= q[j]
    <3>1. i < j \/ i = j
      BY <2>1
    <3> QED BY <1>8, <1>9, <3>1
  <2> QED BY <2>1
<1>11. ASSUME NEW i \in 1 .. m + 1, NEW j \in 1 .. m + 1, i < j PROVE t[i] <= t[j]
  <2>1. CASE j < k
    <3>1. i \in 1 .. m /\ j \in 1 .. m /\ i < k
      BY <1>4, <1>11, <2>1
    <3> QED BY <1>7, <1>9, <1>11, <2>1, <3>1
  <2>2. CASE j = k
    <3>1. i \in 1 .. m /\ i < k /\ ~(j < k)
      BY <1>4, <1>11, <2>2
    <3> QED BY <1>4, <1>7, <1>8, <2>2, <3>1
  <2>3. CASE j > k
    <3>1. j - 1 \in 1 .. m /\ ~(j < k) /\ j # k /\ t[j] = q[j - 1]
      BY <1>4, <1>7, <2>3
    <3>2. CASE i < k
      <4>1. i \in 1 .. m /\ i <= j - 1
        BY <1>4, <1>11, <2>3, <3>2
      <4> QED BY <1>7, <1>10, <3>1, <3>2, <4>1
    <3>3. CASE i = k
      <4>1. k \in 1 .. m /\ k <= j - 1
        BY <1>4, <1>11, <2>3, <3>1, <3>3
      <4>2. q[k] <= q[j - 1] /\ v <= q[k]
        BY <1>4, <1>8, <1>10, <3>1, <4>1
      <4>3. t[i] = v
        BY <1>4, <1>7, <3>3
      <4> QED BY <1>8, <3>1, <4>1, <4>2, <4>3
    <3>4. CASE i > k
      <4>1. i - 1 \in 1 .. m /\ i - 1 <= j - 1 /\ t[i] = q[i - 1]
        BY <1>4, <1>7, <1>11, <3>4
      <4> QED BY <1>10, <3>1, <4>1
    <3> QED BY <1>4, <3>2, <3>3, <3>4
  <2> QED BY <1>4, <2>1, <2>2, <2>3
<1>12. Rising(t)
  <2>1. DOMAIN t = 1 .. m + 1
    BY <1>7
  <2> QED BY <1>11, <2>1 DEF Rising
<1> QED BY <1>1, <1>5, <1>12

\* ListInv says all of it.
LEMMA ListSays ==
    ASSUME ListInv
    PROVE  ListSound
<1>1. ListContents
  <2>1. ASSUME NEW o \in Lists
        PROVE  /\ Elements(list[o]) = lseq[o]
               /\ Reverse([k \in DOMAIN Walk(list[o].front, list[o].front[END_ID]) |->
                             list[o].val[Walk(list[o].front, list[o].front[END_ID])[k]]]) = lseq[o]
               /\ list[o].used_count = Len(lseq[o])
    <3>1. PICK l, q : /\ l = list[o] /\ q = lseq[o] /\ ListHolds(l, q) /\ l.dync \in Nat
                      /\ q \in Seq(Values) /\ Len(q) \in Nat
      BY CurrentFacts
    <3>2. PICK back : back = Walk(l.front, l.front[END_ID])
      OBVIOUS
    <3>3. Reverse([k \in DOMAIN back |-> l.val[back[k]]]) = q
      BY <3>1, <3>2, ReadsBack
    <3>4. Elements(l) = q /\ l.used_count = Len(q)
      BY <3>1, HoldsFacts
    <3> QED BY <3>1, <3>2, <3>3, <3>4
  <2> QED BY <2>1 DEF ListContents
<1>2. ListPool
  <2>1. ASSUME NEW o \in Lists
        PROVE  /\ Len(Ids(o) \o Walk(list[o].next, list[o].free_id)) = list[o].exploit
               /\ ToSet(Ids(o) \o Walk(list[o].next, list[o].free_id)) = 0 .. list[o].exploit - 1
               /\ ListFull(list[o]) <=> Len(lseq[o]) = ListSize
    <3>1. PICK l, q : /\ l = list[o] /\ q = lseq[o] /\ ListHolds(l, q) /\ l.dync \in Nat
                      /\ q \in Seq(Values) /\ Len(q) \in Nat
      BY CurrentFacts
    <3>2. PICK all : all = Walk(l.next, l.head) \o Walk(l.next, l.free_id)
      OBVIOUS
    <3>3. Len(all) = l.exploit /\ ToSet(all) = 0 .. l.exploit - 1
      BY <3>1, <3>2, PoolIs
    <3>4. ListFull(l) <=> Len(q) = ListSize
      BY <3>1, HoldsFacts DEF END_ID
    <3> QED BY <3>1, <3>2, <3>3, <3>4 DEF Ids
  <2> QED BY <2>1 DEF ListPool
<1>3. ListSpaces
  <2>1. ASSUME NEW o \in Lists
        PROVE  /\ \A i \in 0 .. list[o].exploit - 1 :
                    list[o].space[i] = IF i < ListFixed THEN Fixed ELSE list[o].dync
               /\ list[o].exploit > ListFixed => list[o].dync # 0
    <3>1. PICK l, q : /\ l = list[o] /\ q = lseq[o] /\ ListHolds(l, q) /\ l.dync \in Nat
                      /\ q \in Seq(Values) /\ Len(q) \in Nat
      BY CurrentFacts
    <3>2. /\ \A i \in 0 .. l.exploit - 1 : l.space[i] = IF i < ListFixed THEN Fixed ELSE l.dync
          /\ l.exploit > ListFixed => l.dync # 0
      BY <3>1, SpacesAre
    <3> QED BY <3>1, <3>2
  <2> QED BY <2>1 DEF ListSpaces, ListInv, Apart
<1>4. ListSorted
  <2>1. ASSUME NEW o \in Lists, NEW v \in Values, Rising(lseq[o])
        PROVE  Rising(Spliced(lseq[o], BoundOf(list[o], lseq[o], v), 0, <<v>>))
    <3>1. PICK l, q : /\ l = list[o] /\ q = lseq[o] /\ ListHolds(l, q) /\ l.dync \in Nat
                      /\ q \in Seq(Values) /\ Len(q) \in Nat
      BY CurrentFacts
    <3>2. Rising(q)
      BY <2>1, <3>1
    <3>3. Rising(Spliced(q, BoundOf(l, q, v), 0, <<v>>))
      BY <3>1, <3>2, BoundSorts
    <3> QED BY <3>1, <3>3
  <2> QED BY <2>1 DEF ListSorted, Rising, BoundOf, Ids
<1>5. ListLeaks
  BY DEF ListLeaks, ListInv
<1> QED BY <1>1, <1>2, <1>3, <1>4, <1>5 DEF ListSound

(* A list (zlist, zlist_ext) of any size, with any part of it in the       *)
(* object, holds after any sequence of calls what its operations promise,  *)
(* read forward and backward; its nodes are all in the list or in the free *)
(* list, their elements lie in the object or in a buffer of its own, and   *)
(* lower_bound finds where a sorted list stays sorted.                     *)
THEOREM ListIsSound == ListSpec => []ListSound
<1>1. ListInit => ListInv
  <2>1. PICK n, e : n = InitList /\ e = <<>>
    OBVIOUS
  <2>2. ListHolds(n, e) /\ n.dync = 0
    BY <2>1, InitHolds
  <2>3. ASSUME ListInit PROVE ListInv
    <3>1. list = [o \in Lists |-> n] /\ lseq = [o \in Lists |-> e] /\ lost = FALSE
      BY <2>1, <2>3 DEF ListInit
    <3> QED BY <2>2, <3>1 DEF ListInv, Apart
  <2> QED BY <2>3
<1>2. ListInv /\ [ListNext]_lvars => ListInv'
  BY ListStays
<1>3. ListInv => ListSound
  BY ListSays
<1> QED BY <1>1, <1>2, <1>3, PTL DEF ListSpec

=============================================================================
