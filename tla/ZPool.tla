------------------------------- MODULE ZPool -------------------------------
(***************************************************************************)
(* zpool (zpool.h): chunk_count_ chunks; the freed ones are linked through *)
(* their own first word, which belongs to the user while a chunk is lent.  *)
(***************************************************************************)
EXTENDS Integers, Sequences, FiniteSets

CONSTANTS CHUNKS        \* chunk_count_

ASSUME PoolAssumption == CHUNKS \in Nat

VARIABLES pool,     \* chunk_exploit_offset_, chunk_used_count_,
                    \* chunk_free_id_ and the first word of every chunk
          lent,     \* history: the chunks handed out
          freed     \* history: the chunks given back and not handed out
                    \* again, the latest last

pvars == <<pool, lent, freed>>

NONE == -1              \* (u32)-1
Junk == 0               \* what a user may write over the link
Chunk == 0 .. CHUNKS - 1

(* init *)
PoolInit ==
    /\ pool = [exploit_offset |-> 0, used |-> 0, free_id |-> NONE,
               word |-> [c \in Chunk |-> Junk]]
    /\ lent = {} /\ freed = <<>>

Recycled(p) == p.free_id # NONE
Exhausted(p) == ~Recycled(p) /\ p.exploit_offset >= CHUNKS

\* Mutant: the list of freed chunks loses all but its first.
TakeLast(p) == [p EXCEPT !.used = @ + 1, !.free_id = NONE]
TakeFreed(p) == [p EXCEPT !.used = @ + 1, !.free_id = p.word[p.free_id]]

(* exploit, and create of an object in the chunk: a freed chunk first *)
Exploit ==
    /\ ~Exhausted(pool)
    /\ LET c == IF Recycled(pool) THEN pool.free_id ELSE pool.exploit_offset
           p == IF Recycled(pool) THEN TakeFreed(pool)
                ELSE [pool EXCEPT !.used = @ + 1, !.exploit_offset = @ + 1]
       IN /\ pool' = [p EXCEPT !.word[c] = Junk]
          /\ lent' = lent \cup {c}
          /\ freed' = IF Recycled(pool) THEN SubSeq(freed, 1, Len(freed) - 1) ELSE freed

(* NULL *)
ExploitNull == Exhausted(pool) /\ UNCHANGED pvars

(* back, and destroy, of a chunk that is lent *)
Back(c) ==
    /\ c \in lent
    /\ pool' = [pool EXCEPT !.word[c] = pool.free_id, !.free_id = c, !.used = @ - 1]
    /\ lent' = lent \ {c}
    /\ freed' = Append(freed, c)

PoolNext == Exploit \/ ExploitNull \/ \E c \in Chunk : Back(c)

PoolSpec == PoolInit /\ [][PoolNext]_pvars

-----------------------------------------------------------------------------
(* Properties *)

Freed == {freed[k] : k \in 1 .. Len(freed)}

(* The links through the freed chunks name the chunks given back, the      *)
(* latest first, each once, and end.                                       *)
LinksSpell ==
    /\ pool.free_id = IF freed = <<>> THEN NONE ELSE freed[Len(freed)]
    /\ \A k \in 1 .. Len(freed) :
         pool.word[freed[k]] = IF k = 1 THEN NONE ELSE freed[k - 1]
    /\ \A j, k \in 1 .. Len(freed) : freed[j] = freed[k] => j = k

(* The chunks below the offset are lent or in the list of freed ones,      *)
(* never both and never twice, so no chunk is handed out while it is lent  *)
(* and none is lost; size() counts the lent ones.                          *)
PoolWhole ==
    /\ LinksSpell
    /\ Freed \cap lent = {}
    /\ Freed \cup lent = 0 .. pool.exploit_offset - 1
    /\ pool.used = Cardinality(lent)

=============================================================================
