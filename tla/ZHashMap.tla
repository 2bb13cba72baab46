------------------------------ MODULE ZHashMap ------------------------------
(***************************************************************************)
(* zhash_map and zhash_set (zhash_map.h): _Size nodes in a pool, buckets   *)
(* of chained nodes, a list of freed nodes whose head is node 0, the       *)
(* offset of the last node ever used and the lowest node in use.           *)
(***************************************************************************)
EXTENDS Integers, Sequences, FiniteSets

CONSTANTS NODE_COUNT,           \* _Size
          Keys, Mapped,         \* keys and mapped values
          Default,              \* mapped_type()
          HashOf                \* key |-> Hash()(key)

ASSUME MapAssumption ==
    NODE_COUNT \in Nat \ {0} /\ HashOf \in [Keys -> Nat] /\ Default \in Mapped

VARIABLES map,      \* the object
          thrown,   \* the last operator[] threw overflow_error
          mmap      \* history: key |-> mapped value the map should hold

mvars == <<map, thrown, mmap>>

FREE_POOL == 0
INVALID_NODE_ID == NODE_COUNT + 1
HASH_COUNT == NODE_COUNT * 2
Pool == 0 .. NODE_COUNT
BucketOf(key) == HashOf[key] % HASH_COUNT

(* reset(); a node above the offset is not read before pop_free and insert *)
(* have written it.                                                        *)
Reset ==
    [buckets |-> [h \in 0 .. HASH_COUNT - 1 |-> FREE_POOL],
     next |-> [n \in Pool |-> 0],
     hash_id |-> [n \in Pool |-> HASH_COUNT],
     val |-> [n \in Pool |-> <<>>],
     first |-> 0, exploit |-> 0, count |-> 0]

MapInit == map = Reset /\ thrown = FALSE /\ mmap = <<>>

-----------------------------------------------------------------------------
(* Nodes *)

(* next_b: the first node in use from n on, or INVALID_NODE_ID *)
NextB(m, n) ==
    LET in_use == {i \in n .. m.exploit : m.hash_id[i] # HASH_COUNT}
    IN IF in_use = {} THEN INVALID_NODE_ID
       ELSE CHOOSE i \in in_use : \A j \in in_use : i <= j

MapFull(m) == m.next[FREE_POOL] = FREE_POOL /\ m.exploit >= NODE_COUNT
PopId(m) == IF m.next[FREE_POOL] # FREE_POOL THEN m.next[FREE_POOL] ELSE m.exploit + 1

(* pop_free of a map that is not full; the node is PopId(m) *)
PopFree(m) ==
    LET id == PopId(m) IN
    [m EXCEPT !.count = @ + 1,
              !.first = IF @ = FREE_POOL \/ id < @ THEN id ELSE @,
              !.next[FREE_POOL] = IF @ # FREE_POOL THEN m.next[@] ELSE @,
              !.exploit = IF m.next[FREE_POOL] # FREE_POOL THEN @ ELSE @ + 1]

PushFree(m, id) ==
    LET f == [m EXCEPT !.hash_id[id] = HASH_COUNT, !.val[id] = <<>>,
                       !.next = [@ EXCEPT ![id] = m.next[FREE_POOL], ![FREE_POOL] = id],
                       !.count = @ - 1]
    IN [f EXCEPT !.first = IF id = @ THEN NextB(f, id + 1) ELSE @]

(* The nodes of a bucket in the order of the chain *)
ChainFrom(m, n) ==
    LET at[k \in 0 .. NODE_COUNT + 1] ==
          IF k = 0 THEN n ELSE IF at[k - 1] = FREE_POOL THEN FREE_POOL ELSE m.next[at[k - 1]]
        len == Cardinality({k \in 0 .. NODE_COUNT : at[k] # FREE_POOL})
    IN [k \in 1 .. len |-> at[k - 1]]
Chain(m, h) == ChainFrom(m, m.buckets[h])

Find(m, key) ==
    LET c == Chain(m, BucketOf(key))
        hit == {k \in DOMAIN c : m.val[c[k]][1] = key}
    IN IF hit = {} THEN INVALID_NODE_ID ELSE c[CHOOSE k \in hit : \A j \in hit : k <= j]

(* A new node in front of its bucket *)
Link(m, key, v) ==
    LET h == BucketOf(key)
        id == PopId(m)
    IN [PopFree(m) EXCEPT !.val[id] = <<key, v>>, !.hash_id[id] = h,
                          !.next[id] = m.buckets[h], !.buckets[h] = id]

\* Mutant: the chain is cut at the erased node.
UnlinkCut(m, id) ==
    LET h == m.hash_id[id]
        c == Chain(m, h)
        k == CHOOSE j \in DOMAIN c : c[j] = id
    IN IF k = 1 THEN [m EXCEPT !.buckets[h] = m.next[id]]
       ELSE [m EXCEPT !.next[c[k - 1]] = FREE_POOL]

Unlink(m, id) ==
    LET h == m.hash_id[id]
        c == Chain(m, h)
        k == CHOOSE j \in DOMAIN c : c[j] = id
    IN IF k = 1 THEN [m EXCEPT !.buckets[h] = m.next[id]]
       ELSE [m EXCEPT !.next[c[k - 1]] = m.next[id]]

-----------------------------------------------------------------------------
(* The steps *)

Holds(f, k) == k \in DOMAIN f
Without(f, k) == [x \in DOMAIN f \ {k} |-> f[x]]
With(f, k, v) == [x \in DOMAIN f \cup {k} |-> IF x = k THEN v ELSE f[x]]

(* insert(val): an existing key keeps its value, a full map its keys *)
MapInsert(key, v) ==
    /\ map' = IF Find(map, key) # INVALID_NODE_ID \/ MapFull(map) THEN map
              ELSE Link(map, key, v)
    /\ mmap' = IF Holds(mmap, key) \/ Cardinality(DOMAIN mmap) = NODE_COUNT THEN mmap
               ELSE With(mmap, key, v)
    /\ thrown' = FALSE

(* map[key] = v *)
MapPut(key, v) ==
    LET m == IF Find(map, key) # INVALID_NODE_ID THEN map ELSE Link(map, key, Default)
        full == Find(map, key) = INVALID_NODE_ID /\ MapFull(map)
    IN /\ thrown' = full
       /\ map' = IF full THEN map ELSE [m EXCEPT !.val[Find(m, key)][2] = v]
       /\ mmap' = IF ~Holds(mmap, key) /\ Cardinality(DOMAIN mmap) = NODE_COUNT THEN mmap
                  ELSE With(mmap, key, v)

(* erase(key) *)
MapErase(key) ==
    LET id == Find(map, key) IN
    /\ map' = IF id = INVALID_NODE_ID THEN map ELSE PushFree(Unlink(map, id), id)
    /\ mmap' = Without(mmap, key)
    /\ thrown' = FALSE

(* erase(iterator): of any node id, also one that was erased before *)
MapEraseNode(id) ==
    LET gone == id = FREE_POOL \/ id > map.exploit \/ map.hash_id[id] >= HASH_COUNT IN
    /\ map' = IF gone THEN map ELSE PushFree(Unlink(map, id), id)
    /\ mmap' = IF gone THEN mmap ELSE Without(mmap, map.val[id][1])
    /\ thrown' = FALSE

MapClear == map' = Reset /\ mmap' = <<>> /\ thrown' = FALSE

MapNext ==
    \/ \E key \in Keys, v \in Mapped : MapInsert(key, v) \/ MapPut(key, v)
    \/ \E key \in Keys : MapErase(key)
    \/ \E id \in Pool : MapEraseNode(id)
    \/ MapClear

MapSpec == MapInit /\ [][MapNext]_mvars

-----------------------------------------------------------------------------
(* Properties *)

(* begin() and then next() until end() *)
Iterated(m) ==
    LET step(i) == LET rest == {j \in i + 1 .. m.exploit : m.hash_id[j] < HASH_COUNT}
                   IN IF rest = {} THEN INVALID_NODE_ID
                      ELSE CHOOSE j \in rest : \A k \in rest : j <= k
        at[k \in 0 .. NODE_COUNT] == IF k = 0 THEN NextB(m, m.first)
                                     ELSE IF at[k - 1] = INVALID_NODE_ID THEN INVALID_NODE_ID
                                     ELSE step(at[k - 1])
    IN {at[k] : k \in 0 .. NODE_COUNT} \ {INVALID_NODE_ID}

(* find() of every key answers what the map should hold, size() counts it  *)
(* and operator[] throws only for a new key of a full map.                 *)
MapContents ==
    /\ \A key \in Keys :
         /\ Holds(mmap, key) <=> Find(map, key) # INVALID_NODE_ID
         /\ Holds(mmap, key) => map.val[Find(map, key)] = <<key, mmap[key]>>
    /\ map.count = Cardinality(DOMAIN mmap)
    /\ thrown => map.count = NODE_COUNT

(* Iterating visits every key once, the lowest node first, whatever nodes  *)
(* were freed and used again (first_valid_node_id_).                       *)
MapIterates ==
    /\ {map.val[n][1] : n \in Iterated(map)} = DOMAIN mmap
    /\ Cardinality(Iterated(map)) = map.count

(* Every node below the offset is in the chain of the bucket its hash_id   *)
(* names or, marked HASH_COUNT, in the free list, and in no other place:   *)
(* no node is lost, none is handed out while it holds a key.               *)
MapNodes ==
    LET free == ChainFrom(map, map.next[FREE_POOL])
        Buckets == 0 .. HASH_COUNT - 1
        placed(n) == Cardinality({k \in DOMAIN free : free[k] = n})
                     + Cardinality({p \in Buckets \X (1 .. NODE_COUNT) :
                                      /\ p[2] \in DOMAIN Chain(map, p[1])
                                      /\ Chain(map, p[1])[p[2]] = n})
    IN \A n \in 1 .. NODE_COUNT :
         /\ placed(n) = IF n <= map.exploit THEN 1 ELSE 0
         /\ \A h \in Buckets :
              (\E k \in DOMAIN Chain(map, h) : Chain(map, h)[k] = n) => map.hash_id[n] = h
         /\ (\E k \in DOMAIN free : free[k] = n) => map.hash_id[n] = HASH_COUNT

(* A map after any sequence of calls: what it finds, what it iterates over *)
(* and the nodes it keeps both in.                                         *)
MapSound == MapContents /\ MapIterates /\ MapNodes

=============================================================================
